--------------------------- MODULE MCChatPlayback ---------------------------
(* Three lines on a screen that holds two of them, and half-way three. *)
EXTENDS ChatPlayback

MCScreens == {{0, 1}, {0, 1, 2}, {1, 2}}

=============================================================================
