---------------------------- MODULE MCConversations ----------------------------
(***************************************************************************)
(* Conversations for TLC: parties here, parties and work elsewhere.  A     *)
(* search finds parties, so that it may leave out some of the list.        *)
(***************************************************************************)
EXTENDS Conversations, TLC

CONSTANTS line, party, work, party_, blank

MCLine == {line}
MCTitle == {party, work}
MCOwnTitle == {party}
MCOtherTitle == {party, work}
MCText == {party_, blank}
MCMatching == (party_ :> {party}) @@ (blank :> MCTitle)

=============================================================================
