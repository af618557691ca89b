---------------------------- MODULE MCRegistration ----------------------------
(***************************************************************************)
(* Instances of Registration for TLC.  Jobs and devices are model values,  *)
(* and Home says which jobs share a device and its queue of writes.        *)
(***************************************************************************)
EXTENDS Registration, TLC

CONSTANTS c1, c2, l1, l2, d1, d2

\* A character and a line on one device, another character on a second one:
\* the line may be of either, read from the server or still in the queue.
HomeTwoDevices == (c1 :> d1) @@ (l1 :> d1) @@ (c2 :> d2)

\* A character and two lines overlap on one device.
HomeOneDevice == (c1 :> d1) @@ (l1 :> d1) @@ (l2 :> d1)

===============================================================================
