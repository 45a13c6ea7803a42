----------------------------- MODULE ContentUpload -----------------------------
(* What a client does with content that is stored: it publishes its index and   *)
(* registers uploads. The two share neither tables nor queues, and a behaviour  *)
(* has publications or uploads.                                                 *)
EXTENDS UploadTableProperties, BlockIndex

ContentInit == Init /\ IndexInit

ContentNext ==
    \/ DOMAIN publishing = {} /\ Next /\ UNCHANGED index
    \/ IndexNext /\ UNCHANGED vars

ContentSpec == ContentInit /\ [][ContentNext]_<<vars, index>>
=============================================================================
