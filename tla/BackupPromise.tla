--------------------------- MODULE BackupPromise ---------------------------
(***************************************************************************)
(* What the coordinator promises a backup: the database is dumped while no *)
(* service whose writes the dump must not see is doing a round of work.    *)
(***************************************************************************)
CONSTANT Services

VARIABLES working,   \* the services in a round of reads and writes
          dumping    \* a dump of the database is being taken

Init == working = {} /\ dumping = FALSE

StartWork(s) ==
  /\ ~dumping
  /\ working' = working \union {s}
  /\ UNCHANGED dumping

StopWork(s) ==
  /\ working' = working \ {s}
  /\ UNCHANGED dumping

BeginDump ==
  /\ working = {}
  /\ dumping' = TRUE
  /\ UNCHANGED working

EndDump == dumping' = FALSE /\ UNCHANGED working

Next ==
  \/ \E s \in Services : StartWork(s) \/ StopWork(s)
  \/ BeginDump \/ EndDump

Spec == Init /\ [][Next]_<<working, dumping>>
=============================================================================
