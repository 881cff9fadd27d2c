---------------------------- MODULE MCConnection ----------------------------
(***************************************************************************)
(* Small instances of Connection.                                          *)
(***************************************************************************)
EXTENDS Connection

\* Nothing ends the connection: streams are opened and closed forever.
Running ==
  \E p \in Peers :
    \/ \E id \in Ids : Application(p, id)
    \/ open_outbound(p)
    \/ Exchange(p)

RunningSpec == Init /\ [][Running]_vars

\* The applications write, and drop the halves of a stream; what they wrote is
\* never read, so it fills the windows while the connection ends.
Leave(p, id) ==
  LET st == streams[p][id]
  IN  /\ \/ can_write(st) /\ SetStream(p, id, write(st, 1))
         \/ st.out = "open" /\ SetStream(p, id, close_writing(st))
         \/ st.inb # "closed" /\ SetStream(p, id, close_reading(st))
      /\ UNCHANGED <<connVars, pending, wire>>

\* Every ID is used once.
OpenOnce(p) == open_outbound(p) /\ \E id \in Ids : streams'[p][id].gen < streams[p][id].gen

Ending ==
  \E p \in Peers :
    \/ \E id \in Ids : Leave(p, id)
    \/ OpenOnce(p)
    \/ Exchange(p)
    \/ fail(p)
    \/ receive_eof(p)
    \/ write_fails(p)
    \/ downgrade(p)
    \/ Downgrading(p)

FairEndingSpec == Init /\ [][Ending]_vars /\ Fairness
=============================================================================
