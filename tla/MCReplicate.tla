------------------------------ MODULE MCReplicate ------------------------------
(***************************************************************************)
(* Instances of Replicate for TLC.                                         *)
(***************************************************************************)
EXTENDS Replicate

CONSTANTS healthy, failing   \* two sinks of a fan-out

Msg(type, kind, final, lsn) ==
    [type |-> type, kind |-> kind, final |-> final, lsn |-> lsn]
Begin(c)             == Msg("begin", "meta", c, c)
Change(kind, c, lsn) == Msg("change", kind, c, lsn)
Commit(c, end)       == Msg("commit", "meta", c, end)

\* Two transactions whose changes interleave in the WAL; the second commit
\* record begins where the first ends.
TwoTxns == <<Begin(4), Change("row", 4, 1), Change("meta", 4, 3), Commit(4, 5),
             Begin(5), Change("row", 5, 2), Commit(5, 7)>>

\* One transaction with every kind of change, and one row after it.
AllKinds == <<Begin(7), Change("schema", 7, 1), Change("row", 7, 2),
              Change("skip", 7, 3), Change("nosql", 7, 4), Change("bad", 7, 5),
              Change("meta", 7, 6), Commit(7, 8),
              Begin(9), Change("row", 9, 6), Commit(9, 11)>>

\* Three transactions: one row; nothing for the target; two rows among changes
\* the applier skips or the decoder rejects.
ThreeTxns == <<Begin(2), Change("row", 2, 1), Commit(2, 3),
               Begin(4), Change("skip", 4, 3), Commit(4, 5),
               Begin(9), Change("row", 9, 1), Change("nosql", 9, 4), Change("bad", 9, 6),
               Change("row", 9, 7), Change("meta", 9, 8), Commit(9, 10)>>

\* Keepalives at the commit LSN of the first transaction (sent before or inside
\* it) and at its end.
KeepAlives    == {4, 5}
AllKeepAlives == {7, 9}
=============================================================================
