---------------------------- MODULE AccountChain ----------------------------
(***************************************************************************)
(* What the account ledger promises its readers: one line of states.  It   *)
(* starts with a genesis state that is never replaced (the capital is paid *)
(* in once), grows by states that follow its last one, and shrinks only by *)
(* taking back that last state (docs/runtime-artifacts.md:68-73).          *)
(***************************************************************************)
EXTENDS Naturals, Sequences

CONSTANT Entry

VARIABLE chain

Init == chain = << >>

\* The genesis state.
Open ==
    /\ chain = << >>
    /\ chain' \in Seq(Entry)
    /\ Len(chain') = 1

\* States that all follow the last one become visible together.
Extend ==
    /\ chain # << >>
    /\ chain' \in Seq(Entry)
    /\ Len(chain') > Len(chain)
    /\ \A k \in 1..Len(chain) : chain'[k] = chain[k]

\* The last state is taken back; the genesis state never is.
TakeBack ==
    /\ Len(chain) > 1
    /\ chain' = [k \in 1..(Len(chain) - 1) |-> chain[k]]

Next == Open \/ Extend \/ TakeBack

Spec == Init /\ [][Next]_chain
=============================================================================
