------------------------------ MODULE Versions ------------------------------
(***************************************************************************)
(* The versions of one page that trunkdb keeps in memory                   *)
(* (src/storage/pages.rs: `Version`, `prune`, the lookup in `read_at`).    *)
(*                                                                         *)
(* The code keeps a chain, a Vec of versions with strictly ascending       *)
(* commit numbers.  Here a chain is the set of its versions: the numbers   *)
(* are distinct, so the order is that of `seq` and the last element is the *)
(* one with the greatest.  The empty chain is "no entry in the map".       *)
(*                                                                         *)
(* A page's bytes are abstracted to the number of the commit that wrote    *)
(* them: two pages with the same id have the same bytes if and only if the *)
(* same commit wrote them.                                                 *)
(***************************************************************************)
EXTENDS Integers, FiniteSets

(* `Version`: the commit that wrote it (0 for the page as it was before    *)
(* the first commit that changed it), its bytes, and whether the file      *)
(* holds it.                                                               *)
Version == [seq : Nat, page : Nat, written : BOOLEAN]

(* The versions of a chain are of distinct commits.                        *)
Distinct(chain) == \A v, w \in chain : v.seq = w.seq => v = w

(* `chain.last()`.                                                         *)
IsNewest(chain, v) == \A w \in chain : w.seq <= v.seq
Newest(chain) == CHOOSE v \in chain : IsNewest(chain, v)

(* The versions a reader as of commit s can be given, and the one it is    *)
(* given: `chain.iter().rev().find(|version| version.seq <= seq)`.         *)
AtOrBefore(chain, s) == {v \in chain : v.seq <= s}
ReadableAt(chain, s) == Newest(AtOrBefore(chain, s))

(* A reader as of commit s reads v: s is at or after v's commit, and       *)
(* before the next version's.                                              *)
ReadBy(chain, v, s) ==
    /\ v.seq <= s
    /\ \A w \in chain : w.seq > v.seq => s < w.seq

(* Mutant of Prune: a snapshot as of v's own commit taken for one that     *)
(* doesn't read v.                                                         *)
PruneStrict(chain, live) ==
    {v \in chain : \/ IsNewest(chain, v)
                   \/ \E s \in live : v.seq < s /\ ReadBy(chain, v, s)}

(* `prune`: what stays is the newest, and every version a snapshot in      *)
(* `live` reads.                                                           *)
Prune(chain, live) ==
    {v \in chain : \/ IsNewest(chain, v)
                   \/ \E s \in live : ReadBy(chain, v, s)}

(* The versions kept for open snapshots only: all but the newest.          *)
Older(chain) == {v \in chain : \E w \in chain : w.seq > v.seq}

(* Whether the newest version still waits for a checkpoint.                *)
Unwritten(chain) == \E v \in chain : IsNewest(chain, v) /\ ~v.written

(* Mutant of MarkWritten: the mark left out.                               *)
MarkNone(chain) == chain

(* The newest version marked as one the file holds:                        *)
(* `chain.last_mut().unwrap().written = true`.                             *)
MarkWritten(chain) ==
    {IF IsNewest(chain, v) THEN [v EXCEPT !.written = TRUE] ELSE v :
       v \in chain}

(* `Memory::forget` for one page: prune, and drop the entry of a page left *)
(* with one version that the file holds.                                   *)
Forget(chain, live) ==
    LET kept == Prune(chain, live)
    IN  IF Older(kept) = {} /\ ~Unwritten(kept) THEN {} ELSE kept
=============================================================================
