------------------------------ MODULE NICMerge ------------------------------
(***************************************************************************)
(* The by-ID list merge that internal/bmc (GetSystemInfo) and the host     *)
(* controller (updateHostNICsFromSystemInfo and the processor loop of      *)
(* updateHostStatusFromSystemInfo) each write out by hand.  An entry is a  *)
(* record [id, data]: `data' stands for the MAC addresses of a NIC or the  *)
(* type/model/speed/core fields of a processor, which the merge copies as  *)
(* a whole.                                                                *)
(***************************************************************************)
EXTENDS Naturals, Sequences, SequencesExt

IDsOf(list) == {list[i].id : i \in DOMAIN list}

\* Mutant: the whole entry compared instead of its ID (`newNic ==
\* existingNic').
MergeEntryMatchWhole(list, new) ==
    LET i == SelectInSeq(list, LAMBDA e : e = new)
    IN  IF i # 0 THEN [list EXCEPT ![i] = new] ELSE Append(list, new)

\* Mutant: `updated = true' forgotten, so an updated entry is appended too.
MergeEntryNoUpdated(list, new) ==
    LET i == SelectInSeq(list, LAMBDA e : e.id = new.id)
    IN  IF i # 0 THEN Append([list EXCEPT ![i] = new], new) ELSE Append(list, new)

\* The body of the loop for one new entry: the inner loop's first existing
\* entry with the same ID is overwritten (then break), else the entry is
\* appended.
MergeEntry(list, new) ==
    LET i == SelectInSeq(list, LAMBDA e : e.id = new.id)
    IN  IF i # 0 THEN [list EXCEPT ![i] = new] ELSE Append(list, new)

\* The outer loop, `for _, newNic := range info', in order.
RECURSIVE MergeByID(_, _)
MergeByID(list, info) ==
    IF info = <<>> THEN list
    ELSE MergeByID(MergeEntry(list, Head(info)), Tail(info))

UpdateHostNICsFromSystemInfo(nics, info) == MergeByID(nics, info)

UpdateHostProcessors(processors, info) == MergeByID(processors, info)

-----------------------------------------------------------------------------
(* The reference: the merge as section 4.2 of the spec states it, without  *)
(* a loop.  Every existing entry stays where it is; the first entry of an  *)
(* ID the new list reports takes the last value reported for it; IDs not   *)
(* yet listed are appended in the order they first appear.                 *)

FirstIndex(list, id) == SelectInSeq(list, LAMBDA e : e.id = id)

LastValue(info, id) == info[SelectLastInSeq(info, LAMBDA e : e.id = id)]

MergeReference(list, info) ==
    LET kept  == [i \in DOMAIN list |->
                    IF list[i].id \in IDsOf(info) /\ FirstIndex(list, list[i].id) = i
                    THEN LastValue(info, list[i].id) ELSE list[i]]
        fresh == SelectSeq([j \in DOMAIN info |-> j],
                           LAMBDA j : /\ info[j].id \notin IDsOf(list)
                                      /\ FirstIndex(info, info[j].id) = j)
    IN  kept \o [k \in DOMAIN fresh |-> LastValue(info, info[fresh[k]].id)]

=============================================================================
