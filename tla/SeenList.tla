------------------------------ MODULE SeenList ------------------------------
(***************************************************************************)
(* The two pure list operations of internal/storage/seen/seen.go that      *)
(* decide what a source remembers: MergeSeen, which puts a round's new ids *)
(* in front of the remembered ones, and CapWatermark, which keeps the      *)
(* numeric ids of a first page.  An id is any value; EmptyID stands for    *)
(* the empty string and NonNumericIDs for the ids strconv.Atoi refuses.    *)
(*                                                                         *)
(* The definitions are by position instead of by loop: a list is cut down  *)
(* to the positions that survive (Keep) and then capped (UpTo).            *)
(***************************************************************************)
EXTENDS Positions

CONSTANTS
    SeenLimit,          \* ids remembered per source (300 in the code)
    WatermarkLimit,     \* ids of a first-page watermark (20 in the code)
    EmptyID,            \* the id of a tweet that has none: ""
    NonNumericIDs       \* ids that are not a decimal number

ASSUME SeenListAssumption ==
    /\ SeenLimit \in Nat \ {0}
    /\ WatermarkLimit \in Nat \ {0}

-----------------------------------------------------------------------------
(* The positions of s that hold no copy of an earlier entry. *)
FirstCopies(s) == {i \in DOMAIN s : \A j \in 1..(i - 1) : s[j] # s[i]}

-----------------------------------------------------------------------------
(* Faulty variants, to show what the properties of the runs rest on: the   *)
(* old ids are replaced, the copies stay.                                  *)
MergeSeenReplaces(newIDs, oldIDs) == UpTo(newIDs, SeenLimit)

MergeSeenKeepsCopies(newIDs, oldIDs) ==
    LET all == newIDs \o oldIDs
    IN  UpTo(Keep(all, {i \in DOMAIN all : all[i] # EmptyID}), SeenLimit)

(* New ids in front of old ids, without empty ids and without the later    *)
(* copies of an id, cut at SeenLimit.  A known id that comes again moves   *)
(* to the front.                                                           *)
MergeSeen(newIDs, oldIDs) ==
    LET all == newIDs \o oldIDs
    IN  UpTo(Keep(all, {i \in FirstCopies(all) : all[i] # EmptyID}), SeenLimit)

(* The numeric ids of a page in page order, without copies, cut at         *)
(* WatermarkLimit.                                                         *)
CapWatermark(ids) ==
    LET numeric == {i \in FirstCopies(ids) :
                        ids[i] # EmptyID /\ ids[i] \notin NonNumericIDs}
    IN  UpTo(Keep(ids, numeric), WatermarkLimit)

=============================================================================
