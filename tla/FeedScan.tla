------------------------------ MODULE FeedScan ------------------------------
(***************************************************************************)
(* What one fetch of a feed reads.  A feed is the sequence of ids the      *)
(* upstream holds, newest first, and it is served in pages of a fixed      *)
(* size.  scanRSS (internal/nitter/appapi/rsspage.go) follows the page     *)
(* cursors until the page budget is spent, no cursor is offered, or a page *)
(* satisfies the caller's stop predicate; the HTML and FxTwitter readers   *)
(* do the same without a predicate.  The cursor of a page is the id it     *)
(* ends with, so a scan reads a prefix of the feed.                        *)
(*                                                                         *)
(* The stop predicates are those of cli/commands/watch/watch.go.           *)
(***************************************************************************)
EXTENDS WatchEngine

CONSTANT MaxPages       \* --max-pages: pages per fetch

ASSUME FeedScanAssumption == MaxPages \in Nat \ {0}

-----------------------------------------------------------------------------
(* The ids n, n - 1, ..., 1: all posts there ever were, newest first. *)
Countdown(n) == [k \in 1..n |-> n + 1 - k]

(* The ids on page p of a feed served size ids at a time. *)
PageIDs(feed, size, p) ==
    {feed[i] : i \in {j \in DOMAIN feed : (p - 1) * size < j /\ j =< p * size}}

(* The pages of a feed within the budget. *)
Pages == 1..MaxPages

(* The entries a scan returns when the pages in stops end it: an entry is  *)
(* read when it lies within the page budget and no page before its own     *)
(* made the scan stop.                                                     *)
Scan(feed, size, stops) ==
    Keep(feed, {i \in DOMAIN feed :
                  /\ i =< MaxPages * size
                  /\ \A p \in stops : i =< p * size})

(* rssStop: a page without an id the source has not seen ends the scan. *)
RSSStop(prev, page) == page \subseteq Range(prev.SeenIDs)

(* mergedStop: a page ends the scan of a batch when every id on it is seen *)
(* by its author, and never while a member of the batch is uninitialized.  *)
MergedStop(store, batch, author, page) ==
    /\ \A s \in batch : store[s].Initialized
    /\ \A id \in page : id \in Range(store[author[id]].SeenIDs)

=============================================================================
