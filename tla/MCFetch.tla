------------------------------ MODULE MCFetch -------------------------------
(* A small upstream for TLC: statuses in each spelling, pages whose        *)
(* cursors run in a circle, and every command.                             *)
EXTENDS Fetch

CONSTANTS c1, c2

Raw(ids, media, reposts, replies) ==
    [ids |-> ids, texts |-> <<FALSE, TRUE>>, media |-> [all |-> 0, photos |-> 0, videos |-> media],
     reposts |-> reposts, replies |-> replies]

Plain   == [tweet |-> Absent, flat |-> Raw(<<0, 2>>, 0, {}, <<>>)]
Picture == [tweet |-> Raw(<<3>>, 1, {}, <<>>), flat |-> Raw(<<>>, 0, {}, <<>>)]
Reply   == [tweet |-> Absent, flat |-> Raw(<<4>>, 0, {"reposted_by"}, <<FALSE, TRUE>>)]
Nothing == [tweet |-> Absent,
            flat  |-> [Raw(<<>>, 0, {}, <<>>) EXCEPT !.texts = <<>>]]

MCPages ==
    {[lists |-> <<<<>>, <<Plain, Picture>>>>, cursors |-> <<NoCursor, c1>>],
     [lists |-> <<<<Reply>>>>,                cursors |-> <<c2>>],
     [lists |-> <<<<Nothing>>>>,              cursors |-> <<c1>>],
     [lists |-> <<<<Nothing>>, <<Plain>>>>,   cursors |-> <<>>],
     [lists |-> <<>>,                         cursors |-> <<c2>>]}

MCCounts == {<<Absent, 0>>, <<1, 0>>, <<>>}

Tweet(id) == [id |-> id, text |-> TRUE, media |-> 0, repost |-> FALSE, reply |-> FALSE]
MCFeeds == {<<>>, <<Tweet(5), Tweet(1)>>}

Cmds == {"user", "search", "accounts", "list", "get", "thread", "quotes", "comments",
         "followers", "following", "profile", "trends", "typeahead", "instances"}

MCJobs ==
    {j \in [cmd : Cmds, backend : {"mix", "fx"}, pinned : BOOLEAN, mode : Modes,
            limit : {1, 3}, maxPages : {1, 4}, replies : BOOLEAN, filter : Filters] :
        /\ j.cmd = "get" => j.limit = 1
        /\ j.cmd \notin {"user", "list"} => j.maxPages = 1
        /\ j.cmd # "user" => ~j.replies
        /\ j.cmd \notin {"user", "search", "list", "quotes"} => j.filter = "none"
        /\ j.pinned => j.backend = "mix"}
=============================================================================
