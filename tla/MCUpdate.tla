------------------------------ MODULE MCUpdate ------------------------------
(* Three installers on either system with a release that comes out between *)
(* them, and single lookups over every pair of the versions of semver.org. *)
EXTENDS Update, TLC

CONSTANTS p1, p2, p3

V(pre)  == Version(<<1, 0, 0>>, pre)
Alpha   == Word(1)
Beta    == Word(2)
Next1   == Version(<<1, 0, 1>>, <<>>)
Next2   == Version(<<1, 10, 0>>, <<>>)

MCPrecedence ==
    <<{Invalid}, {V(<<Number(2)>>)}, {V(<<Alpha>>)}, {V(<<Alpha, Number(1)>>)}, {V(<<Alpha, Beta>>)},
      {V(<<Beta>>)}, {V(<<Beta, Number(2)>>)}, {V(<<Beta, Number(11)>>)}, {V(<<>>)}, {Next1},
      {Version(<<1, 2, 0>>, <<>>)}, {Next2}>>

MCVersions == UNION {MCPrecedence[i] : i \in DOMAIN MCPrecedence}

(* Higher ranks the list of semver.org, lowest first, as it is written.    *)
ASSUME ListInOrder ==
    \A i, j \in DOMAIN MCPrecedence :
        \A v \in MCPrecedence[i], w \in MCPrecedence[j] : Higher(v, w) <=> i > j

Entry(version) == [regular |-> TRUE, version |-> version]
Body(digest, entries) == [digest |-> digest, entries |-> entries]

Release(tag) ==
    [tag |-> tag, draft |-> FALSE, prerelease |-> tag.identifiers # <<>>, urls |-> "official",
     sums |-> "listed", digest |-> "a", bodies |-> {Body("a", <<Entry(tag)>>)}]

Install == [check |-> FALSE, prerelease |-> FALSE, json |-> FALSE, confirm |-> TRUE, tty |-> FALSE]
Check   == [check |-> TRUE, prerelease |-> TRUE, json |-> TRUE, confirm |-> FALSE, tty |-> FALSE]
Asked   == [Install EXCEPT !.confirm = FALSE, !.tty = TRUE]

Setting(windows, source, current, now, later, jobs) ==
    [windows |-> windows, source |-> source, jobs |-> jobs, current |-> current,
     page |-> now, later |-> later]

(* What arrives of the second release may be damaged; of the third one the *)
(* archive holds another program, or two.                                  *)
Partly  == [Release(Next2) EXCEPT !.bodies = @ \cup {Body("b", <<Entry(Next2)>>)}]
Damaged == [Release(Next2) EXCEPT
              !.bodies = {Body("a", <<Entry(Next1)>>), Body("a", <<Entry(Next2), Entry(Next2)>>)}]

Races ==
    {Setting(windows, "archive", V(<<>>), {Release(Next1)}, {Partly},
             p1 :> Install @@ p2 :> Asked @@ p3 :> Install) : windows \in BOOLEAN}

Singles ==
    {Setting(TRUE, source, V(<<Beta>>), now, {}, p1 :> job) :
        source \in Sources, now \in {{Damaged}, {Partly}, {}},
        job \in {Install, Asked, Check, [Check EXCEPT !.confirm = TRUE],
                 [Install EXCEPT !.json = TRUE]}}

Pairs(versions) ==
    {Setting(FALSE, "archive", current, {Release(a), Release(b)}, {}, p1 :> Check) :
        current \in versions, a \in versions, b \in versions}

MCScenarios == Races \cup Singles \cup Pairs(MCVersions)
=============================================================================
