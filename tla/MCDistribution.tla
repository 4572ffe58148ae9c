-------------------------- MODULE MCDistribution --------------------------
(* One follower with two overlapping sessions; two overlapping publications.  *)
EXTENDS Distribution

CONSTANTS r1, r2, r3, g, s1, s2, main, other, f1, a, b, w1, w2,
  chained, opened, elsewhere, unreviewed, undecided, circular, dangling, undeclared

MCFollowerOf == [s \in {a, b} |-> f1]
MCAllowed == {{}, {g}}

Nothing == [r \in Resource |-> None]
Draft == [name |-> main, groups |-> {g}, accepted |-> TRUE, tasks |-> FALSE,
          discovered |-> Nothing, authored |-> Nothing]
Tool(status, prose, spec) == [kind |-> "tool", status |-> status, prose |-> prose, spec |-> spec]
For(groups, deps, spec) == [groups |-> groups, deps |-> deps, spec |-> spec]

\* r3 needs r2 and r2 needs r1, which only the group may see.
Chained == [Draft EXCEPT !.authored = [Nothing EXCEPT
  ![r1] = For({g}, {}, s1), ![r2] = For({}, {r1}, s2), ![r3] = For({}, {r2}, s1)]]
\* What was authored wins over what was discovered; a blob of the first draft is in it.
Opened == [Draft EXCEPT
  !.discovered = [Nothing EXCEPT ![r1] = Tool("accepted", FALSE, s2), ![r2] = Tool("accepted", FALSE, s1)],
  !.authored = [Nothing EXCEPT ![r1] = For({}, {}, s2)]]
\* Another profile, for the group alone, holds a blob of both.
Elsewhere == [Draft EXCEPT !.name = other, !.authored = [Nothing EXCEPT ![r1] = For({g}, {}, s1)]]
\* Drafts that are not published.
Unreviewed == [Opened EXCEPT !.accepted = FALSE]
Undecided == [Opened EXCEPT !.discovered[r3] = Tool("needs-review", FALSE, s2)]
Circular == [Chained EXCEPT !.authored[r1].deps = {r3}]
Dangling == [Chained EXCEPT !.authored[r2] = None]
Undeclared == [Chained EXCEPT !.groups = {}]
MCInput == [i \in Revision |->
  CASE i = chained -> Chained [] i = opened -> Opened [] i = elsewhere -> Elsewhere
    [] i = unreviewed -> Unreviewed [] i = undecided -> Undecided
    [] i = circular -> Circular [] i = dangling -> Dangling [] i = undeclared -> Undeclared]
=============================================================================
