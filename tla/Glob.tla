-------------------------------- MODULE Glob --------------------------------
(***************************************************************************)
(* Patterns over keys: the matcher of the store (glob_match), the test     *)
(* whether a granted scope covers a requested pattern, and what both are   *)
(* meant to say.  Patterns and texts are sequences of characters.          *)
(***************************************************************************)
EXTENDS Integers, Sequences, SequencesExt

Wildcards == {"*", "?"}

\* glob_match: two positions and one point to come back to, the last star.  m is
\* [i, j, star, resume], positions from 1, star 0 while there is none.
RECURSIVE GlobLoop(_, _, _)
GlobLoop(p, t, m) ==
    IF m.i > Len(t) THEN \A x \in m.j..Len(p) : p[x] = "*"
    ELSE IF m.j <= Len(p) /\ p[m.j] \in {"?", t[m.i]}
    THEN GlobLoop(p, t, [m EXCEPT !.i = @ + 1, !.j = @ + 1])
    ELSE IF m.j <= Len(p) /\ p[m.j] = "*"
    THEN GlobLoop(p, t, [m EXCEPT !.j = @ + 1, !.star = m.j, !.resume = m.i])
    ELSE /\ m.star # 0
         /\ GlobLoop(p, t, [m EXCEPT !.i = m.resume + 1, !.j = m.star + 1, !.resume = @ + 1])

GlobMatch(p, t) == GlobLoop(p, t, [i |-> 1, j |-> 1, star |-> 0, resume |-> 1])

\* The part before the first wildcard.
LiteralPrefix(p) ==
    LET at == SelectInSeq(p, LAMBDA ch : ch \in Wildcards)
    IN  IF at = 0 THEN p ELSE SubSeq(p, 1, at - 1)

\* Mutant of ScopeCoversPattern: the wider pattern is taken for the narrower one.
ScopeCoversReversed(grant, requested) ==
    \/ grant = requested \/ grant = <<"*">>
    \/ /\ Last(grant) = "*"
       /\ Range(Front(grant)) \cap Wildcards = {}
       /\ IsPrefix(LiteralPrefix(requested), Front(grant))

\* scope_covers_pattern: only a literal prefix with a star behind it, or the same text.
ScopeCoversPattern(grant, requested) ==
    \/ grant = requested \/ grant = <<"*">>
    \/ /\ Last(grant) = "*"
       /\ Range(Front(grant)) \cap Wildcards = {}
       /\ IsPrefix(Front(grant), LiteralPrefix(requested))

\* What a pattern means: a star is any run of characters, a question mark any one.
RECURSIVE Matches(_, _)
Matches(p, t) ==
    IF p = <<>> THEN t = <<>>
    ELSE IF Head(p) = "*" THEN Matches(Tail(p), t) \/ (t # <<>> /\ Matches(p, Tail(t)))
    ELSE t # <<>> /\ Head(p) \in {"?", Head(t)} /\ Matches(Tail(p), Tail(t))
=============================================================================
