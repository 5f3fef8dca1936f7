--------------------------- MODULE CTServerProofs ---------------------------
(***************************************************************************)
(* Proofs about what stands around the personality.                        *)
(*                                                                         *)
(* ValidateChain (ChainValidation, V!) accepts paths to roots and          *)
(* nothing else.  That all it finds are paths is an invariant of the       *)
(* frames of the search and of its cache.  That it finds the submission    *)
(* takes more: in a submission without duplicates the pool is the rest of  *)
(* the submission in its order, so that the search first walks along it    *)
(* with an empty cache, and has paid by then for nothing but the           *)
(* certificates and the roots on its way (Descending).                     *)
(*                                                                         *)
(* The load test (Hammer, H!) raises no false alarm: what it               *)
(* remembers of the Log stays true while the Log grows, and the tree never *)
(* reaches what the hammer takes to be out of range, because a certificate *)
(* of the source is entered once.                                          *)
(*                                                                         *)
(* A configuration that ct_server accepts (LogConfig, C!) keeps its        *)
(* logs apart, for any number of logs and backends.                        *)
(***************************************************************************)
EXTENDS CTServer, SequenceTheorems, FiniteSetTheorems, WellFoundedInduction, TLAPS

\* A non-empty set of positions has a first one.
LEMMA FirstPosition ==
    ASSUME NEW S \in SUBSET Nat, S # {}
    PROVE  \E i \in S : \A j \in S : i <= j
<1>1. PICK i \in S : \A j \in S : <<j, i>> \notin OpToRel(<, Nat)
  BY NatLessThanWellFounded, WFMin
<1>2. \A j \in S : ~(j < i)
  BY <1>1 DEF OpToRel
<1> QED
  BY <1>2

----------------------------------------------------------------------------
(* Chain validation.                                                       *)

Distinct(s) == \A i, j \in DOMAIN s : s[i] = s[j] => i = j

\* The loop over the submission: a submission without duplicates is, but for its leaf,
\* the pool of intermediates.
Parsing ==
    /\ maxChainSignatureChecks \in Nat
    /\ submitted \in Seq(V!Certs) /\ submitted # <<>>
    /\ trusted \in Seq(V!Certs) /\ pool \in Seq(V!Certs)
    /\ parsed \in 0..Len(submitted) /\ \A i \in 1..parsed : submitted[i] # Garbage
    /\ Distinct(submitted) =>
         /\ Len(pool) = IF parsed = 0 THEN 0 ELSE parsed - 1
         /\ \A j \in 1..Len(pool) : pool[j] = submitted[j + 1]
    /\ phase \in {"parse", "search", "done"}
    /\ phase = "search" => parsed = Len(submitted)
    /\ phase = "parse" => result = {} /\ DOMAIN cache = {} /\ sigChecks = 0

\* A chain from the leaf along intermediates, each the issuer of the one before.
IsBranch(ch) ==
    /\ ch \in Seq(V!Certs) /\ ch # <<>> /\ ch[1] = submitted[1] /\ Distinct(ch)
    /\ \A i \in 1..(Len(ch) - 1) : V!Issued(ch, i, pool, "intermediate")

IsPath(ch) == ch \in Seq(V!Certs) /\ ch # <<>> /\ ch[1] = submitted[1] /\ V!PathToRoot(ch)

Frames == [chain : Seq(V!Certs), rootNums : SUBSET Nat, intermediateNums : SUBSET Nat,
           found : Seq(Seq(V!Certs))]

FrameIsRight(f) ==
    /\ f \in Frames /\ IsBranch(f.chain)
    /\ f.rootNums \subseteq V!findPotentialParents(trusted, V!Last(f.chain))
    /\ f.intermediateNums \subseteq V!findPotentialParents(pool, V!Last(f.chain))
    /\ \A k \in 1..Len(f.found) : IsPath(f.found[k])

AreFound(chains) == chains \in Seq(Seq(V!Certs)) /\ \A k \in 1..Len(chains) : IsPath(chains[k])

\* Whatever is on the stack, in the cache or returned is a path from the leaf.
Searching ==
    phase = "search" =>
        /\ ~V!contains(trusted, submitted[1])
        /\ options.strict \/ V!LeafAllowed(submitted[1], options)
        /\ stack # <<>> /\ \A k \in 1..Len(stack) : FrameIsRight(stack[k])
        /\ stack \in Seq(Frames) /\ sigChecks \in Nat
        /\ \A c \in DOMAIN cache : AreFound(cache[c])

----------------------------------------------------------------------------
LEMMA FirstIsLeast ==
    ASSUME NEW S \in SUBSET Nat, S # {}
    PROVE  V!First(S) \in S /\ \A j \in S : V!First(S) <= j
BY FirstPosition, Zenon DEF V!First

LEMMA PathsStay ==
    ASSUME UNCHANGED <<submitted, trusted, options, pool>>
    PROVE  \A ch : IsPath(ch)' <=> IsPath(ch)
BY DEF IsPath, V!PathToRoot, V!Issued, V!contains, V!Contains

LEMMA FramesStay ==
    ASSUME UNCHANGED <<submitted, trusted, options, pool>>
    PROVE  \A f : FrameIsRight(f) => FrameIsRight(f)'
<1> SUFFICES ASSUME NEW f, FrameIsRight(f) PROVE FrameIsRight(f)'
  OBVIOUS
<1>1. \A k \in 1..Len(f.found) : IsPath(f.found[k])'
  BY PathsStay DEF FrameIsRight
<1>2. IsBranch(f.chain)'
  BY DEF FrameIsRight, IsBranch, V!Issued
<1> QED
  BY <1>1, <1>2 DEF FrameIsRight

LEMMA LastOf ==
    ASSUME NEW S, NEW s \in Seq(S), s # <<>>
    PROVE  V!Last(s) = s[Len(s)] /\ V!Last(s) \in S /\ Len(s) \in Nat \ {0}
BY DEF V!Last

\* findPotentialParents gives numbers of the pool.
LEMMA ParentsAreNumbers ==
    ASSUME NEW S, NEW certs \in Seq(S), NEW c
    PROVE  V!findPotentialParents(certs, c) \subseteq 1..Len(certs)
<1>1. DOMAIN certs = 1..Len(certs)
  OBVIOUS
<1> QED
  BY <1>1 DEF V!findPotentialParents

\* A new call.
LEMMA CallIsRight ==
    ASSUME trusted \in Seq(V!Certs), pool \in Seq(V!Certs), NEW ch, IsBranch(ch)
    PROVE  FrameIsRight(V!Call(ch, trusted, pool))
<1>1. /\ V!findPotentialParents(trusted, V!Last(ch)) \in SUBSET Nat
      /\ V!findPotentialParents(pool, V!Last(ch)) \in SUBSET Nat
  <2>1. /\ V!findPotentialParents(trusted, V!Last(ch)) \subseteq 1..Len(trusted)
        /\ V!findPotentialParents(pool, V!Last(ch)) \subseteq 1..Len(pool)
    BY ParentsAreNumbers
  <2> QED
    BY <2>1
<1>2. V!Call(ch, trusted, pool) \in Frames
  BY <1>1 DEF V!Call, Frames, IsBranch
<1> QED
  BY <1>2 DEF FrameIsRight, V!Call

\* The branch ch and one more certificate, issuer of the last.
IsExtension(new, ch, certs, type) ==
    /\ new \in Seq(V!Certs) /\ new[1] = submitted[1] /\ Distinct(new) /\ Len(new) = Len(ch) + 1
    /\ \A i \in 1..(Len(ch) - 1) : V!Issued(new, i, pool, "intermediate")
    /\ V!Issued(new, Len(ch), certs, type)

\* A candidate that is good makes the branch longer, or a path.
LEMMA GoodExtends ==
    ASSUME NEW ch, IsBranch(ch), NEW n, NEW certs \in Seq(V!Certs), NEW type,
           n \in V!findPotentialParents(certs, V!Last(ch)), ~V!Contains(ch, certs[n]),
           V!CheckSignatureFrom(V!Last(ch), certs[n]), V!isValid(certs[n], type, ch, options)
    PROVE  IsExtension(Append(ch, certs[n]), ch, certs, type)
<1> DEFINE new == Append(ch, certs[n])
<1>1. ch \in Seq(V!Certs) /\ ch # <<>> /\ Len(ch) \in Nat \ {0} /\ DOMAIN ch = 1..Len(ch)
  BY DEF IsBranch
<1>2. n \in 1..Len(certs) /\ certs[n] \in V!Certs
  BY ParentsAreNumbers
<1>3. /\ new \in Seq(V!Certs) /\ Len(new) = Len(ch) + 1 /\ DOMAIN new = 1..(Len(ch) + 1)
      /\ \A i \in 1..Len(ch) : new[i] = ch[i]
      /\ new[Len(ch) + 1] = certs[n]
  BY <1>1, <1>2
<1> HIDE DEF new
<1>4. new[1] = submitted[1]
  BY <1>1, <1>3 DEF IsBranch
<1>5. \A i \in 1..Len(ch) : ch[i] # certs[n]
  BY <1>1 DEF V!Contains
<1>6. Distinct(new)
  <2> SUFFICES ASSUME NEW i \in 1..(Len(ch) + 1), NEW j \in 1..(Len(ch) + 1), new[i] = new[j] PROVE i = j
    BY <1>3 DEF Distinct
  <2>1. CASE i \in 1..Len(ch) /\ j \in 1..Len(ch)
    BY <1>1, <1>3, <2>1 DEF IsBranch, Distinct
  <2>2. CASE i = Len(ch) + 1 \/ j = Len(ch) + 1
    <3>1. i = Len(ch) + 1 \/ i \in 1..Len(ch)
      BY <1>1
    <3>2. j = Len(ch) + 1 \/ j \in 1..Len(ch)
      BY <1>1
    <3> QED
      BY <1>3, <1>5, <2>2, <3>1, <3>2
  <2> QED
    BY <1>1, <2>1, <2>2
<1>7. \A i \in 1..Len(ch) : SubSeq(new, 1, i) = SubSeq(ch, 1, i)
  <2> SUFFICES ASSUME NEW i \in 1..Len(ch) PROVE SubSeq(new, 1, i) = SubSeq(ch, 1, i)
    OBVIOUS
  <2>1. /\ SubSeq(new, 1, i) = [j \in 1..i |-> new[j]]
        /\ SubSeq(ch, 1, i) = [j \in 1..i |-> ch[j]]
    BY <1>1, <1>3
  <2>2. \A j \in 1..i : new[j] = ch[j]
    BY <1>1, <1>3
  <2> QED
    BY <2>1, <2>2
<1>8. \A i \in 1..(Len(ch) - 1) : V!Issued(new, i, pool, "intermediate")
  <2> SUFFICES ASSUME NEW i \in 1..(Len(ch) - 1) PROVE V!Issued(new, i, pool, "intermediate")
    OBVIOUS
  <2>1. V!Issued(ch, i, pool, "intermediate")
    BY DEF IsBranch
  <2>2. new[i] = ch[i] /\ new[i + 1] = ch[i + 1] /\ SubSeq(new, 1, i) = SubSeq(ch, 1, i)
    BY <1>1, <1>3, <1>7
  <2> QED
    BY <2>1, <2>2 DEF V!Issued
<1>9. SubSeq(ch, 1, Len(ch)) = ch
  BY <1>1
<1>10. new[Len(ch)] = V!Last(ch) /\ new[Len(ch) + 1] = certs[n] /\ SubSeq(new, 1, Len(ch)) = ch
  BY <1>1, <1>3, <1>7, <1>9 DEF V!Last
<1>11. V!Issued(new, Len(ch), certs, type)
  BY <1>10 DEF V!Issued
<1> QED
  BY <1>3, <1>4, <1>6, <1>8, <1>11 DEF new, IsExtension

LEMMA RootCompletes ==
    ASSUME NEW ch, IsBranch(ch), trusted \in Seq(V!Certs), NEW n,
           ~V!contains(trusted, submitted[1]),
           n \in V!findPotentialParents(trusted, V!Last(ch)), ~V!Contains(ch, trusted[n]),
           V!CheckSignatureFrom(V!Last(ch), trusted[n]), V!isValid(trusted[n], "root", ch, options)
    PROVE  IsPath(Append(ch, trusted[n]))
<1> DEFINE new == Append(ch, trusted[n])
<1>1. ch \in Seq(V!Certs) /\ Len(ch) \in Nat \ {0}
  BY DEF IsBranch
<1>2. /\ new \in Seq(V!Certs) /\ new[1] = submitted[1] /\ Distinct(new) /\ Len(new) = Len(ch) + 1
      /\ \A i \in 1..(Len(ch) - 1) : V!Issued(new, i, pool, "intermediate")
      /\ V!Issued(new, Len(ch), trusted, "root")
  <2>1. IsExtension(new, ch, trusted, "root")
    BY GoodExtends
  <2> QED
    BY <2>1 DEF IsExtension
<1> HIDE DEF new
<1>3. \A i \in 1..(Len(new) - 1) :
        V!Issued(new, i, IF i < Len(new) - 1 THEN pool ELSE trusted,
                 IF i < Len(new) - 1 THEN "intermediate" ELSE "root")
  <2> SUFFICES ASSUME NEW i \in 1..(Len(new) - 1)
               PROVE  V!Issued(new, i, IF i < Len(new) - 1 THEN pool ELSE trusted,
                               IF i < Len(new) - 1 THEN "intermediate" ELSE "root")
    OBVIOUS
  <2>1. CASE i < Len(new) - 1
    <3>1. i \in 1..(Len(ch) - 1)
      BY <1>1, <1>2, <2>1
    <3> QED
      BY <1>2, <2>1, <3>1
  <2>2. CASE ~(i < Len(new) - 1)
    <3>1. i = Len(ch)
      BY <1>1, <1>2, <2>2
    <3> QED
      BY <1>2, <2>2, <3>1
  <2> QED
    BY <2>1, <2>2
<1>4. Len(new) > 1 /\ new # <<>>
  BY <1>1, <1>2
<1>5. V!PathToRoot(new)
  BY <1>2, <1>3, <1>4 DEF V!PathToRoot, Distinct
<1> QED
  BY <1>2, <1>4, <1>5 DEF IsPath, new

\* The innermost call of the search.
LEMMA TopIsRight ==
    ASSUME Searching, phase = "search"
    PROVE  FrameIsRight(V!Top) /\ Len(stack) \in Nat \ {0} /\ stack \in Seq(Frames)
<1>1. Len(stack) \in Nat \ {0}
  BY DEF Searching
<1> QED
  BY <1>1 DEF Searching, V!Top

\* A call that does less than it had to do is still right, whatever it has found.
LEMMA SmallerFrame ==
    ASSUME NEW f, FrameIsRight(f), NEW n, NEW chains, AreFound(chains)
    PROVE  /\ FrameIsRight([f EXCEPT !.rootNums = @ \ {n}])
           /\ FrameIsRight([f EXCEPT !.intermediateNums = @ \ {n}])
           /\ FrameIsRight([f EXCEPT !.found = @ \o chains])
<1>1. f \in Frames /\ f.found \in Seq(Seq(V!Certs)) /\ f.rootNums \in SUBSET Nat /\ f.intermediateNums \in SUBSET Nat
  BY DEF FrameIsRight, Frames
<1>2. FrameIsRight([f EXCEPT !.rootNums = @ \ {n}])
  <2> DEFINE g == [f EXCEPT !.rootNums = @ \ {n}]
  <2>1. /\ g \in Frames /\ g.chain = f.chain /\ g.found = f.found
        /\ g.intermediateNums = f.intermediateNums /\ g.rootNums = f.rootNums \ {n}
    BY <1>1 DEF Frames
  <2> QED
    BY <2>1 DEF FrameIsRight
<1>3. FrameIsRight([f EXCEPT !.intermediateNums = @ \ {n}])
  <2> DEFINE g == [f EXCEPT !.intermediateNums = @ \ {n}]
  <2>1. /\ g \in Frames /\ g.chain = f.chain /\ g.found = f.found
        /\ g.rootNums = f.rootNums /\ g.intermediateNums = f.intermediateNums \ {n}
    BY <1>1 DEF Frames
  <2> QED
    BY <2>1 DEF FrameIsRight
<1>4. FrameIsRight([f EXCEPT !.found = @ \o chains])
  <2> DEFINE g == [f EXCEPT !.found = @ \o chains]
  <2>1. chains \in Seq(Seq(V!Certs)) /\ f.found \o chains \in Seq(Seq(V!Certs))
    BY <1>1 DEF AreFound
  <2>2. /\ g \in Frames /\ g.chain = f.chain /\ g.found = f.found \o chains
        /\ g.rootNums = f.rootNums /\ g.intermediateNums = f.intermediateNums
    BY <1>1, <2>1 DEF Frames
  <2>3. /\ Len(f.found \o chains) = Len(f.found) + Len(chains)
        /\ Len(f.found) \in Nat /\ Len(chains) \in Nat
        /\ \A k \in 1..Len(f.found) : (f.found \o chains)[k] = f.found[k]
        /\ \A k \in 1..Len(chains) : (f.found \o chains)[Len(f.found) + k] = chains[k]
    BY <1>1, <2>1
  <2>4. ASSUME NEW k \in 1..Len(g.found) PROVE IsPath(g.found[k])
    <3>1. CASE k <= Len(f.found)
      BY <2>2, <2>3, <3>1 DEF FrameIsRight
    <3>2. CASE k > Len(f.found)
      <4>1. k - Len(f.found) \in 1..Len(chains) /\ k = Len(f.found) + (k - Len(f.found))
        BY <2>2, <2>3, <3>2
      <4>2. g.found[k] = chains[k - Len(f.found)]
        BY <2>2, <2>3, <4>1
      <4> QED
        BY <4>1, <4>2 DEF AreFound
    <3> QED
      BY <2>2, <2>3, <3>1, <3>2
  <2> QED
    BY <2>2, <2>4 DEF FrameIsRight
<1> QED
  BY <1>2, <1>3, <1>4

LEMMA OneFound ==
    ASSUME NEW ch, IsPath(ch)
    PROVE  AreFound(<<ch>>) /\ AreFound(<<>>)
<1>1. ch \in Seq(V!Certs)
  BY DEF IsPath
<1>2. <<ch>> \in Seq(Seq(V!Certs)) /\ Len(<<ch>>) = 1 /\ <<ch>>[1] = ch
  BY <1>1
<1> QED
  BY <1>2 DEF AreFound

\* The top of the stack is replaced.
IsReplaced(st, top) ==
    /\ st \in Seq(Frames) /\ Len(st) = Len(stack) /\ st[Len(stack)] = top
    /\ \A k \in 1..(Len(stack) - 1) : st[k] = stack[k]

LEMMA ReplaceTop ==
    ASSUME stack \in Seq(Frames), Len(stack) \in Nat \ {0}, NEW f \in Frames, NEW st, st = V!Replace(f)
    PROVE  IsReplaced(st, f)
BY DEF V!Replace, IsReplaced

LEMMA FrameAt ==
    ASSUME NEW k, NEW f, f = stack'[k], FrameIsRight(f)'
    PROVE  FrameIsRight(stack[k])'
BY DEF FrameIsRight, IsBranch, IsPath, V!PathToRoot, V!Issued, V!contains, V!Contains, Frames, Distinct

\* The part of Searching that a step of the search leaves to be shown.
LEMMA StackKeeps ==
    ASSUME Searching, phase = "search", UNCHANGED <<submitted, trusted, options, pool, phase>>,
           \A c \in DOMAIN cache' : AreFound(cache'[c]), sigChecks' \in Nat, stack' \in Seq(Frames), stack' # <<>>,
           \A k \in 1..Len(stack') : FrameIsRight(stack'[k])
    PROVE  Searching'
<1>1. ASSUME NEW k \in 1..Len(stack') PROVE FrameIsRight(stack[k])'
  <2>1. PICK f : f = stack'[k]
    OBVIOUS
  <2>2. FrameIsRight(f)
    BY <2>1
  <2>3. FrameIsRight(f)'
    BY <2>2, FramesStay
  <2> QED
    BY <2>1, <2>3, FrameAt
<1>2. ASSUME NEW c \in DOMAIN cache' PROVE AreFound(cache[c])'
  <2>1. PICK chains : chains = cache'[c]
    OBVIOUS
  <2>2. AreFound(chains)
    BY <2>1
  <2>3. \A k \in 1..Len(chains) : IsPath(chains[k])'
    BY <2>2, PathsStay DEF AreFound
  <2> QED
    BY <2>1, <2>2, <2>3 DEF AreFound, IsPath, V!PathToRoot, V!Issued, V!contains, V!Contains
<1> QED
  BY <1>1, <1>2 DEF Searching, V!contains, V!Contains

LEMMA ConsiderRootSearches ==
    ASSUME Parsing, Searching, V!ConsiderRoot
    PROVE  Searching'
<1> DEFINE n == V!First(V!Top.rootNums)
           rest == [V!Top EXCEPT !.rootNums = @ \ {n}]
           more == [rest EXCEPT !.found = Append(@, Append(V!Top.chain, trusted[n]))]
<1>1. phase = "search" /\ UNCHANGED <<submitted, trusted, options, pool, phase, cache>> /\ trusted \in Seq(V!Certs)
  BY DEF V!ConsiderRoot, Parsing
<1>2. FrameIsRight(V!Top) /\ Len(stack) \in Nat \ {0} /\ stack \in Seq(Frames) /\ sigChecks \in Nat
  BY <1>1, TopIsRight DEF Searching
<1>3. n \in V!Top.rootNums
  BY <1>2, FirstIsLeast DEF V!ConsiderRoot, FrameIsRight, Frames
<1>4. sigChecks' \in Nat /\ \A c \in DOMAIN cache' : AreFound(cache'[c])
  BY <1>1, <1>2 DEF V!ConsiderRoot, V!Checks, Searching
<1>5. FrameIsRight(rest)
  <2>1. AreFound(<<>>)
    BY DEF AreFound
  <2> QED
    BY <1>2, <2>1, SmallerFrame
<1>6. ASSUME V!Good(trusted[n], "root") PROVE FrameIsRight(more)
  <2> DEFINE ch == Append(V!Top.chain, trusted[n])
  <2>1. n \in V!findPotentialParents(trusted, V!Last(V!Top.chain)) /\ IsBranch(V!Top.chain)
    BY <1>2, <1>3 DEF FrameIsRight
  <2>2. /\ ~V!Contains(V!Top.chain, trusted[n]) /\ V!CheckSignatureFrom(V!Last(V!Top.chain), trusted[n])
        /\ V!isValid(trusted[n], "root", V!Top.chain, options)
    BY <1>6 DEF V!Good
  <2>3. ~V!contains(trusted, submitted[1])
    BY <1>1 DEF Searching
  <2>4. IsPath(ch)
    BY <1>1, <2>1, <2>2, <2>3, RootCompletes
  <2> HIDE DEF ch
  <2>5. AreFound(<<ch>>) /\ ch \in Seq(V!Certs)
    BY <2>4, OneFound DEF IsPath
  <2>6. FrameIsRight([rest EXCEPT !.found = @ \o <<ch>>])
    <3> HIDE DEF rest
    <3> QED
      BY <1>5, <2>5, SmallerFrame
  <2>7. rest.found \in Seq(Seq(V!Certs))
    BY <1>5 DEF FrameIsRight, Frames
  <2>8. rest.found \o <<ch>> = Append(rest.found, ch)
    <3> HIDE DEF rest
    <3> QED
      BY <2>5, <2>7
  <2> QED
    BY <2>6, <2>8 DEF ch
<1> DEFINE top == IF V!Good(trusted[n], "root") THEN more ELSE rest
<1>7. stack' = V!Replace(top)
  BY DEF V!ConsiderRoot
<1>8. FrameIsRight(top)
  BY <1>5, <1>6
<1> HIDE DEF top
<1>9. /\ stack' \in Seq(Frames) /\ Len(stack') = Len(stack) /\ stack'[Len(stack)] = top
      /\ \A k \in 1..(Len(stack) - 1) : stack'[k] = stack[k]
  <2>1. top \in Frames
    BY <1>8 DEF FrameIsRight
  <2>2. IsReplaced(stack', top)
    BY <1>2, <1>7, <2>1, ReplaceTop
  <2> QED
    BY <2>2 DEF IsReplaced
<1>10. \A k \in 1..Len(stack') : FrameIsRight(stack'[k])
  <2> SUFFICES ASSUME NEW k \in 1..Len(stack') PROVE FrameIsRight(stack'[k])
    OBVIOUS
  <2>1. CASE k = Len(stack)
    BY <1>8, <1>9, <2>1
  <2>2. CASE k # Len(stack)
    <3>1. k \in 1..(Len(stack) - 1) /\ k \in 1..Len(stack)
      BY <1>2, <1>9, <2>2
    <3> QED
      BY <1>1, <1>9, <3>1 DEF Searching
  <2> QED
    BY <2>1, <2>2
<1>11. stack' # <<>>
  BY <1>2, <1>9
<1> QED
  BY <1>1, <1>4, <1>9, <1>10, <1>11, StackKeeps

\* The chain of an intermediate that is good.
LEMMA IntermediateExtends ==
    ASSUME Parsing, Searching, phase = "search", NEW n \in V!Top.intermediateNums,
           V!Good(pool[n], "intermediate")
    PROVE  IsBranch(Append(V!Top.chain, pool[n]))
<1>1. FrameIsRight(V!Top) /\ pool \in Seq(V!Certs)
  BY TopIsRight DEF Parsing
<1> DEFINE ch == V!Top.chain
           new == Append(ch, pool[n])
<1>2. n \in V!findPotentialParents(pool, V!Last(ch)) /\ IsBranch(ch)
  BY <1>1 DEF FrameIsRight
<1>3. /\ ~V!Contains(ch, pool[n]) /\ V!CheckSignatureFrom(V!Last(ch), pool[n])
      /\ V!isValid(pool[n], "intermediate", ch, options)
  BY DEF V!Good
<1> HIDE DEF ch
<1>4. /\ new \in Seq(V!Certs) /\ new[1] = submitted[1] /\ Distinct(new) /\ Len(new) = Len(ch) + 1
      /\ \A i \in 1..(Len(ch) - 1) : V!Issued(new, i, pool, "intermediate")
      /\ V!Issued(new, Len(ch), pool, "intermediate")
  <2>1. IsExtension(new, ch, pool, "intermediate")
    BY <1>1, <1>2, <1>3, GoodExtends
  <2> QED
    BY <2>1 DEF IsExtension
<1>5. Len(ch) \in Nat \ {0}
  BY <1>2 DEF IsBranch
<1> HIDE DEF new
<1>6. \A i \in 1..(Len(new) - 1) : V!Issued(new, i, pool, "intermediate")
  <2> SUFFICES ASSUME NEW i \in 1..(Len(new) - 1) PROVE V!Issued(new, i, pool, "intermediate")
    OBVIOUS
  <2>1. i = Len(ch) \/ i \in 1..(Len(ch) - 1)
    BY <1>4, <1>5
  <2> QED
    BY <1>4, <2>1
<1>7. new # <<>>
  BY <1>4, <1>5
<1>8. IsBranch(new)
  BY <1>4, <1>6, <1>7 DEF IsBranch
<1> QED
  BY <1>8 DEF new, ch

LEMMA ConsiderIntermediateSearches ==
    ASSUME Parsing, Searching, V!ConsiderIntermediate
    PROVE  Searching'
<1> DEFINE n == V!First(V!Top.intermediateNums)
           rest == [V!Top EXCEPT !.intermediateNums = @ \ {n}]
           more == [rest EXCEPT !.found = @ \o cache[pool[n]]]
           call == V!Call(Append(V!Top.chain, pool[n]), trusted, pool)
<1>1. /\ phase = "search" /\ UNCHANGED <<submitted, trusted, options, pool, phase, cache>>
      /\ trusted \in Seq(V!Certs) /\ pool \in Seq(V!Certs)
  BY DEF V!ConsiderIntermediate, Parsing
<1>2. FrameIsRight(V!Top) /\ Len(stack) \in Nat \ {0} /\ stack \in Seq(Frames) /\ sigChecks \in Nat
  BY <1>1, TopIsRight DEF Searching
<1>3. n \in V!Top.intermediateNums
  BY <1>2, FirstIsLeast DEF V!ConsiderIntermediate, FrameIsRight, Frames
<1>4. sigChecks' \in Nat /\ \A c \in DOMAIN cache' : AreFound(cache'[c])
  BY <1>1, <1>2 DEF V!ConsiderIntermediate, V!Checks, Searching
<1>5. FrameIsRight(rest)
  <2>1. AreFound(<<>>)
    BY DEF AreFound
  <2> QED
    BY <1>2, <2>1, SmallerFrame
<1>6. ASSUME pool[n] \in DOMAIN cache PROVE FrameIsRight(more)
  <2>1. AreFound(cache[pool[n]])
    BY <1>1, <1>6 DEF Searching
  <2> HIDE DEF rest
  <2> QED
    BY <1>5, <2>1, SmallerFrame
<1>7. ASSUME V!Good(pool[n], "intermediate") PROVE FrameIsRight(call)
  <2>1. IsBranch(Append(V!Top.chain, pool[n]))
    BY <1>1, <1>3, <1>7, IntermediateExtends
  <2> QED
    BY <1>1, <2>1, CallIsRight
<1>8. \/ stack' = V!Replace(rest)
      \/ pool[n] \in DOMAIN cache /\ stack' = V!Replace(more)
      \/ V!Good(pool[n], "intermediate") /\ stack' = Append(V!Replace(rest), call)
  BY DEF V!ConsiderIntermediate
<1> HIDE DEF rest, more, call
<1>9. ASSUME NEW top, FrameIsRight(top), NEW st, st = V!Replace(top)
      PROVE  /\ st \in Seq(Frames) /\ Len(st) = Len(stack) /\ st # <<>>
             /\ \A k \in 1..Len(st) : FrameIsRight(st[k])
  <2>1. /\ st \in Seq(Frames) /\ Len(st) = Len(stack) /\ st[Len(stack)] = top
        /\ \A k \in 1..(Len(stack) - 1) : st[k] = stack[k]
    <3>1. top \in Frames
      BY <1>9 DEF FrameIsRight
    <3>2. IsReplaced(st, top)
      BY <1>2, <1>9, <3>1, ReplaceTop
    <3> QED
      BY <3>2 DEF IsReplaced
  <2>2. ASSUME NEW k \in 1..Len(st) PROVE FrameIsRight(st[k])
    <3>1. CASE k = Len(stack)
      BY <1>9, <2>1, <3>1
    <3>2. CASE k # Len(stack)
      <4>1. k \in 1..(Len(stack) - 1) /\ k \in 1..Len(stack)
        BY <1>2, <2>1, <3>2
      <4> QED
        BY <1>1, <2>1, <4>1 DEF Searching
    <3> QED
      BY <3>1, <3>2
  <2>3. st # <<>>
    BY <1>2, <2>1
  <2> QED
    BY <2>1, <2>2, <2>3
<1>10. /\ stack' \in Seq(Frames) /\ stack' # <<>>
       /\ \A k \in 1..Len(stack') : FrameIsRight(stack'[k])
  <2>1. CASE stack' = V!Replace(rest)
    BY <1>5, <1>9, <2>1
  <2>2. CASE pool[n] \in DOMAIN cache /\ stack' = V!Replace(more)
    BY <1>6, <1>9, <2>2
  <2>3. CASE V!Good(pool[n], "intermediate") /\ stack' = Append(V!Replace(rest), call)
    <3>1. PICK st : st = V!Replace(rest)
      OBVIOUS
    <3>2. /\ st \in Seq(Frames) /\ Len(st) = Len(stack) /\ st # <<>>
          /\ \A k \in 1..Len(st) : FrameIsRight(st[k])
      BY <1>5, <1>9, <3>1
    <3>3. FrameIsRight(call) /\ call \in Frames
      BY <1>7, <2>3 DEF FrameIsRight
    <3>4. stack' = Append(st, call)
      BY <2>3, <3>1
    <3>5. /\ stack' \in Seq(Frames) /\ Len(stack') = Len(st) + 1 /\ stack'[Len(st) + 1] = call
          /\ \A k \in 1..Len(st) : stack'[k] = st[k]
      BY <3>2, <3>3, <3>4
    <3>6. ASSUME NEW k \in 1..Len(stack') PROVE FrameIsRight(stack'[k])
      <4>1. k \in 1..Len(st) \/ k = Len(st) + 1
        BY <3>2, <3>5
      <4> QED
        BY <3>2, <3>3, <3>5, <4>1
    <3> QED
      BY <1>2, <3>2, <3>5, <3>6
  <2> QED
    BY <1>8, <2>1, <2>2, <2>3
<1> QED
  BY <1>1, <1>4, <1>10, StackKeeps

LEMMA ReplaceAt ==
    ASSUME NEW s \in Seq(Frames), NEW x \in Frames, NEW m \in 1..Len(s), NEW t, t = [s EXCEPT ![m] = x]
    PROVE  /\ t \in Seq(Frames) /\ Len(t) = Len(s) /\ t[m] = x
           /\ \A k \in 1..Len(s) : k # m => t[k] = s[k]
OBVIOUS

\* The stack without its top, whose caller takes over what it found.
LEMMA Returned ==
    ASSUME stack \in Seq(Frames), Len(stack) \in Nat, Len(stack) > 1, NEW st,
           st = [V!Front(stack) EXCEPT ![Len(stack) - 1].found = @ \o V!Top.found]
    PROVE  /\ st \in Seq(Frames) /\ Len(st) = Len(stack) - 1
           /\ \A k \in 1..(Len(stack) - 2) : st[k] = stack[k]
           /\ st[Len(stack) - 1] = [stack[Len(stack) - 1] EXCEPT !.found = @ \o V!Top.found]
<1> DEFINE front == V!Front(stack)
           caller == stack[Len(stack) - 1]
           new == [caller EXCEPT !.found = @ \o V!Top.found]
<1>1. /\ front \in Seq(Frames) /\ Len(front) = Len(stack) - 1
      /\ \A k \in 1..(Len(stack) - 1) : front[k] = stack[k]
  BY DEF V!Front
<1>2. caller \in Frames /\ V!Top \in Frames
  BY DEF V!Top
<1>3. caller.found \in Seq(Seq(V!Certs)) /\ V!Top.found \in Seq(Seq(V!Certs))
  BY <1>2 DEF Frames
<1>4. caller.found \o V!Top.found \in Seq(Seq(V!Certs))
  BY <1>3
<1>5. new \in Frames
  BY <1>2, <1>4 DEF Frames
<1>6. Len(stack) - 1 \in 1..Len(front) /\ front[Len(stack) - 1] = caller
  BY <1>1
<1>7. st = [front EXCEPT ![Len(stack) - 1] = new]
  BY <1>6
<1> HIDE DEF front, new
<1>8. /\ st \in Seq(Frames) /\ Len(st) = Len(front) /\ st[Len(stack) - 1] = new
      /\ \A k \in 1..(Len(stack) - 2) : st[k] = front[k]
  <2>1. PICK m : m = Len(stack) - 1
    OBVIOUS
  <2>2. m \in 1..Len(front) /\ Len(front) = m /\ st = [front EXCEPT ![m] = new]
    BY <1>1, <1>6, <1>7, <2>1
  <2>3. /\ st \in Seq(Frames) /\ Len(st) = Len(front) /\ st[m] = new
        /\ \A k \in 1..Len(front) : k # m => st[k] = front[k]
    <3>1. front \in Seq(Frames) /\ new \in Frames /\ m \in 1..Len(front) /\ st = [front EXCEPT ![m] = new]
      BY <1>1, <1>5, <2>2
    <3>2. PICK f, x, t : f = front /\ x = new /\ t = st
      OBVIOUS
    <3>3. f \in Seq(Frames) /\ x \in Frames /\ m \in 1..Len(f) /\ t = [f EXCEPT ![m] = x]
      BY <3>1, <3>2
    <3>4. /\ t \in Seq(Frames) /\ Len(t) = Len(f) /\ t[m] = x
          /\ \A k \in 1..Len(f) : k # m => t[k] = f[k]
      BY <3>3, ReplaceAt
    <3> QED
      BY <3>2, <3>4
  <2>4. \A k \in 1..(Len(stack) - 2) : k \in 1..Len(front) /\ k # m
    BY <2>1, <2>2
  <2> QED
    BY <2>1, <2>3, <2>4
<1>9. \A k \in 1..(Len(stack) - 2) : st[k] = stack[k]
  BY <1>1, <1>8
<1> QED
  BY <1>1, <1>8, <1>9 DEF new

LEMMA ReturnSearches ==
    ASSUME Parsing, Searching, V!Return, Len(stack) > 1
    PROVE  Searching'
<1>1. /\ phase = "search" /\ UNCHANGED <<submitted, trusted, options, pool, phase, sigChecks>>
      /\ stack' = [V!Front(stack) EXCEPT ![Len(stack) - 1].found = @ \o V!Top.found]
      /\ cache' = [c \in DOMAIN cache \cup {V!Last(V!Top.chain)} |->
                     IF c = V!Last(V!Top.chain) THEN V!Top.found ELSE cache[c]]
  BY DEF V!Return
<1>2. FrameIsRight(V!Top) /\ Len(stack) \in Nat \ {0} /\ stack \in Seq(Frames) /\ sigChecks \in Nat
  BY <1>1, TopIsRight DEF Searching
<1>3. /\ stack' \in Seq(Frames) /\ Len(stack') = Len(stack) - 1
      /\ \A k \in 1..(Len(stack) - 2) : stack'[k] = stack[k]
      /\ stack'[Len(stack) - 1] = [stack[Len(stack) - 1] EXCEPT !.found = @ \o V!Top.found]
  BY <1>1, <1>2, Returned
<1>4. AreFound(V!Top.found)
  BY <1>2 DEF FrameIsRight, Frames, AreFound
<1>5. FrameIsRight(stack[Len(stack) - 1])
  BY <1>1, <1>2 DEF Searching
<1>6. FrameIsRight(stack'[Len(stack) - 1])
  <2>1. PICK caller, found : caller = stack[Len(stack) - 1] /\ found = V!Top.found
    OBVIOUS
  <2>2. FrameIsRight([caller EXCEPT !.found = @ \o found])
    BY <1>4, <1>5, <2>1, SmallerFrame
  <2> QED
    BY <1>3, <2>1, <2>2
<1>7. \A k \in 1..Len(stack') : FrameIsRight(stack'[k])
  <2> SUFFICES ASSUME NEW k \in 1..Len(stack') PROVE FrameIsRight(stack'[k])
    OBVIOUS
  <2>1. k = Len(stack) - 1 \/ (k \in 1..(Len(stack) - 2) /\ k \in 1..Len(stack))
    BY <1>2, <1>3
  <2> QED
    BY <1>1, <1>3, <1>6, <2>1 DEF Searching
<1>8. \A c \in DOMAIN cache' : AreFound(cache'[c])
  <2> SUFFICES ASSUME NEW c \in DOMAIN cache' PROVE AreFound(cache'[c])
    OBVIOUS
  <2>1. CASE c = V!Last(V!Top.chain)
    <3>1. cache'[c] = V!Top.found
      BY <1>1, <2>1
    <3> QED
      BY <1>4, <3>1
  <2>2. CASE c # V!Last(V!Top.chain)
    <3>1. c \in DOMAIN cache /\ cache'[c] = cache[c]
      BY <1>1, <2>2
    <3> QED
      BY <1>1, <3>1 DEF Searching
  <2> QED
    BY <2>1, <2>2
<1>9. stack' # <<>>
  BY <1>2, <1>3
<1> QED
  BY <1>1, <1>2, <1>3, <1>7, <1>8, <1>9, StackKeeps

----------------------------------------------------------------------------
(* What Finish makes of the chains found.                                  *)

Acceptances == {submitted} \cup {Append(submitted, trusted[i]) : i \in DOMAIN trusted}

\* A path that is equivalent to the submission is the submission, or ends with one more
\* certificate, which is a trusted root.
LEMMA EquivalentPath ==
    ASSUME NEW ch, IsPath(ch), submitted \in Seq(V!Certs), submitted # <<>>, trusted \in Seq(V!Certs),
           V!chainsEquivalent(submitted, ch)
    PROVE  ch \in Acceptances
<1>1. /\ ch \in Seq(V!Certs) /\ Len(ch) \in Nat /\ Len(submitted) \in Nat \ {0}
      /\ DOMAIN submitted = 1..Len(submitted) /\ DOMAIN ch = 1..Len(ch)
      /\ ch = [i \in 1..Len(ch) |-> ch[i]] /\ submitted = [i \in 1..Len(submitted) |-> submitted[i]]
  BY DEF IsPath
<1>2. /\ Len(submitted) = Len(ch) \/ Len(submitted) = Len(ch) - 1
      /\ \A i \in 1..Len(submitted) : submitted[i] = ch[i]
  BY <1>1 DEF V!chainsEquivalent
<1>3. CASE Len(submitted) = Len(ch)
  <2>1. submitted = ch
    BY <1>1, <1>2, <1>3
  <2> QED
    BY <2>1 DEF Acceptances
<1>4. CASE Len(submitted) = Len(ch) - 1
  <2>1. Len(ch) > 1
    BY <1>1, <1>4
  <2>2. V!Issued(ch, Len(ch) - 1, trusted, "root")
    <3>1. \A i \in 1..(Len(ch) - 1) :
            V!Issued(ch, i, IF i < Len(ch) - 1 THEN pool ELSE trusted,
                     IF i < Len(ch) - 1 THEN "intermediate" ELSE "root")
      BY <1>1, <2>1 DEF IsPath, V!PathToRoot
    <3>2. Len(ch) - 1 \in 1..(Len(ch) - 1) /\ ~(Len(ch) - 1 < Len(ch) - 1)
      BY <1>1, <2>1
    <3> QED
      BY <3>1, <3>2
  <2>3. PICK n \in V!findPotentialParents(trusted, ch[Len(ch) - 1]) : trusted[n] = ch[Len(ch) - 1 + 1]
    BY <2>2 DEF V!Issued
  <2>4. n \in DOMAIN trusted
    BY <2>3 DEF V!findPotentialParents
  <2>5. trusted[n] \in V!Certs /\ trusted[n] = ch[Len(ch)]
    BY <1>1, <2>3, <2>4
  <2> DEFINE new == Append(submitted, trusted[n])
  <2>6. /\ new \in Seq(V!Certs) /\ Len(new) = Len(submitted) + 1 /\ new[Len(submitted) + 1] = trusted[n]
        /\ \A i \in 1..Len(submitted) : new[i] = submitted[i]
    BY <1>1, <2>5
  <2> HIDE DEF new
  <2>7. Len(new) = Len(ch) /\ \A i \in 1..Len(ch) : new[i] = ch[i]
    <3>1. Len(new) = Len(ch)
      BY <1>1, <1>4, <2>6
    <3>2. ASSUME NEW i \in 1..Len(ch) PROVE new[i] = ch[i]
      <4>1. i \in 1..Len(submitted) \/ i = Len(submitted) + 1
        BY <1>1, <1>4
      <4> QED
        BY <1>1, <1>2, <1>4, <2>5, <2>6, <4>1
    <3> QED
      BY <3>1, <3>2
  <2>8. new = ch
    <3>1. new = [i \in 1..Len(new) |-> new[i]]
      BY <2>6
    <3> QED
      BY <1>1, <2>7, <3>1
  <2> QED
    BY <2>4, <2>8 DEF Acceptances, new
<1> QED
  BY <1>2, <1>3, <1>4

LEMMA AcceptableStays ==
    ASSUME UNCHANGED <<submitted, trusted, options, pool>>
    PROVE  /\ V!Acceptable(submitted)' <=> V!Acceptable(submitted)
           /\ V!Cost(submitted)' = V!Cost(submitted)
           /\ \A ch : V!PathToRoot(ch)' <=> V!PathToRoot(ch)
<1>1. \A ch : V!PathToRoot(ch)' <=> V!PathToRoot(ch)
  BY DEF V!PathToRoot, V!Issued, V!contains, V!Contains
<1>2. V!Acceptable(submitted)' <=> V!Acceptable(submitted)
  BY <1>1 DEF V!Acceptable, V!Contains
<1>3. V!Cost(submitted)' = V!Cost(submitted)
  BY DEF V!Cost
<1> QED
  BY <1>1, <1>2, <1>3

\* Finish returns what it should, if the submission is among the chains when it must be.
LEMMA FinishIsRight ==
    ASSUME Parsing, parsed = Len(submitted), options.strict \/ V!LeafAllowed(submitted[1], options),
           NEW chains, AreFound(chains), V!Finish(chains), UNCHANGED <<submitted, trusted, options, pool>>,
           ~options.strict /\ V!Acceptable(submitted) /\ V!Cost(submitted) <= maxChainSignatureChecks =>
              \E k \in 1..Len(chains) : V!chainsEquivalent(submitted, chains[k])
    PROVE  V!AcceptsPathsOnly'
<1> DEFINE usable == {k \in DOMAIN chains : V!HasUsage(chains[k], options)}
           equivalent == {k \in usable : V!chainsEquivalent(submitted, chains[k])}
<1>1. /\ phase' = "done"
      /\ result' = IF options.strict THEN {chains[k] : k \in usable}
                    ELSE IF equivalent = {} THEN {} ELSE {chains[V!First(equivalent)]}
  BY DEF V!Finish
<1>2. DOMAIN chains = 1..Len(chains) /\ \A k \in 1..Len(chains) : IsPath(chains[k])
  BY DEF AreFound
<1>3. equivalent \in SUBSET Nat
  BY <1>2
<1>4. CASE options.strict
  <2>1. result' = {chains[k] : k \in usable}
    BY <1>1, <1>4
  <2>2. ASSUME NEW ch \in result'
        PROVE  /\ V!PathToRoot(ch)' /\ ch[1] = submitted[1]
               /\ \/ V!AnyUsage \in V!KeyUsages(options)
                  \/ \E u \in V!KeyUsages(options) : \A i \in DOMAIN ch : V!Supports(ch[i], u)
    <3>1. PICK k \in usable : ch = chains[k]
      BY <2>1
    <3>2. IsPath(ch) /\ V!HasUsage(ch, options)
      BY <1>2, <3>1
    <3>3. IsPath(ch)'
      BY <3>2, PathsStay
    <3> QED
      BY <1>4, <3>2, <3>3 DEF IsPath, V!HasUsage, V!checkChainForKeyUsage
  <2>3. options'.strict /\ options' = options /\ submitted' = submitted
    BY <1>4
  <2>4. V!ChainsAreValid'
    BY <2>2, <2>3 DEF V!ChainsAreValid
  <2>5. V!AcceptsExactlyThePaths'
    BY <2>3 DEF V!AcceptsExactlyThePaths
  <2> QED
    BY <2>4, <2>5 DEF V!AcceptsPathsOnly
<1>5. CASE ~options.strict
  <2>1. V!ChainsAreValid'
    BY <1>5 DEF V!ChainsAreValid
  <2>2. ASSUME equivalent # {}
        PROVE  \E ch \in Acceptances : result' = {ch} /\ V!PathToRoot(ch)
    <3>1. V!First(equivalent) \in equivalent
      BY <1>3, <2>2, FirstIsLeast
    <3>2. PICK ch : ch = chains[V!First(equivalent)]
      OBVIOUS
    <3>3. IsPath(ch) /\ V!chainsEquivalent(submitted, ch)
      BY <1>2, <3>1, <3>2
    <3>4. ch \in Acceptances
      BY <3>3, EquivalentPath DEF Parsing
    <3> QED
      BY <1>1, <1>5, <2>2, <3>2, <3>3, <3>4 DEF IsPath
  <2>3. ~V!Contains(submitted, Garbage)
    <3>1. DOMAIN submitted = 1..Len(submitted)
      BY DEF Parsing
    <3> QED
      BY <3>1 DEF Parsing, V!Contains
  <2>4. result' # {} => V!Acceptable(submitted) /\ \A ch \in result' : V!PathToRoot(ch)
    BY <1>1, <1>5, <2>2, <2>3 DEF V!Acceptable, Acceptances
  <2>5. V!Acceptable(submitted) /\ V!Cost(submitted) <= maxChainSignatureChecks => result' # {}
    <3> SUFFICES ASSUME V!Acceptable(submitted), V!Cost(submitted) <= maxChainSignatureChecks PROVE result' # {}
      OBVIOUS
    <3>1. PICK k \in 1..Len(chains) : V!chainsEquivalent(submitted, chains[k])
      BY <1>5
    <3>2. k \in equivalent
      BY <1>2, <1>5, <3>1 DEF V!HasUsage
    <3> QED
      BY <2>2, <3>2
  <2>6. /\ V!Acceptable(submitted)' <=> V!Acceptable(submitted)
        /\ V!Cost(submitted)' = V!Cost(submitted)
        /\ \A ch : V!PathToRoot(ch)' <=> V!PathToRoot(ch)
    BY AcceptableStays
  <2>7. V!AcceptsExactlyThePaths'
    BY <2>4, <2>5, <2>6 DEF V!AcceptsExactlyThePaths
  <2> QED
    BY <2>1, <2>7 DEF V!AcceptsPathsOnly
<1> QED
  BY <1>4, <1>5

----------------------------------------------------------------------------
(* The search meets the submission before anything else.                   *)

\* The roots considered by the calls 1..k along ch, if the last has still to consider left.
Spent(ch, k, left) ==
    {p \in (1..k) \X (1..Len(trusted)) :
       p[2] \in V!findPotentialParents(trusted, ch[p[1]]) /\ (p[1] = k => p[2] \notin left)}

Reached(ch) == \E k \in 1..Len(stack) : \E m \in 1..Len(stack[k].found) : stack[k].found[m] = ch

OnTheWay(ch) ==
    /\ DOMAIN cache = {} /\ Len(stack) < Len(ch) /\ V!Top.chain = SubSeq(ch, 1, Len(stack))
    /\ IF Len(stack) < Len(ch) - 1 THEN Len(stack) \in V!Top.intermediateNums
       ELSE \E n \in V!Top.rootNums : trusted[n] = ch[Len(ch)]
    /\ sigChecks < Len(stack) + Cardinality(Spent(ch, Len(stack), V!Top.rootNums))

\* A submission that is a path has been found, or nothing has been searched but it.
Descending ==
    phase = "search" /\ ~options.strict /\ V!Cost(submitted) <= maxChainSignatureChecks =>
       \A ch \in Acceptances : V!PathToRoot(ch) => Reached(ch) \/ OnTheWay(ch)

\* What a path tells about the submission that it continues.
IsTarget(ch) ==
    /\ ch \in Seq(V!Certs) /\ Len(ch) \in Nat /\ Len(ch) > 1 /\ Len(submitted) \in Nat \ {0}
    /\ Len(submitted) <= Len(ch) /\ Len(ch) - 1 <= Len(submitted)
    /\ \A j \in 1..Len(submitted) : ch[j] = submitted[j]
    /\ \A i, j \in 1..Len(ch) : ch[i] = ch[j] => i = j
    /\ \A j \in 1..(Len(ch) - 2) : j \in DOMAIN pool /\ pool[j] = ch[j + 1]
    /\ \A j \in DOMAIN pool : j + 1 \in 1..Len(ch) /\ pool[j] = ch[j + 1]
    /\ \A j \in 1..(Len(ch) - 2) : V!Issued(ch, j, pool, "intermediate")
    /\ V!Issued(ch, Len(ch) - 1, trusted, "root")

LEMMA Targets ==
    ASSUME Parsing, parsed = Len(submitted), ~V!contains(trusted, submitted[1]),
           NEW ch \in Acceptances, V!PathToRoot(ch)
    PROVE  IsTarget(ch)
<1>1. /\ submitted \in Seq(V!Certs) /\ trusted \in Seq(V!Certs) /\ pool \in Seq(V!Certs)
      /\ Len(submitted) \in Nat \ {0} /\ DOMAIN pool = 1..Len(pool) /\ Len(pool) \in Nat
      /\ DOMAIN submitted = 1..Len(submitted)
  BY DEF Parsing
<1>2. /\ ch \in Seq(V!Certs) /\ Len(ch) \in {Len(submitted), Len(submitted) + 1}
      /\ \A j \in 1..Len(submitted) : ch[j] = submitted[j]
  <2>1. CASE ch = submitted
    BY <1>1, <2>1
  <2>2. CASE ch # submitted
    <3>1. PICK i \in DOMAIN trusted : ch = Append(submitted, trusted[i])
      BY <2>2 DEF Acceptances
    <3>2. trusted[i] \in V!Certs
      BY <1>1, <3>1
    <3> QED
      BY <1>1, <3>1, <3>2
  <2> QED
    BY <2>1, <2>2
<1>3. Len(ch) \in Nat /\ DOMAIN ch = 1..Len(ch) /\ ch[1] = submitted[1]
  BY <1>1, <1>2
<1>4. /\ Len(ch) > 1 /\ \A i, j \in 1..Len(ch) : ch[i] = ch[j] => i = j
      /\ \A i \in 1..(Len(ch) - 1) :
           V!Issued(ch, i, IF i < Len(ch) - 1 THEN pool ELSE trusted,
                    IF i < Len(ch) - 1 THEN "intermediate" ELSE "root")
  BY <1>3 DEF V!PathToRoot
<1>5. Distinct(submitted)
  <2> SUFFICES ASSUME NEW i \in 1..Len(submitted), NEW j \in 1..Len(submitted), submitted[i] = submitted[j]
               PROVE  i = j
    BY <1>1 DEF Distinct
  <2>1. ch[i] = ch[j] /\ i \in 1..Len(ch) /\ j \in 1..Len(ch)
    BY <1>1, <1>2
  <2> QED
    BY <1>4, <2>1
<1>6. Len(pool) = Len(submitted) - 1 /\ \A j \in 1..Len(pool) : pool[j] = submitted[j + 1]
  BY <1>1, <1>5 DEF Parsing
<1>7. \A j \in DOMAIN pool : j + 1 \in 1..Len(ch) /\ pool[j] = ch[j + 1]
  <2> SUFFICES ASSUME NEW j \in 1..Len(pool) PROVE j + 1 \in 1..Len(ch) /\ pool[j] = ch[j + 1]
    BY <1>1
  <2>1. j + 1 \in 1..Len(submitted) /\ j + 1 \in 1..Len(ch)
    BY <1>1, <1>2, <1>6
  <2> QED
    BY <1>2, <1>6, <2>1
<1>8. \A j \in 1..(Len(ch) - 2) : j \in DOMAIN pool
  BY <1>1, <1>2, <1>6
<1>9. \A j \in 1..(Len(ch) - 2) : V!Issued(ch, j, pool, "intermediate")
  <2> SUFFICES ASSUME NEW j \in 1..(Len(ch) - 2) PROVE V!Issued(ch, j, pool, "intermediate")
    OBVIOUS
  <2>1. j \in 1..(Len(ch) - 1) /\ j < Len(ch) - 1
    BY <1>3
  <2> QED
    BY <1>4, <2>1
<1>10. V!Issued(ch, Len(ch) - 1, trusted, "root")
  <2>1. Len(ch) - 1 \in 1..(Len(ch) - 1) /\ ~(Len(ch) - 1 < Len(ch) - 1)
    BY <1>3, <1>4
  <2> QED
    BY <1>4, <2>1
<1>11. Len(submitted) <= Len(ch) /\ Len(ch) - 1 <= Len(submitted)
  BY <1>1, <1>2
<1> QED
  BY <1>1, <1>2, <1>3, <1>4, <1>7, <1>8, <1>9, <1>10, <1>11 DEF IsTarget

\* The roots considered along the submission are among those that Cost counts.
LEMMA SpentWithinCost ==
    ASSUME NEW ch, IsTarget(ch), submitted \in Seq(V!Certs), trusted \in Seq(V!Certs),
           NEW k \in 1..(Len(ch) - 1), NEW left
    PROVE  /\ IsFiniteSet(Spent(ch, k, left)) /\ Cardinality(Spent(ch, k, left)) \in Nat
           /\ V!Cost(submitted) \in Nat
           /\ k + Cardinality(Spent(ch, k, left)) <= V!Cost(submitted)
<1> DEFINE all == UNION {{i} \X V!findPotentialParents(trusted, submitted[i]) : i \in DOMAIN submitted}
           sp == Spent(ch, k, left)
<1>1. /\ Len(submitted) \in Nat /\ Len(trusted) \in Nat /\ DOMAIN submitted = 1..Len(submitted)
      /\ k \in Nat /\ k <= Len(submitted) /\ \A j \in 1..k : j \in 1..Len(submitted)
      /\ \A j \in 1..Len(submitted) : ch[j] = submitted[j]
  BY DEF IsTarget
<1>2. all \subseteq (1..Len(submitted)) \X (1..Len(trusted))
  <2> SUFFICES ASSUME NEW p \in all PROVE p \in (1..Len(submitted)) \X (1..Len(trusted))
    OBVIOUS
  <2>1. PICK i \in DOMAIN submitted : p \in {i} \X V!findPotentialParents(trusted, submitted[i])
    OBVIOUS
  <2>2. V!findPotentialParents(trusted, submitted[i]) \subseteq 1..Len(trusted)
    BY ParentsAreNumbers
  <2> QED
    BY <1>1, <2>1, <2>2
<1>3. IsFiniteSet(all)
  <2>1. IsFiniteSet(1..Len(submitted)) /\ IsFiniteSet(1..Len(trusted))
    BY <1>1, FS_Interval
  <2>2. IsFiniteSet((1..Len(submitted)) \X (1..Len(trusted)))
    BY <2>1, FS_Product
  <2> QED
    BY <1>2, <2>2, FS_Subset
<1>4. sp \subseteq all
  <2> SUFFICES ASSUME NEW p \in sp PROVE p \in all
    OBVIOUS
  <2>1. p \in (1..k) \X (1..Len(trusted)) /\ p[2] \in V!findPotentialParents(trusted, ch[p[1]])
    BY DEF Spent
  <2>2. PICK i \in 1..k, r \in 1..Len(trusted) : p = <<i, r>>
    BY <2>1
  <2>3. i \in DOMAIN submitted /\ ch[i] = submitted[i] /\ r \in V!findPotentialParents(trusted, submitted[i])
    BY <1>1, <2>1, <2>2
  <2>4. p \in {i} \X V!findPotentialParents(trusted, submitted[i])
    BY <2>2, <2>3
  <2> QED
    BY <2>3, <2>4
<1> HIDE DEF sp, all
<1>5. IsFiniteSet(sp) /\ Cardinality(sp) <= Cardinality(all)
  BY <1>3, <1>4, FS_Subset
<1>6. Cardinality(sp) \in Nat /\ Cardinality(all) \in Nat
  BY <1>3, <1>5, FS_CardinalityType
<1>7. V!Cost(submitted) = Len(submitted) + Cardinality(all)
  BY Zenon DEF V!Cost, all, V!Cardinality, Cardinality
<1> QED
  BY <1>1, <1>5, <1>6, <1>7 DEF sp

\* The beginning of a path without duplicates.
IsBeginning(start, ch, k) ==
    /\ start \in Seq(V!Certs) /\ Len(start) = k /\ V!Last(start) = ch[k]
    /\ ~V!Contains(start, ch[k + 1]) /\ \A j \in 1..k : V!Contains(start, ch[j])
    /\ Append(start, ch[k + 1]) = SubSeq(ch, 1, k + 1)

LEMMA Beginning ==
    ASSUME NEW ch, IsTarget(ch), NEW k \in 1..(Len(ch) - 1), NEW start, start = SubSeq(ch, 1, k)
    PROVE  IsBeginning(start, ch, k)
<1>1. ch \in Seq(V!Certs) /\ Len(ch) \in Nat /\ Len(ch) > 1 /\ k \in Nat /\ k >= 1 /\ k + 1 <= Len(ch)
  BY DEF IsTarget
<1>2. start \in Seq(V!Certs) /\ Len(start) = k /\ \A j \in 1..k : start[j] = ch[j]
  BY <1>1
<1>3. V!Last(start) = ch[k]
  BY <1>1, <1>2 DEF V!Last
<1>4. ~V!Contains(start, ch[k + 1])
  <2> SUFFICES ASSUME NEW j \in 1..k, start[j] = ch[k + 1] PROVE FALSE
    BY <1>2 DEF V!Contains
  <2>1. ch[j] = ch[k + 1] /\ j \in 1..Len(ch) /\ k + 1 \in 1..Len(ch) /\ j # k + 1
    BY <1>1, <1>2
  <2> QED
    BY <2>1 DEF IsTarget
<1>5. \A j \in 1..k : V!Contains(start, ch[j])
  BY <1>2 DEF V!Contains
<1>6. Append(start, ch[k + 1]) = SubSeq(ch, 1, k + 1)
  <2> DEFINE a == Append(start, ch[k + 1])
             b == SubSeq(ch, 1, k + 1)
  <2>1. ch[k + 1] \in V!Certs
    BY <1>1
  <2>2. /\ a \in Seq(V!Certs) /\ Len(a) = k + 1 /\ a[k + 1] = ch[k + 1]
        /\ \A j \in 1..k : a[j] = ch[j]
    BY <1>1, <1>2, <2>1
  <2>3. b \in Seq(V!Certs) /\ Len(b) = k + 1 /\ \A j \in 1..(k + 1) : b[j] = ch[j]
    BY <1>1
  <2>4. a = [j \in 1..Len(a) |-> a[j]] /\ b = [j \in 1..Len(b) |-> b[j]]
    <3> HIDE DEF a, b
    <3> QED
      BY <2>2, <2>3
  <2> HIDE DEF a, b
  <2>5. \A j \in 1..(k + 1) : a[j] = b[j]
    <3> SUFFICES ASSUME NEW j \in 1..(k + 1) PROVE a[j] = b[j]
      OBVIOUS
    <3>1. j \in 1..k \/ j = k + 1
      BY <1>1
    <3> QED
      BY <2>2, <2>3, <3>1
  <2>6. a = b
    BY <2>2, <2>3, <2>4, <2>5
  <2> QED
    BY <2>6 DEF a, b
<1> QED
  BY <1>2, <1>3, <1>4, <1>5, <1>6 DEF IsBeginning

LEMMA EndOfBeginning ==
    ASSUME NEW ch, IsTarget(ch), NEW k \in 1..(Len(ch) - 1)
    PROVE  V!Last(SubSeq(ch, 1, k)) = ch[k]
<1>1. PICK start : start = SubSeq(ch, 1, k)
  OBVIOUS
<1>2. IsBeginning(start, ch, k)
  BY <1>1, Beginning
<1> QED
  BY <1>1, <1>2 DEF IsBeginning

LEMMA NextIsGood ==
    ASSUME NEW ch, IsTarget(ch), NEW k \in 1..(Len(ch) - 1), V!Top.chain = SubSeq(ch, 1, k),
           sigChecks + 1 <= maxChainSignatureChecks, NEW certs, NEW type, V!Issued(ch, k, certs, type)
    PROVE  V!Good(ch[k + 1], type)
<1>1. V!Last(V!Top.chain) = ch[k] /\ ~V!Contains(V!Top.chain, ch[k + 1])
  <2>1. IsBeginning(V!Top.chain, ch, k)
    BY Beginning
  <2> QED
    BY <2>1 DEF IsBeginning
<1>2. V!CheckSignatureFrom(ch[k], ch[k + 1]) /\ V!isValid(ch[k + 1], type, V!Top.chain, options)
  BY DEF V!Issued
<1> QED
  BY <1>1, <1>2 DEF V!Good, V!Checks

\* What was found stays found as long as some call has it.
LEMMA StaysReached ==
    ASSUME NEW ch, Reached(ch),
           \A k \in 1..Len(stack) : \E l \in 1..Len(stack') :
              \A m \in 1..Len(stack[k].found) : \E j \in 1..Len(stack'[l].found) :
                 stack'[l].found[j] = stack[k].found[m]
    PROVE  Reached(ch)'
<1>1. PICK k \in 1..Len(stack) : \E m \in 1..Len(stack[k].found) : stack[k].found[m] = ch
  BY DEF Reached
<1>2. PICK m \in 1..Len(stack[k].found) : stack[k].found[m] = ch
  BY <1>1
<1>3. PICK l \in 1..Len(stack') : \E j \in 1..Len(stack'[l].found) : stack'[l].found[j] = ch
  BY <1>1, <1>2
<1> QED
  BY <1>3 DEF Reached

\* The targets and the cost stay what they are.
LEMMA TargetsStay ==
    ASSUME Parsing, Searching, Descending, phase = "search", UNCHANGED <<submitted, trusted, options, pool, phase>>,
           \A ch : IsTarget(ch) /\ V!Cost(submitted) <= maxChainSignatureChecks /\ (Reached(ch) \/ OnTheWay(ch))
                     => Reached(ch)' \/ OnTheWay(ch)'
    PROVE  Descending'
<1> SUFFICES ASSUME ~options.strict, V!Cost(submitted)' <= maxChainSignatureChecks,
                    NEW ch \in Acceptances', V!PathToRoot(ch)'
             PROVE  Reached(ch)' \/ OnTheWay(ch)'
  BY DEF Descending
<1>1. ch \in Acceptances /\ V!PathToRoot(ch)
  BY DEF Acceptances, V!PathToRoot, V!Issued, V!contains, V!Contains
<1>2. V!Cost(submitted) <= maxChainSignatureChecks
  BY DEF V!Cost
<1>3. Reached(ch) \/ OnTheWay(ch)
  BY <1>1, <1>2 DEF Descending
<1>4. IsTarget(ch)
  BY <1>1, Targets DEF Parsing, Searching
<1> QED
  BY <1>1, <1>2, <1>3, <1>4

\* One more root considered is one more in Spent.
LEMMA SpendRoot ==
    ASSUME NEW ch, IsTarget(ch), submitted \in Seq(V!Certs), trusted \in Seq(V!Certs), NEW k \in 1..(Len(ch) - 1),
           NEW left, NEW n \in left, n \in V!findPotentialParents(trusted, ch[k])
    PROVE  Cardinality(Spent(ch, k, left \ {n})) = Cardinality(Spent(ch, k, left)) + 1
<1> DEFINE sp == Spent(ch, k, left)
           all == Spent(ch, k, left \ {n})
<1>1. IsFiniteSet(sp)
  BY SpentWithinCost
<1>2. n \in 1..Len(trusted)
  BY ParentsAreNumbers
<1>3. <<k, n>> \in (1..k) \X (1..Len(trusted)) /\ <<k, n>>[1] = k /\ <<k, n>>[2] = n
  BY <1>2
<1>4. <<k, n>> \notin sp /\ <<k, n>> \in all
  BY <1>3 DEF Spent
<1>5. all = sp \cup {<<k, n>>}
  <2>1. all \subseteq sp \cup {<<k, n>>}
    <3> SUFFICES ASSUME NEW p \in all, p \notin sp PROVE p = <<k, n>>
      OBVIOUS
    <3>1. /\ p \in (1..k) \X (1..Len(trusted)) /\ p[2] \in V!findPotentialParents(trusted, ch[p[1]])
          /\ p[1] = k => p[2] \notin left \ {n}
      BY DEF Spent
    <3>2. p[1] = k /\ p[2] \in left
      BY <3>1 DEF Spent
    <3>3. p[2] = n
      BY <3>1, <3>2
    <3> QED
      BY <3>1, <3>2, <3>3
  <2>2. sp \subseteq all
    BY DEF Spent
  <2> QED
    BY <1>4, <2>1, <2>2
<1> HIDE DEF sp, all
<1>6. Cardinality(all) = Cardinality(sp) + 1
  BY <1>1, <1>4, <1>5, FS_AddElement
<1> QED
  BY <1>6 DEF sp, all

LEMMA ConsiderRootDescends ==
    ASSUME Parsing, Searching, Descending, V!ConsiderRoot
    PROVE  Descending'
<1> DEFINE n == V!First(V!Top.rootNums)
           rest == [V!Top EXCEPT !.rootNums = @ \ {n}]
           found == Append(V!Top.chain, trusted[n])
           good == V!Good(trusted[n], "root")
           top == IF good THEN [rest EXCEPT !.found = Append(@, found)] ELSE rest
<1>1. /\ phase = "search" /\ UNCHANGED <<submitted, trusted, options, pool, phase, cache>> /\ trusted \in Seq(V!Certs)
      /\ sigChecks' = V!Checks(trusted[n]) /\ stack' = V!Replace(top) /\ submitted \in Seq(V!Certs)
  BY DEF V!ConsiderRoot, Parsing
<1>2. FrameIsRight(V!Top) /\ Len(stack) \in Nat \ {0} /\ stack \in Seq(Frames) /\ sigChecks \in Nat
  BY <1>1, TopIsRight DEF Searching
<1>3. n \in V!Top.rootNums /\ n \in V!findPotentialParents(trusted, V!Last(V!Top.chain))
  BY <1>2, FirstIsLeast DEF V!ConsiderRoot, FrameIsRight, Frames
<1>4. /\ V!Top \in Frames /\ V!Top.found \in Seq(Seq(V!Certs)) /\ V!Top.chain \in Seq(V!Certs)
      /\ trusted[n] \in V!Certs
  BY <1>1, <1>2, <1>3, ParentsAreNumbers DEF FrameIsRight, Frames
<1>5. found \in Seq(V!Certs)
  BY <1>4
<1>6. /\ top \in Frames /\ top.chain = V!Top.chain /\ top.intermediateNums = V!Top.intermediateNums
      /\ top.rootNums = V!Top.rootNums \ {n}
      /\ top.found = IF good THEN Append(V!Top.found, found) ELSE V!Top.found
  <2> HIDE DEF good, found, n
  <2>1. V!Top.rootNums \ {n} \in SUBSET Nat /\ Append(V!Top.found, found) \in Seq(Seq(V!Certs))
    BY <1>4, <1>5 DEF Frames
  <2> QED
    BY <1>4, <2>1 DEF Frames
<1>7. \A m \in 1..Len(V!Top.found) : m \in 1..Len(top.found) /\ top.found[m] = V!Top.found[m]
  <2> HIDE DEF found, top, good
  <2> QED
    BY <1>4, <1>5, <1>6
<1>8. good => Len(V!Top.found) + 1 \in 1..Len(top.found) /\ top.found[Len(V!Top.found) + 1] = found
  <2> HIDE DEF found, top, good
  <2> QED
    BY <1>4, <1>5, <1>6
<1> HIDE DEF n, top, found, rest
<1>9. /\ stack' \in Seq(Frames) /\ Len(stack') = Len(stack) /\ stack'[Len(stack)] = top
      /\ \A k \in 1..(Len(stack) - 1) : stack'[k] = stack[k]
  <2>1. top \in Frames
    BY <1>6
  <2>2. IsReplaced(stack', top)
    BY <1>1, <1>2, <2>1, ReplaceTop
  <2> QED
    BY <2>2 DEF IsReplaced
<1>10. V!Top' = top
  BY <1>9 DEF V!Top
<1> SUFFICES ASSUME NEW ch, IsTarget(ch), V!Cost(submitted) <= maxChainSignatureChecks, Reached(ch) \/ OnTheWay(ch)
             PROVE  Reached(ch)' \/ OnTheWay(ch)'
  BY <1>1, TargetsStay
<1>11. CASE Reached(ch)
  <2>1. ASSUME NEW k \in 1..Len(stack)
        PROVE  \E l \in 1..Len(stack') : \A m \in 1..Len(stack[k].found) : \E j \in 1..Len(stack'[l].found) :
                 stack'[l].found[j] = stack[k].found[m]
    <3>1. CASE k = Len(stack)
      <4>1. k \in 1..Len(stack') /\ stack'[k] = top /\ stack[k] = V!Top
        BY <1>2, <1>9, <3>1 DEF V!Top
      <4> QED
        BY <1>7, <4>1
    <3>2. CASE k # Len(stack)
      <4>1. k \in 1..Len(stack') /\ stack'[k] = stack[k]
        BY <1>2, <1>9, <3>2
      <4> QED
        BY <4>1
    <3> QED
      BY <3>1, <3>2
  <2>2. Reached(ch)'
    BY <1>11, <2>1, StaysReached
  <2> QED
    BY <2>2
<1>12. CASE OnTheWay(ch)
  <2> DEFINE k == Len(stack)
  <2>1. /\ Len(ch) \in Nat /\ k \in Nat /\ k >= 1 /\ k < Len(ch) /\ k \in 1..(Len(ch) - 1)
        /\ V!Top.chain = SubSeq(ch, 1, k)
        /\ IF k < Len(ch) - 1 THEN k \in V!Top.intermediateNums
           ELSE \E r \in V!Top.rootNums : trusted[r] = ch[Len(ch)]
        /\ sigChecks < k + Cardinality(Spent(ch, k, V!Top.rootNums)) /\ DOMAIN cache = {}
    BY <1>2, <1>12 DEF OnTheWay, IsTarget
  <2> HIDE DEF k
  <2>2. V!Last(V!Top.chain) = ch[k]
    BY <2>1, EndOfBeginning
  <2>3. Cardinality(Spent(ch, k, top.rootNums)) = Cardinality(Spent(ch, k, V!Top.rootNums)) + 1
    <3>1. PICK left : left = V!Top.rootNums
      OBVIOUS
    <3>2. n \in left /\ n \in V!findPotentialParents(trusted, ch[k])
      BY <1>3, <2>2, <3>1
    <3>3. Cardinality(Spent(ch, k, left \ {n})) = Cardinality(Spent(ch, k, left)) + 1
      BY <1>1, <2>1, <3>2, SpendRoot
    <3> QED
      BY <1>6, <3>1, <3>3
  <2>4. /\ Cardinality(Spent(ch, k, top.rootNums)) \in Nat /\ Cardinality(Spent(ch, k, V!Top.rootNums)) \in Nat
        /\ V!Cost(submitted) \in Nat
        /\ k + Cardinality(Spent(ch, k, top.rootNums)) <= V!Cost(submitted)
    BY <1>1, <2>1, SpentWithinCost
  <2>5. sigChecks' \in Nat /\ sigChecks' <= sigChecks + 1
    BY <1>1, <1>2 DEF V!Checks
  <2>6. sigChecks' < k + Cardinality(Spent(ch, k, top.rootNums))
    BY <1>2, <2>1, <2>3, <2>4, <2>5
  <2>7. Spent(ch, Len(stack), V!Top.rootNums)' = Spent(ch, k, top.rootNums)
    BY <1>1, <1>9, <1>10 DEF Spent, k
  <2>8. ASSUME IF k < Len(ch) - 1 THEN k \in top.intermediateNums
               ELSE \E r \in top.rootNums : trusted[r] = ch[Len(ch)]
        PROVE  OnTheWay(ch)'
    BY <1>1, <1>6, <1>9, <1>10, <2>1, <2>6, <2>7, <2>8 DEF OnTheWay, k
  <2>9. CASE k < Len(ch) - 1
    BY <1>6, <2>1, <2>8, <2>9
  <2>10. CASE ~(k < Len(ch) - 1) /\ trusted[n] # ch[Len(ch)]
    BY <1>6, <2>1, <2>8, <2>10
  <2>11. CASE ~(k < Len(ch) - 1) /\ trusted[n] = ch[Len(ch)]
    <3>1. k = Len(ch) - 1 /\ k + 1 = Len(ch)
      BY <2>1, <2>11
    <3>2. V!Issued(ch, k, trusted, "root")
      BY <3>1 DEF IsTarget
    <3>3. maxChainSignatureChecks \in Nat => sigChecks + 1 <= maxChainSignatureChecks
      BY <1>2, <2>1, <2>3, <2>4
    <3>4. sigChecks + 1 <= maxChainSignatureChecks
      BY <3>3 DEF Parsing
    <3>5. good
      BY <2>1, <2>11, <3>1, <3>2, <3>4, NextIsGood
    <3>6. found = SubSeq(ch, 1, Len(ch))
      <4>1. IsBeginning(V!Top.chain, ch, k)
        BY <2>1, Beginning
      <4> QED
        BY <2>11, <3>1, <4>1 DEF found, IsBeginning
    <3>7. found = ch
      BY <3>6 DEF IsTarget
    <3>8. Reached(ch)'
      BY <1>2, <1>8, <1>9, <3>5, <3>7 DEF Reached
    <3> QED
      BY <3>8
  <2> QED
    BY <2>9, <2>10, <2>11
<1> QED
  BY <1>11, <1>12

LEMMA ConsiderIntermediateDescends ==
    ASSUME Parsing, Searching, Descending, V!ConsiderIntermediate
    PROVE  Descending'
<1> DEFINE n == V!First(V!Top.intermediateNums)
           rest == [V!Top EXCEPT !.intermediateNums = @ \ {n}]
           more == [rest EXCEPT !.found = @ \o cache[pool[n]]]
           call == V!Call(Append(V!Top.chain, pool[n]), trusted, pool)
           good == V!Good(pool[n], "intermediate")
<1>1. /\ phase = "search" /\ UNCHANGED <<submitted, trusted, options, pool, phase, cache>>
      /\ trusted \in Seq(V!Certs) /\ pool \in Seq(V!Certs) /\ submitted \in Seq(V!Certs)
      /\ sigChecks' = V!Checks(pool[n]) /\ V!Top.rootNums = {} /\ maxChainSignatureChecks \in Nat
  BY DEF V!ConsiderIntermediate, Parsing
<1>2. FrameIsRight(V!Top) /\ Len(stack) \in Nat \ {0} /\ stack \in Seq(Frames) /\ sigChecks \in Nat
  BY <1>1, TopIsRight DEF Searching
<1>3. /\ n \in V!Top.intermediateNums /\ \A m \in V!Top.intermediateNums : n <= m
      /\ n \in V!findPotentialParents(pool, V!Last(V!Top.chain))
  BY <1>2, FirstIsLeast DEF V!ConsiderIntermediate, FrameIsRight, Frames
<1>4. /\ V!Top \in Frames /\ V!Top.found \in Seq(Seq(V!Certs)) /\ V!Top.chain \in Seq(V!Certs)
      /\ n \in 1..Len(pool) /\ pool[n] \in V!Certs /\ n \in Nat
  BY <1>1, <1>2, <1>3, ParentsAreNumbers DEF FrameIsRight, Frames
<1>5. \/ ~good /\ stack' = V!Replace(rest)
      \/ good /\ pool[n] \in DOMAIN cache /\ stack' = V!Replace(more)
      \/ good /\ pool[n] \notin DOMAIN cache /\ stack' = Append(V!Replace(rest), call)
  BY DEF V!ConsiderIntermediate
<1>6. /\ rest \in Frames /\ rest.chain = V!Top.chain /\ rest.rootNums = V!Top.rootNums
      /\ rest.intermediateNums = V!Top.intermediateNums \ {n} /\ rest.found = V!Top.found
  <2> HIDE DEF n
  <2>1. V!Top.intermediateNums \ {n} \in SUBSET Nat
    BY <1>4 DEF Frames
  <2> QED
    BY <1>4, <2>1 DEF Frames
<1>7. ASSUME pool[n] \in DOMAIN cache
      PROVE  /\ more \in Frames
             /\ \A m \in 1..Len(V!Top.found) : m \in 1..Len(more.found) /\ more.found[m] = V!Top.found[m]
  <2>1. PICK chains : chains = cache[pool[n]]
    OBVIOUS
  <2>2. chains \in Seq(Seq(V!Certs))
    BY <1>1, <1>7, <2>1 DEF Searching, AreFound
  <2>3. more = [rest EXCEPT !.found = @ \o chains]
    BY <2>1
  <2>4. rest.found \in Seq(Seq(V!Certs)) /\ rest.found \o chains \in Seq(Seq(V!Certs))
    <3>1. rest.found \in Seq(Seq(V!Certs))
      BY <1>4, <1>6
    <3> HIDE DEF rest
    <3> QED
      BY <2>2, <3>1
  <2> HIDE DEF rest, more
  <2>5. more \in Frames /\ more.found = rest.found \o chains
    BY <1>6, <2>3, <2>4 DEF Frames
  <2>6. \A m \in 1..Len(rest.found) : m \in 1..Len(rest.found \o chains) /\ (rest.found \o chains)[m] = rest.found[m]
    BY <2>2, <2>4
  <2> QED
    BY <1>6, <2>5, <2>6
<1>8. good => FrameIsRight(call)
  <2> SUFFICES ASSUME good PROVE FrameIsRight(call)
    OBVIOUS
  <2>1. IsBranch(Append(V!Top.chain, pool[n]))
    BY <1>1, <1>3, IntermediateExtends
  <2> QED
    BY <1>1, <2>1, CallIsRight
<1> HIDE DEF n, rest, more, call, good
<1>9. ASSUME NEW top \in Frames, NEW st, st = V!Replace(top),
             \A m \in 1..Len(V!Top.found) : m \in 1..Len(top.found) /\ top.found[m] = V!Top.found[m]
      PROVE  /\ st \in Seq(Frames) /\ Len(st) = Len(stack) /\ st[Len(stack)] = top
             /\ \A k \in 1..Len(stack) : k \in 1..Len(st) /\
                  \A m \in 1..Len(stack[k].found) : m \in 1..Len(st[k].found) /\ st[k].found[m] = stack[k].found[m]
  <2>1. /\ st \in Seq(Frames) /\ Len(st) = Len(stack) /\ st[Len(stack)] = top
        /\ \A k \in 1..(Len(stack) - 1) : st[k] = stack[k]
    <3>1. IsReplaced(st, top)
      BY <1>2, <1>9, ReplaceTop
    <3> QED
      BY <3>1 DEF IsReplaced
  <2>2. ASSUME NEW k \in 1..Len(stack)
        PROVE  \A m \in 1..Len(stack[k].found) : m \in 1..Len(st[k].found) /\ st[k].found[m] = stack[k].found[m]
    <3>1. CASE k = Len(stack)
      BY <1>9, <2>1, <3>1 DEF V!Top
    <3>2. CASE k # Len(stack)
      <4>1. k \in 1..(Len(stack) - 1)
        BY <1>2, <3>2
      <4>2. st[k] = stack[k]
        BY <2>1, <4>1
      <4> QED
        BY <4>2
    <3> QED
      BY <3>1, <3>2
  <2> QED
    BY <2>1, <2>2
<1>10. \E st : /\ st \in Seq(Frames) /\ Len(st) = Len(stack)
               /\ \/ stack' = st /\ (~good => st[Len(stack)] = rest)
                  \/ good /\ pool[n] \notin DOMAIN cache /\ stack' = Append(st, call)
               /\ \A k \in 1..Len(stack) : k \in 1..Len(st) /\
                    \A m \in 1..Len(stack[k].found) : m \in 1..Len(st[k].found) /\ st[k].found[m] = stack[k].found[m]
               /\ good /\ pool[n] \notin DOMAIN cache => stack' = Append(st, call)
  <2>1. CASE ~good /\ stack' = V!Replace(rest)
    BY <1>6, <1>9, <2>1
  <2>2. CASE good /\ pool[n] \in DOMAIN cache /\ stack' = V!Replace(more)
    BY <1>7, <1>9, <2>2
  <2>3. CASE good /\ pool[n] \notin DOMAIN cache /\ stack' = Append(V!Replace(rest), call)
    <3>1. PICK st : st = V!Replace(rest)
      OBVIOUS
    <3>2. /\ st \in Seq(Frames) /\ Len(st) = Len(stack)
          /\ \A k \in 1..Len(stack) : k \in 1..Len(st) /\
               \A m \in 1..Len(stack[k].found) : m \in 1..Len(st[k].found) /\ st[k].found[m] = stack[k].found[m]
      BY <1>6, <1>9, <3>1
    <3> QED
      BY <2>3, <3>1, <3>2
  <2> QED
    BY <1>5, <2>1, <2>2, <2>3
<1>11. PICK st : /\ st \in Seq(Frames) /\ Len(st) = Len(stack)
                 /\ \/ stack' = st /\ (~good => st[Len(stack)] = rest)
                    \/ good /\ pool[n] \notin DOMAIN cache /\ stack' = Append(st, call)
                 /\ \A k \in 1..Len(stack) : k \in 1..Len(st) /\
                      \A m \in 1..Len(stack[k].found) : m \in 1..Len(st[k].found) /\ st[k].found[m] = stack[k].found[m]
                 /\ good /\ pool[n] \notin DOMAIN cache => stack' = Append(st, call)
  BY <1>10
<1> SUFFICES ASSUME NEW ch, IsTarget(ch), V!Cost(submitted) <= maxChainSignatureChecks, Reached(ch) \/ OnTheWay(ch)
             PROVE  Reached(ch)' \/ OnTheWay(ch)'
  BY <1>1, TargetsStay
<1>12. CASE Reached(ch)
  <2>1. good => call \in Frames
    BY <1>8 DEF FrameIsRight
  <2>2. \A k \in 1..Len(st) : k \in 1..Len(stack') /\ stack'[k] = st[k]
    BY <1>11, <2>1
  <2>3. ASSUME NEW k \in 1..Len(stack)
        PROVE  \E l \in 1..Len(stack') : \A m \in 1..Len(stack[k].found) : \E j \in 1..Len(stack'[l].found) :
                 stack'[l].found[j] = stack[k].found[m]
    <3>1. k \in 1..Len(stack') /\ stack'[k] = st[k]
      BY <1>11, <2>2
    <3> QED
      BY <1>11, <3>1
  <2>4. Reached(ch)'
    BY <1>12, <2>3, StaysReached
  <2> QED
    BY <2>4
<1>13. CASE OnTheWay(ch)
  <2> DEFINE k == Len(stack)
  <2>1. /\ Len(ch) \in Nat /\ k \in Nat /\ k >= 1 /\ k < Len(ch) - 1 /\ k \in 1..(Len(ch) - 1) /\ k \in 1..(Len(ch) - 2)
        /\ V!Top.chain = SubSeq(ch, 1, k) /\ k \in V!Top.intermediateNums
        /\ sigChecks < k + Cardinality(Spent(ch, k, V!Top.rootNums)) /\ DOMAIN cache = {}
    BY <1>1, <1>2, <1>13 DEF OnTheWay, IsTarget
  <2>2. k \in DOMAIN pool /\ pool[k] = ch[k + 1] /\ n <= k /\ pool[n] = ch[n + 1]
    <3>1. k \in DOMAIN pool /\ pool[k] = ch[k + 1]
      BY <2>1 DEF IsTarget
    <3>2. n \in DOMAIN pool
      BY <1>1, <1>4
    <3>3. pool[n] = ch[n + 1]
      BY <3>2 DEF IsTarget
    <3> QED
      BY <1>3, <2>1, <3>1, <3>3
  <2> HIDE DEF k
  <2>3. PICK start : start = SubSeq(ch, 1, k)
    OBVIOUS
  <2>4. /\ V!Last(start) = ch[k] /\ ~V!Contains(start, ch[k + 1]) /\ \A j \in 1..k : V!Contains(start, ch[j])
        /\ Append(start, ch[k + 1]) = SubSeq(ch, 1, k + 1)
    <3>1. IsBeginning(start, ch, k)
      BY <2>1, <2>3, Beginning
    <3> QED
      BY <3>1 DEF IsBeginning
  <2>5. /\ Cardinality(Spent(ch, k, V!Top.rootNums)) \in Nat /\ V!Cost(submitted) \in Nat
        /\ k + Cardinality(Spent(ch, k, V!Top.rootNums)) <= V!Cost(submitted)
    BY <1>1, <2>1, SpentWithinCost
  <2>6. CASE n < k
    <3>1. n + 1 \in 1..k
      BY <1>4, <2>1, <2>6
    <3>2. V!Contains(V!Top.chain, pool[n])
      BY <2>1, <2>2, <2>3, <2>4, <3>1
    <3>3. ~good /\ sigChecks' = sigChecks
      BY <1>1, <3>2 DEF good, V!Good, V!Checks
    <3>4. stack' = st /\ st[Len(stack)] = rest
      BY <1>11, <3>3
    <3>5. V!Top' = rest /\ Len(stack') = Len(stack)
      BY <1>11, <3>4 DEF V!Top
    <3>6. Spent(ch, Len(stack), V!Top.rootNums)' = Spent(ch, k, V!Top.rootNums)
      BY <1>1, <1>6, <3>5 DEF Spent, k
    <3>7. k \in rest.intermediateNums
      BY <1>4, <1>6, <2>1, <2>6
    <3>8. OnTheWay(ch)'
      BY <1>1, <1>6, <2>1, <3>3, <3>5, <3>6, <3>7 DEF OnTheWay, k
    <3> QED
      BY <3>8
  <2>7. CASE n = k
    <3>1. V!Issued(ch, k, pool, "intermediate")
      BY <2>1 DEF IsTarget
    <3>2. sigChecks + 1 <= maxChainSignatureChecks
      BY <1>1, <1>2, <2>1, <2>5
    <3>3. good
      BY <2>1, <2>2, <2>7, <3>1, <3>2, NextIsGood DEF good
    <3>4. stack' = Append(st, call) /\ call \in Frames
      BY <1>8, <1>11, <2>1, <3>3 DEF FrameIsRight
    <3>5. Len(stack') = k + 1 /\ V!Top' = call
      <4>1. Len(stack') = Len(st) + 1 /\ stack'[Len(st) + 1] = call
        BY <1>11, <3>4
      <4> QED
        BY <1>11, <4>1 DEF k, V!Top
    <3>6. /\ call.chain = SubSeq(ch, 1, k + 1)
          /\ call.rootNums = V!findPotentialParents(trusted, ch[k + 1])
          /\ call.intermediateNums = V!findPotentialParents(pool, ch[k + 1])
      <4>1. Append(V!Top.chain, pool[n]) = SubSeq(ch, 1, k + 1)
        BY <2>1, <2>2, <2>3, <2>4, <2>7
      <4>2. k + 1 \in 1..(Len(ch) - 1)
        BY <2>1
      <4>3. V!Last(SubSeq(ch, 1, k + 1)) = ch[k + 1]
        BY <4>2, EndOfBeginning
      <4> QED
        BY <4>1, <4>3 DEF call, V!Call
    <3>7. Spent(ch, k + 1, call.rootNums) = Spent(ch, k, V!Top.rootNums)
      <4>1. Spent(ch, k + 1, call.rootNums) \subseteq Spent(ch, k, V!Top.rootNums)
        <5> SUFFICES ASSUME NEW p \in Spent(ch, k + 1, call.rootNums) PROVE p \in Spent(ch, k, V!Top.rootNums)
          OBVIOUS
        <5>1. /\ p \in (1..(k + 1)) \X (1..Len(trusted)) /\ p[2] \in V!findPotentialParents(trusted, ch[p[1]])
              /\ p[1] = k + 1 => p[2] \notin call.rootNums
          BY DEF Spent
        <5>2. p[1] # k + 1
          BY <3>6, <5>1
        <5>3. p \in (1..k) \X (1..Len(trusted))
          BY <2>1, <5>1, <5>2
        <5> QED
          BY <1>1, <5>1, <5>3 DEF Spent
      <4>2. Spent(ch, k, V!Top.rootNums) \subseteq Spent(ch, k + 1, call.rootNums)
        <5> SUFFICES ASSUME NEW p \in Spent(ch, k, V!Top.rootNums) PROVE p \in Spent(ch, k + 1, call.rootNums)
          OBVIOUS
        <5>1. p \in (1..k) \X (1..Len(trusted)) /\ p[2] \in V!findPotentialParents(trusted, ch[p[1]])
          BY DEF Spent
        <5>2. p \in (1..(k + 1)) \X (1..Len(trusted)) /\ p[1] # k + 1
          BY <2>1, <5>1
        <5> QED
          BY <5>1, <5>2 DEF Spent
      <4> QED
        BY <4>1, <4>2
    <3>8. Spent(ch, Len(stack), V!Top.rootNums)' = Spent(ch, k, V!Top.rootNums)
      BY <1>1, <3>5, <3>7 DEF Spent
    <3>9. sigChecks' < (k + 1) + Cardinality(Spent(ch, k, V!Top.rootNums))
      <4>1. sigChecks' = sigChecks \/ sigChecks' = sigChecks + 1
        BY <1>1 DEF V!Checks
      <4> QED
        BY <1>2, <2>1, <2>5, <4>1
    <3>10. CASE k + 1 < Len(ch) - 1
      <4>1. k + 1 \in 1..(Len(ch) - 2)
        BY <2>1, <3>10
      <4>2. PICK r \in V!findPotentialParents(pool, ch[k + 1]) : pool[r] = ch[k + 1 + 1]
        BY <4>1 DEF IsTarget, V!Issued
      <4>3. r \in DOMAIN pool /\ k + 1 \in DOMAIN pool /\ pool[k + 1] = ch[k + 1 + 1]
        <5>1. r \in 1..Len(pool)
          BY <1>1, <4>2, ParentsAreNumbers
        <5>2. k + 1 \in DOMAIN pool /\ pool[k + 1] = ch[k + 1 + 1]
          BY <4>1 DEF IsTarget
        <5> QED
          BY <1>1, <5>1, <5>2
      <4>4. r + 1 \in 1..Len(ch) /\ ch[r + 1] = ch[k + 1 + 1] /\ k + 1 + 1 \in 1..Len(ch)
        BY <4>1, <4>2, <4>3 DEF IsTarget
      <4>5. r + 1 = k + 1 + 1
        BY <4>4 DEF IsTarget
      <4>6. r = k + 1
        BY <1>1, <2>1, <4>3, <4>5
      <4>7. k + 1 \in call.intermediateNums
        BY <3>6, <4>2, <4>6
      <4>8. OnTheWay(ch)'
        BY <1>1, <2>1, <3>5, <3>6, <3>8, <3>9, <3>10, <4>7 DEF OnTheWay
      <4> QED
        BY <4>8
    <3>11. CASE ~(k + 1 < Len(ch) - 1)
      <4>1. k + 1 = Len(ch) - 1 /\ k + 1 + 1 = Len(ch)
        BY <2>1, <3>11
      <4>2. PICK r \in V!findPotentialParents(trusted, ch[k + 1]) : trusted[r] = ch[Len(ch)]
        BY <4>1 DEF IsTarget, V!Issued
      <4>3. \E q \in call.rootNums : trusted[q] = ch[Len(ch)]
        BY <3>6, <4>2
      <4>4. OnTheWay(ch)'
        BY <1>1, <2>1, <3>5, <3>6, <3>8, <3>9, <3>11, <4>1, <4>3 DEF OnTheWay
      <4> QED
        BY <4>4
    <3> QED
      BY <3>10, <3>11
  <2> QED
    BY <1>4, <2>1, <2>2, <2>6, <2>7
<1> QED
  BY <1>12, <1>13

LEMMA ReturnDescends ==
    ASSUME Parsing, Searching, Descending, V!Return, Len(stack) > 1
    PROVE  Descending'
<1>1. /\ phase = "search" /\ UNCHANGED <<submitted, trusted, options, pool, phase, sigChecks>>
      /\ stack' = [V!Front(stack) EXCEPT ![Len(stack) - 1].found = @ \o V!Top.found]
      /\ V!Top.rootNums = {} /\ V!Top.intermediateNums = {}
  BY DEF V!Return
<1>2. FrameIsRight(V!Top) /\ Len(stack) \in Nat \ {0} /\ stack \in Seq(Frames)
  BY <1>1, TopIsRight
<1>3. /\ stack' \in Seq(Frames) /\ Len(stack') = Len(stack) - 1
      /\ \A k \in 1..(Len(stack) - 2) : stack'[k] = stack[k]
      /\ stack'[Len(stack) - 1] = [stack[Len(stack) - 1] EXCEPT !.found = @ \o V!Top.found]
  BY <1>1, <1>2, Returned
<1>4. PICK caller, own, new : caller = stack[Len(stack) - 1] /\ own = V!Top.found /\ new = stack'[Len(stack) - 1]
  OBVIOUS
<1>5. /\ caller \in Frames /\ caller.found \in Seq(Seq(V!Certs)) /\ own \in Seq(Seq(V!Certs))
      /\ Len(stack) - 1 \in 1..Len(stack')
  <2>1. Len(stack) - 1 \in 1..Len(stack) /\ Len(stack) - 1 \in 1..Len(stack')
    BY <1>2, <1>3
  <2>2. caller \in Frames /\ V!Top \in Frames
    BY <1>2, <1>4, <2>1 DEF FrameIsRight
  <2> QED
    BY <1>4, <2>1, <2>2 DEF Frames
<1>6. new.found = caller.found \o own
  BY <1>3, <1>4, <1>5 DEF Frames
<1>7. /\ \A m \in 1..Len(caller.found) : m \in 1..Len(new.found) /\ new.found[m] = caller.found[m]
      /\ \A m \in 1..Len(own) : Len(caller.found) + m \in 1..Len(new.found) /\ new.found[Len(caller.found) + m] = own[m]
  <2>1. PICK f : f = caller.found
    OBVIOUS
  <2>2. /\ \A m \in 1..Len(f) : m \in 1..Len(f \o own) /\ (f \o own)[m] = f[m]
        /\ \A m \in 1..Len(own) : Len(f) + m \in 1..Len(f \o own) /\ (f \o own)[Len(f) + m] = own[m]
    BY <1>5, <2>1
  <2> QED
    BY <1>6, <2>1, <2>2
<1> SUFFICES ASSUME NEW ch, IsTarget(ch), Reached(ch) \/ OnTheWay(ch) PROVE Reached(ch)'
  BY <1>1, TargetsStay
<1>8. ~OnTheWay(ch)
  BY <1>1 DEF OnTheWay
<1>9. ASSUME NEW k \in 1..Len(stack)
      PROVE  \E l \in 1..Len(stack') : \A m \in 1..Len(stack[k].found) : \E j \in 1..Len(stack'[l].found) :
               stack'[l].found[j] = stack[k].found[m]
  <2>1. CASE k = Len(stack)
    <3>1. stack[k].found = own
      BY <1>4, <2>1 DEF V!Top
    <3>2. \A m \in 1..Len(own) : \E j \in 1..Len(new.found) : new.found[j] = own[m]
      BY <1>7
    <3>3. \A m \in 1..Len(stack[k].found) : \E j \in 1..Len(stack'[Len(stack) - 1].found) :
            stack'[Len(stack) - 1].found[j] = stack[k].found[m]
      BY <1>4, <3>1, <3>2
    <3> QED
      BY <1>5, <3>3
  <2>2. CASE k = Len(stack) - 1
    <3>1. stack[k] = caller /\ stack'[k] = new /\ k \in 1..Len(stack')
      BY <1>4, <1>5, <2>2
    <3> QED
      BY <1>7, <3>1
  <2>3. CASE k # Len(stack) /\ k # Len(stack) - 1
    <3>1. k \in 1..(Len(stack) - 2) /\ k \in 1..Len(stack')
      BY <1>2, <1>3, <2>3
    <3>2. stack'[k] = stack[k]
      BY <1>3, <3>1
    <3> QED
      BY <3>1, <3>2
  <2> QED
    BY <2>1, <2>2, <2>3
<1> QED
  BY <1>8, <1>9, StaysReached

\* A path that continues the submission is equivalent to it.
LEMMA TargetIsEquivalent ==
    ASSUME NEW ch, IsTarget(ch), submitted \in Seq(V!Certs)
    PROVE  V!chainsEquivalent(submitted, ch)
<1>1. Len(submitted) = Len(ch) \/ Len(submitted) = Len(ch) - 1
  BY DEF IsTarget
<1>2. DOMAIN submitted = 1..Len(submitted)
  OBVIOUS
<1> QED
  BY <1>1, <1>2 DEF IsTarget, V!chainsEquivalent

LEMMA ReturnFinishes ==
    ASSUME Parsing, Searching, Descending, V!Return, ~(Len(stack) > 1)
    PROVE  V!AcceptsPathsOnly' /\ phase' = "done"
<1>1. /\ phase = "search" /\ UNCHANGED <<submitted, trusted, options, pool>> /\ V!Finish(V!Top.found)
      /\ V!Top.rootNums = {} /\ V!Top.intermediateNums = {}
  BY DEF V!Return
<1>2. FrameIsRight(V!Top) /\ Len(stack) \in Nat \ {0} /\ stack \in Seq(Frames)
  BY <1>1, TopIsRight
<1>3. Len(stack) = 1 /\ V!Top = stack[1]
  <2>1. Len(stack) = 1
    <3>1. PICK m \in Nat \ {0} : m = Len(stack)
      BY <1>2
    <3>2. ~(m > 1)
      BY <3>1
    <3>3. m = 1
      BY <3>2
    <3> QED
      BY <3>1, <3>3
  <2> QED
    BY <2>1 DEF V!Top
<1>4. AreFound(V!Top.found)
  BY <1>2 DEF FrameIsRight, Frames, AreFound
<1>5. /\ parsed = Len(submitted) /\ submitted \in Seq(V!Certs) /\ ~V!contains(trusted, submitted[1])
      /\ options.strict \/ V!LeafAllowed(submitted[1], options)
  BY <1>1 DEF Parsing, Searching
<1>6. ~options.strict /\ V!Acceptable(submitted) /\ V!Cost(submitted) <= maxChainSignatureChecks =>
        \E k \in 1..Len(V!Top.found) : V!chainsEquivalent(submitted, V!Top.found[k])
  <2> SUFFICES ASSUME ~options.strict, V!Acceptable(submitted), V!Cost(submitted) <= maxChainSignatureChecks
               PROVE  \E k \in 1..Len(V!Top.found) : V!chainsEquivalent(submitted, V!Top.found[k])
    OBVIOUS
  <2>1. PICK ch \in Acceptances : V!PathToRoot(ch)
    BY DEF V!Acceptable, Acceptances
  <2>2. Reached(ch)
    BY <1>1, <2>1 DEF Descending, OnTheWay
  <2>3. PICK m \in 1..Len(V!Top.found) : V!Top.found[m] = ch
    BY <1>3, <2>2 DEF Reached
  <2>4. IsTarget(ch)
    BY <1>5, <2>1, Targets
  <2>5. V!chainsEquivalent(submitted, ch)
    BY <1>5, <2>4, TargetIsEquivalent
  <2> QED
    BY <2>3, <2>5
<1>7. V!AcceptsPathsOnly'
  BY <1>1, <1>4, <1>5, <1>6, FinishIsRight
<1> QED
  BY <1>1, <1>7 DEF V!Finish

----------------------------------------------------------------------------
(* The steps before the search.                                            *)

ValidationInv == Parsing /\ Searching /\ Descending /\ V!AcceptsPathsOnly

LEMMA ValidationInit ==
    ASSUME V!WellFormed, V!Init
    PROVE  ValidationInv
<1>1. /\ submitted \in Seq(V!Certs) /\ submitted # <<>> /\ trusted \in Seq(V!Certs)
      /\ maxChainSignatureChecks \in Nat
  BY DEF V!WellFormed, V!Init
<1>2. phase = "parse" /\ parsed = 0 /\ pool = <<>> /\ sigChecks = 0 /\ result = {} /\ cache = <<>>
  BY DEF V!Init
<1>3. pool \in Seq(V!Certs) /\ Len(pool) = 0 /\ DOMAIN cache = {} /\ Len(submitted) \in Nat
  BY <1>1, <1>2
<1>4. Parsing
  BY <1>1, <1>2, <1>3 DEF Parsing
<1> QED
  BY <1>2, <1>4 DEF ValidationInv, Searching, Descending, V!AcceptsPathsOnly, V!AcceptsExactlyThePaths, V!ChainsAreValid

\* A refusal before the search returns no chain, and refuses no acceptable submission.
LEMMA Refused ==
    ASSUME result' = {}, ~options'.strict => ~V!Acceptable(submitted)'
    PROVE  V!AcceptsPathsOnly'
BY DEF V!AcceptsPathsOnly, V!AcceptsExactlyThePaths, V!ChainsAreValid

LEMMA ParseCertIsRight ==
    ASSUME ValidationInv, V!ParseCert
    PROVE  ValidationInv'
<1> DEFINE cert == submitted[parsed + 1]
<1>1. /\ phase = "parse" /\ parsed < Len(submitted) /\ result = {} /\ parsed \in Nat
      /\ UNCHANGED <<submitted, trusted, options, stack, cache, sigChecks, result>>
      /\ parsed + 1 \in 1..Len(submitted) /\ submitted \in Seq(V!Certs) /\ cert \in V!Certs
  BY DEF V!ParseCert, ValidationInv, Parsing
<1>2. CASE cert = Garbage /\ phase' = "done" /\ UNCHANGED <<parsed, pool>>
  <2>1. V!Contains(submitted, Garbage)
    BY <1>1, <1>2 DEF V!Contains
  <2>2. ~V!Acceptable(submitted)'
    BY <1>1, <2>1 DEF V!Acceptable, V!Contains
  <2>3. V!AcceptsPathsOnly'
    BY <1>1, <2>2, Refused
  <2>4. Parsing'
    BY <1>1, <1>2 DEF ValidationInv, Parsing, Distinct
  <2> QED
    BY <1>2, <2>3, <2>4 DEF ValidationInv, Searching, Descending
<1>3. CASE /\ cert # Garbage /\ parsed' = parsed + 1
           /\ pool' = IF parsed > 0 THEN V!AddCert(pool, cert) ELSE pool
           /\ UNCHANGED phase
  <2>1. pool \in Seq(V!Certs) /\ Len(pool) \in Nat /\ \A i \in 1..parsed : submitted[i] # Garbage
    BY DEF ValidationInv, Parsing
  <2>2. pool' \in Seq(V!Certs)
    BY <1>1, <1>3, <2>1 DEF V!AddCert
  <2>3. \A i \in 1..parsed' : submitted[i] # Garbage
    BY <1>1, <1>3, <2>1
  <2>4. ASSUME Distinct(submitted)
        PROVE  /\ Len(pool') = IF parsed' = 0 THEN 0 ELSE parsed' - 1
               /\ \A j \in 1..Len(pool') : pool'[j] = submitted[j + 1]
    <3>1. /\ Len(pool) = IF parsed = 0 THEN 0 ELSE parsed - 1
          /\ \A j \in 1..Len(pool) : pool[j] = submitted[j + 1]
      BY <2>4 DEF ValidationInv, Parsing
    <3>2. CASE parsed = 0
      BY <1>1, <1>3, <3>1, <3>2
    <3>3. CASE parsed # 0
      <4>1. ~V!contains(pool, cert)
        <5> SUFFICES ASSUME NEW j \in 1..Len(pool), pool[j] = cert PROVE FALSE
          BY DEF V!contains, V!Contains
        <5>1. submitted[j + 1] = submitted[parsed + 1] /\ j + 1 \in DOMAIN submitted /\ parsed + 1 \in DOMAIN submitted
          BY <1>1, <2>1, <3>1, <3>3
        <5>2. j + 1 = parsed + 1
          BY <2>4, <5>1 DEF Distinct
        <5> QED
          BY <1>1, <2>1, <3>1, <3>3, <5>2
      <4>2. pool' = Append(pool, cert)
        BY <1>1, <1>3, <3>3, <4>1 DEF V!AddCert
      <4>3. Len(pool') = parsed /\ pool'[parsed] = cert /\ \A j \in 1..Len(pool) : pool'[j] = pool[j]
        BY <1>1, <2>1, <3>1, <3>3, <4>2
      <4>4. ASSUME NEW j \in 1..Len(pool') PROVE pool'[j] = submitted[j + 1]
        <5>1. j = parsed \/ j \in 1..Len(pool)
          BY <1>1, <3>1, <3>3, <4>3
        <5> QED
          BY <3>1, <4>3, <5>1
      <4> QED
        BY <1>1, <1>3, <4>3, <4>4
    <3> QED
      BY <3>2, <3>3
  <2>5. parsed' \in 0..Len(submitted)
    BY <1>1, <1>3
  <2>6. Distinct(submitted)' <=> Distinct(submitted)
    BY <1>1 DEF Distinct
  <2>7. Parsing'
    BY <1>1, <1>3, <2>2, <2>3, <2>4, <2>5, <2>6 DEF ValidationInv, Parsing
  <2> QED
    BY <1>1, <1>3, <2>7 DEF ValidationInv, Searching, Descending, V!AcceptsPathsOnly,
       V!AcceptsExactlyThePaths, V!ChainsAreValid
<1> QED
  BY <1>2, <1>3 DEF V!ParseCert

LEMMA StartValidationIsRight ==
    ASSUME ValidationInv, V!StartValidation
    PROVE  ValidationInv'
<1> DEFINE leaf == submitted[1]
           accepted == /\ options.strict \/ V!LeafAllowed(leaf, options)
                       /\ V!isValid(leaf, "leaf", <<>>, options)
<1>1. /\ phase = "parse" /\ parsed = Len(submitted)
      /\ UNCHANGED <<submitted, trusted, options, parsed, pool, cache, sigChecks>>
      /\ result = {} /\ DOMAIN cache = {} /\ sigChecks = 0 /\ submitted \in Seq(V!Certs) /\ submitted # <<>>
      /\ trusted \in Seq(V!Certs) /\ pool \in Seq(V!Certs)
  BY DEF V!StartValidation, ValidationInv, Parsing
<1>2. /\ leaf \in V!Certs /\ <<leaf>> \in Seq(V!Certs) /\ Len(<<leaf>>) = 1 /\ <<leaf>>[1] = leaf /\ <<leaf>> # <<>>
      /\ Len(submitted) \in Nat \ {0}
  <2>1. leaf \in V!Certs /\ Len(submitted) \in Nat \ {0}
    BY <1>1
  <2> HIDE DEF leaf
  <2> QED
    BY <2>1
<1>3. phase' \in {"search", "done"} /\ phase' # "parse" => Parsing'
  BY <1>1 DEF ValidationInv, Parsing, Distinct
<1>4. CASE ~accepted /\ phase' = "done" /\ UNCHANGED <<stack, result>>
  <2>1. ~options.strict => ~V!Acceptable(submitted)
    <3>1. ~options.strict => V!isValid(leaf, "leaf", <<>>, options)
      BY DEF V!isValid
    <3>2. V!Acceptable(submitted) => V!LeafAllowed(leaf, options)
      BY DEF V!Acceptable
    <3> QED
      BY <1>4, <3>1, <3>2
  <2>2. ~options'.strict => ~V!Acceptable(submitted)'
    BY <1>1, <2>1, AcceptableStays
  <2>3. V!AcceptsPathsOnly'
    BY <1>1, <1>4, <2>2, Refused
  <2> QED
    BY <1>3, <1>4, <2>3 DEF ValidationInv, Searching, Descending
<1>5. CASE accepted /\ V!contains(trusted, leaf) /\ V!Finish(<<<<leaf>>>>) /\ UNCHANGED stack
  <2>1. IsPath(<<leaf>>)
    BY <1>2, <1>5 DEF IsPath, V!PathToRoot
  <2>2. AreFound(<<<<leaf>>>>)
    BY <2>1, OneFound
  <2>3. V!Acceptable(submitted) => V!chainsEquivalent(submitted, <<leaf>>)
    <3> SUFFICES ASSUME V!Acceptable(submitted) PROVE V!chainsEquivalent(submitted, <<leaf>>)
      OBVIOUS
    <3>1. PICK ch \in Acceptances : V!PathToRoot(ch)
      BY DEF V!Acceptable, Acceptances
    <3>2. ch[1] = leaf /\ Len(submitted) <= Len(ch)
      <4>1. CASE ch = submitted
        BY <1>2, <4>1
      <4>2. CASE ch # submitted
        <5>1. PICK i \in DOMAIN trusted : ch = Append(submitted, trusted[i])
          BY <3>1, <4>2 DEF Acceptances
        <5>2. trusted[i] \in V!Certs
          BY <1>1, <5>1
        <5> QED
          BY <1>1, <1>2, <5>1, <5>2
      <4> QED
        BY <4>1, <4>2
    <3>3. Len(ch) = 1
      BY <1>5, <3>1, <3>2 DEF V!PathToRoot
    <3>4. Len(submitted) = 1 /\ DOMAIN submitted = {1}
      BY <1>1, <1>2, <3>2, <3>3
    <3> QED
      BY <1>2, <3>4 DEF V!chainsEquivalent
  <2>4. \E k \in 1..Len(<<<<leaf>>>>) : <<<<leaf>>>>[k] = <<leaf>>
    OBVIOUS
  <2>5. V!AcceptsPathsOnly'
    <3>1. PICK chains : chains = <<<<leaf>>>>
      OBVIOUS
    <3>2. AreFound(chains) /\ V!Finish(chains)
      BY <1>5, <2>2, <3>1
    <3>3. V!Acceptable(submitted) => \E k \in 1..Len(chains) : V!chainsEquivalent(submitted, chains[k])
      BY <2>3, <2>4, <3>1
    <3>4. Parsing
      BY DEF ValidationInv
    <3> QED
      BY <1>1, <1>5, <3>2, <3>3, <3>4, FinishIsRight
  <2>6. phase' = "done"
    BY <1>5 DEF V!Finish
  <2> QED
    BY <1>3, <2>5, <2>6 DEF ValidationInv, Searching, Descending
<1>6. CASE /\ accepted /\ ~V!contains(trusted, leaf) /\ phase' = "search"
           /\ stack' = <<V!Call(<<leaf>>, trusted, pool)>> /\ UNCHANGED result
  <2> DEFINE call == V!Call(<<leaf>>, trusted, pool)
  <2>1. IsBranch(<<leaf>>)
    <3>1. DOMAIN <<leaf>> = {1} /\ 1..(Len(<<leaf>>) - 1) = {}
      BY <1>2
    <3> QED
      BY <1>2, <3>1 DEF IsBranch, Distinct
  <2>2. FrameIsRight(call) /\ call \in Frames
    <3>1. FrameIsRight(call)
      BY <1>1, <2>1, CallIsRight
    <3> QED
      BY <3>1 DEF FrameIsRight
  <2>3. /\ call.chain = <<leaf>> /\ call.rootNums = V!findPotentialParents(trusted, leaf)
        /\ call.intermediateNums = V!findPotentialParents(pool, leaf)
    BY <1>2 DEF V!Call, V!Last
  <2>4. stack' = <<call>>
    BY <1>6
  <2> HIDE DEF call
  <2>5. stack' \in Seq(Frames) /\ Len(stack') = 1 /\ stack'[1] = call /\ stack' # <<>> /\ V!Top' = call
    <3>1. stack' \in Seq(Frames) /\ Len(stack') = 1 /\ stack'[1] = call /\ stack' # <<>>
      BY <2>2, <2>4
    <3> QED
      BY <3>1 DEF V!Top
  <2>6. PICK f : f = call
    OBVIOUS
  <2>7. Searching'
    <3>1. \A k \in 1..Len(stack') : FrameIsRight(stack[k])'
      <4>1. FrameIsRight(f)'
        BY <1>1, <2>2, <2>6, FramesStay
      <4>2. \A k \in 1..Len(stack') : stack'[k] = f
        BY <2>5, <2>6
      <4> SUFFICES ASSUME NEW k \in 1..Len(stack') PROVE FrameIsRight(stack[k])'
        OBVIOUS
      <4>3. stack'[k] = f
        BY <4>2
      <4> QED
        BY <4>1, <4>3, FrameAt
    <3>2. ~V!contains(trusted, submitted[1])' /\ (options.strict \/ V!LeafAllowed(submitted[1], options))'
      BY <1>1, <1>6 DEF V!contains, V!Contains
    <3> QED
      BY <1>1, <2>5, <3>1, <3>2 DEF Searching
  <2>8. ASSUME NEW ch \in Acceptances, V!PathToRoot(ch) PROVE OnTheWay(ch)'
    <3>1. IsTarget(ch) /\ ch[1] = leaf
      <4>1. IsTarget(ch)
        BY <1>1, <1>6, <2>8, Targets DEF ValidationInv
      <4> QED
        BY <1>2, <4>1 DEF IsTarget
    <3>2. Len(ch) \in Nat /\ Len(ch) > 1 /\ ch \in Seq(V!Certs)
      BY <3>1 DEF IsTarget
    <3>3. SubSeq(ch, 1, 1) = <<leaf>>
      <4>1. PICK a, b, l : a = SubSeq(ch, 1, 1) /\ b = <<l>> /\ l = leaf
        OBVIOUS
      <4>2. a \in Seq(V!Certs) /\ Len(a) = 1 /\ a[1] = l /\ a = [j \in 1..Len(a) |-> a[j]]
        BY <3>1, <3>2, <4>1
      <4>3. b \in Seq(V!Certs) /\ Len(b) = 1 /\ b[1] = l /\ b = [j \in 1..Len(b) |-> b[j]]
        BY <1>2, <4>1
      <4>4. \A j \in 1..1 : a[j] = b[j]
        BY <4>2, <4>3
      <4>5. a = b
        BY <4>2, <4>3, <4>4
      <4> QED
        BY <4>1, <4>5
    <3>4. 1 < Len(ch) - 1 => 1 \in call.intermediateNums
      <4> SUFFICES ASSUME 1 < Len(ch) - 1 PROVE 1 \in call.intermediateNums
        OBVIOUS
      <4>1. 1 \in 1..(Len(ch) - 2) /\ 1 + 1 \in 1..Len(ch)
        BY <3>2
      <4>2. PICK r \in V!findPotentialParents(pool, leaf) : pool[r] = ch[1 + 1]
        BY <3>1, <4>1 DEF IsTarget, V!Issued
      <4>3. r \in DOMAIN pool
        BY <4>2 DEF V!findPotentialParents
      <4>4. r + 1 \in 1..Len(ch) /\ ch[r + 1] = ch[1 + 1]
        BY <3>1, <4>2, <4>3 DEF IsTarget
      <4>5. r + 1 = 1 + 1
        BY <3>1, <4>1, <4>4 DEF IsTarget
      <4>6. r = 1
        BY <1>1, <4>3, <4>5
      <4> QED
        BY <2>3, <4>2, <4>6
    <3>5. ~(1 < Len(ch) - 1) => \E r \in call.rootNums : trusted[r] = ch[Len(ch)]
      <4> SUFFICES ASSUME ~(1 < Len(ch) - 1) PROVE \E r \in call.rootNums : trusted[r] = ch[Len(ch)]
        OBVIOUS
      <4>1. Len(ch) = 2 /\ Len(ch) - 1 = 1 /\ Len(ch) - 1 + 1 = Len(ch)
        <5>1. PICK m \in Nat : m = Len(ch)
          BY <3>2
        <5>2. m = 2
          BY <3>2, <5>1
        <5> QED
          BY <5>1, <5>2
      <4>2. PICK r \in V!findPotentialParents(trusted, leaf) : trusted[r] = ch[Len(ch)]
        BY <3>1, <4>1 DEF IsTarget, V!Issued
      <4> QED
        BY <2>3, <4>2
    <3>6. Cardinality(Spent(ch, 1, call.rootNums)) \in Nat
      BY <1>1, <3>1, <3>2, SpentWithinCost
    <3>7. Spent(ch, Len(stack), V!Top.rootNums)' = Spent(ch, 1, call.rootNums)
      BY <1>1, <2>5 DEF Spent
    <3>8. sigChecks' < 1 + Cardinality(Spent(ch, 1, call.rootNums))
      BY <1>1, <3>6
    <3> QED
      BY <1>1, <2>3, <2>5, <3>2, <3>3, <3>4, <3>5, <3>7, <3>8 DEF OnTheWay
  <2>9. Descending'
    <3> SUFFICES ASSUME NEW ch \in Acceptances', V!PathToRoot(ch)' PROVE OnTheWay(ch)'
      BY DEF Descending
    <3>1. ch \in Acceptances /\ V!PathToRoot(ch)
      BY <1>1 DEF Acceptances, V!PathToRoot, V!Issued, V!contains, V!Contains
    <3> QED
      BY <2>8, <3>1
  <2>10. V!AcceptsPathsOnly'
    BY <1>6 DEF V!AcceptsPathsOnly, V!AcceptsExactlyThePaths, V!ChainsAreValid
  <2> QED
    BY <1>3, <1>6, <2>7, <2>9, <2>10 DEF ValidationInv
<1> QED
  BY <1>4, <1>5, <1>6 DEF V!StartValidation

LEMMA SearchIsRight ==
    ASSUME ValidationInv, V!ConsiderRoot \/ V!ConsiderIntermediate \/ V!Return
    PROVE  ValidationInv'
<1>1. /\ phase = "search" /\ UNCHANGED <<submitted, trusted, options, parsed, pool>>
      /\ Parsing /\ Searching /\ Descending
  BY DEF ValidationInv, V!ConsiderRoot, V!ConsiderIntermediate, V!Return
<1>2. phase' \in {"search", "done"} => Parsing'
  BY <1>1 DEF Parsing, Distinct
<1>3. phase' = "search" => V!AcceptsPathsOnly'
  BY DEF V!AcceptsPathsOnly, V!AcceptsExactlyThePaths, V!ChainsAreValid
<1>4. CASE V!ConsiderRoot
  <2>1. Searching' /\ Descending' /\ phase' = "search"
    BY <1>1, <1>4, ConsiderRootSearches, ConsiderRootDescends DEF V!ConsiderRoot
  <2> QED
    BY <1>2, <1>3, <2>1 DEF ValidationInv
<1>5. CASE V!ConsiderIntermediate
  <2>1. Searching' /\ Descending' /\ phase' = "search"
    BY <1>1, <1>5, ConsiderIntermediateSearches, ConsiderIntermediateDescends DEF V!ConsiderIntermediate
  <2> QED
    BY <1>2, <1>3, <2>1 DEF ValidationInv
<1>6. CASE V!Return
  <2>1. CASE Len(stack) > 1
    <3>1. Searching' /\ Descending' /\ phase' = "search"
      BY <1>1, <1>6, <2>1, ReturnSearches, ReturnDescends DEF V!Return
    <3> QED
      BY <1>2, <1>3, <3>1 DEF ValidationInv
  <2>2. CASE ~(Len(stack) > 1)
    <3>1. V!AcceptsPathsOnly' /\ phase' = "done"
      BY <1>1, <1>6, <2>2, ReturnFinishes
    <3> QED
      BY <1>2, <3>1 DEF ValidationInv, Searching, Descending
  <2> QED
    BY <2>1, <2>2
<1> QED
  BY <1>4, <1>5, <1>6

\* ValidateChain accepts what is a path to a trusted root and nothing else, and Verify returns
\* only such paths (cert_checker.go:166, verify.go:868), for every set of certificates, every
\* trusted roots, options and limit of signature checks.
THEOREM ValidationAcceptsPathsOnly == V!Spec => []AcceptsPathsOnly
<1>1. V!Init => ValidationInv
  BY ValidationAssumption, ValidationInit
<1>2. ValidationInv /\ [V!Next]_(V!vars) => ValidationInv'
  <2> SUFFICES ASSUME ValidationInv, [V!Next]_(V!vars) PROVE ValidationInv'
    OBVIOUS
  <2>1. CASE V!ParseCert
    BY <2>1, ParseCertIsRight
  <2>2. CASE V!StartValidation
    BY <2>2, StartValidationIsRight
  <2>3. CASE V!ConsiderRoot \/ V!ConsiderIntermediate \/ V!Return
    BY <2>3, SearchIsRight
  <2>4. CASE UNCHANGED V!vars
    <3>1. UNCHANGED <<submitted, trusted, options, parsed, pool, stack, cache, sigChecks, phase, result>>
      BY <2>4 DEF V!vars
    <3>2. Parsing' /\ Searching'
      <4>2. \A ch : IsPath(ch)' <=> IsPath(ch)
        BY <3>1, PathsStay
      <4>3. Parsing'
        BY <3>1 DEF ValidationInv, Parsing, Distinct
      <4>4. \A c \in DOMAIN cache : AreFound(cache[c]) => AreFound(cache[c])'
        BY <3>1, <4>2 DEF AreFound
      <4>5. \A k \in 1..Len(stack) : FrameIsRight(stack[k]) => FrameIsRight(stack[k])'
        <5> SUFFICES ASSUME NEW k \in 1..Len(stack), FrameIsRight(stack[k]) PROVE FrameIsRight(stack[k])'
          OBVIOUS
        <5>1. PICK f : f = stack[k]
          OBVIOUS
        <5>2. FrameIsRight(f)'
          BY <3>1, <5>1, FramesStay
        <5>3. f = stack'[k]
          BY <3>1, <5>1
        <5> QED
          BY <5>2, <5>3, FrameAt
      <4>6. ~V!contains(trusted, submitted[1]) => ~V!contains(trusted, submitted[1])'
        BY <3>1 DEF V!contains, V!Contains
      <4> QED
        BY <3>1, <4>3, <4>4, <4>5, <4>6 DEF ValidationInv, Searching
    <3>3. V!AcceptsPathsOnly'
      BY <3>1, AcceptableStays DEF ValidationInv, V!AcceptsPathsOnly, V!AcceptsExactlyThePaths, V!ChainsAreValid
    <3>4. Descending'
      <4>1. \A ch : (Reached(ch)' <=> Reached(ch)) /\ (OnTheWay(ch)' <=> OnTheWay(ch))
        BY <3>1 DEF Reached, OnTheWay, Spent, V!Top
      <4> QED
        BY <3>1, <4>1, AcceptableStays DEF ValidationInv, Descending, Acceptances
    <3> QED
      BY <3>2, <3>3, <3>4 DEF ValidationInv
  <2> QED
    BY <2>1, <2>2, <2>3, <2>4 DEF V!Next
<1>3. ValidationInv => AcceptsPathsOnly
  BY DEF ValidationInv, AcceptsPathsOnly
<1> QED
  BY <1>1, <1>2, <1>3, PTL DEF V!Spec

----------------------------------------------------------------------------
(* The load test.                                                          *)

Certificates == {Source[j].cert : j \in DOMAIN Source}

InLog(leaf) == \E j \in 1..Len(entries) : entries[j] = leaf

Takes(kind, chain) == H!Accepts(kind, chain) /\ chain.cert \in Certificates

\* The Log under test, which began with a tree of size base: all it has beyond are
\* certificates of the source, each once, and what is overdue is in the tree.
LogIsRight(base) ==
    /\ clock \in Nat /\ size \in Nat /\ base \in Nat
    /\ entries \in Seq(H!Known \cup [cert : Certificates, timestamp : Nat])
    /\ base <= size /\ size <= Len(entries)
    /\ \A i \in (base + 1)..Len(entries) : entries[i].cert \in Certificates
    /\ \A i, j \in (base + 1)..Len(entries) : entries[i].cert = entries[j].cert => i = j
    /\ \A i \in (size + 1)..Len(entries) : clock <= entries[i].timestamp + MMD

\* What the hammer remembers of it: the chain it sent first, heads, and leaves to be proved.
MemoryIsRight(base) ==
    /\ DOMAIN pos = H!Kinds /\ \A k \in H!Kinds : pos[k] \in 0..Len(Source) /\ (Len(Source) > 0 => pos[k] < Len(Source))
    /\ DOMAIN firstChain = H!Kinds /\ \A k \in H!Kinds : firstChain[k] = Unset \/ Takes(k, firstChain[k])
    /\ heads \in Seq({Unset} \cup Nat) /\ Len(heads) = SthCount
    /\ \A i \in 1..SthCount : heads[i] = Unset \/ (heads[i] \in Nat /\ base <= heads[i] /\ heads[i] <= size)
    /\ toProve \in Seq([leaf : H!Known \cup [cert : Certificates, timestamp : Nat], integrateBy : Nat])
    /\ \A i \in 1..Len(toProve) :
         InLog(toProve[i].leaf) /\ toProve[i].integrateBy = toProve[i].leaf.timestamp + MMD

\* The operation under way.
OpIsRight ==
    /\ op.at = "consistency" =>
         op.old \in Nat /\ op.sthNow \in Nat /\ op.old <= op.sthNow /\ op.sthNow <= size
    /\ op.at = "proof" =>
         op.size \in Nat /\ op.size <= size /\ \E i \in 1..op.size : entries[i] = op.submitted.leaf
    /\ op.at = "adding" =>
         /\ op.ep \in {"AddChain", "AddPreChain"} /\ op.kind = H!KindOf[op.ep]
         /\ \A i \in DOMAIN adders :
              /\ adders[i].at = "post" => Takes(op.kind, adders[i].chain)
              /\ adders[i].at = "append" => InLog(adders[i].leaf)
              /\ adders[i].at = "failed" => ~adders[i].refused

HammerInv(base) == LogIsRight(base) /\ MemoryIsRight(base) /\ OpIsRight /\ ~complaint

logVars == <<clock, entries, size>>
memoryVars == <<pos, firstChain, heads, toProve>>

----------------------------------------------------------------------------
LEMMA Remainders ==
    ASSUME NEW L \in Nat \ {0}
    PROVE  /\ \A a \in 0..(L - 1) : a % L = a /\ (a + L) % L = a
           /\ \A a \in Nat : a % L \in 0..(L - 1)
<1>1. ASSUME NEW a \in 0..(L - 1) PROVE a % L = a /\ (a + L) % L = a
  <2>1. a % L = a
    BY Z3
  <2>2. (a + L) % L = a
    BY Z3
  <2> QED
    BY <2>1, <2>2
<1>2. ASSUME NEW a \in Nat PROVE a % L \in 0..(L - 1)
  BY Z3
<1> QED
  BY <1>1, <1>2

\* processBatch finds a suitable entry of the source if there is one.
LEMMA BatchHasSuitable ==
    ASSUME H!WellFormed, NEW base, MemoryIsRight(base), NEW k \in H!Kinds, H!Generates(k)
    PROVE  /\ \E j \in DOMAIN Source : H!Entry(H!processBatch(k)) = Source[j]
           /\ H!Suitable(H!Entry(H!processBatch(k)), k)
           /\ Len(Source) \in Nat \ {0} /\ H!processBatch(k) \in Nat
<1> DEFINE L == Len(Source)
           window == pos[k]..(pos[k] + L - 1)
           good == {i \in window : H!Suitable(H!Entry(i), k)}
<1>1. L \in Nat /\ DOMAIN Source = 1..L
  BY DEF H!WellFormed
<1>2. PICK j \in DOMAIN Source : H!Suitable(Source[j], k)
  BY DEF H!Generates
<1>3. L \in Nat \ {0} /\ pos[k] \in 0..(L - 1) /\ j - 1 \in 0..(L - 1)
  BY <1>1, <1>2 DEF MemoryIsRight
<1> HIDE DEF L
<1>4. good # {}
  <2>1. CASE j - 1 >= pos[k]
    <3>1. j - 1 \in window /\ (j - 1) % L = j - 1
      <4>1. (j - 1) % L = j - 1
        BY <1>3, Remainders
      <4> QED
        BY <1>3, <2>1, <4>1
    <3>2. ((j - 1) % L) + 1 = j
      BY <1>1, <1>2, <3>1
    <3>3. H!Entry(j - 1) = Source[j]
      BY <3>2 DEF H!Entry, L
    <3> QED
      BY <1>2, <3>1, <3>3
  <2>2. CASE j - 1 < pos[k]
    <3>1. j - 1 + L \in window /\ (j - 1 + L) % L = j - 1
      <4>1. (j - 1 + L) % L = j - 1
        BY <1>3, Remainders
      <4>2. j \in Int /\ j - 1 + L \in window
        BY <1>3, <2>2, <1>1, <1>2
      <4> QED
        BY <4>1, <4>2
    <3>2. ((j - 1 + L) % L) + 1 = j
      BY <1>1, <1>2, <3>1
    <3>3. H!Entry(j - 1 + L) = Source[j]
      BY <3>2 DEF H!Entry, L
    <3> QED
      BY <1>2, <3>1, <3>3
  <2> QED
    BY <1>3, <2>1, <2>2
<1>5. good \in SUBSET Nat
  BY <1>3
<1>6. PICK i \in good : \A m \in good : i <= m
  BY <1>4, <1>5, FirstPosition
<1>7. i \in window /\ H!Suitable(H!Entry(i), k) /\ \A m \in pos[k]..(i - 1) : ~H!Suitable(H!Entry(m), k)
  <2> SUFFICES ASSUME NEW m \in pos[k]..(i - 1), H!Suitable(H!Entry(m), k) PROVE FALSE
    BY <1>6
  <2>1. m \in good /\ m < i /\ i \in Nat
    BY <1>3, <1>6
  <2> QED
    BY <1>3, <1>6, <2>1
<1>8. H!processBatch(k) \in window /\ H!Suitable(H!Entry(H!processBatch(k)), k)
  BY <1>7, Zenon DEF H!processBatch, L
<1>9. H!processBatch(k) \in Nat
  BY <1>3, <1>8
<1>10. (H!processBatch(k) % L) + 1 \in DOMAIN Source
  <2>1. H!processBatch(k) % L \in 0..(L - 1)
    BY <1>3, <1>9, Remainders
  <2> QED
    BY <1>1, <1>3, <2>1
<1> QED
  BY <1>3, <1>8, <1>9, <1>10 DEF H!Entry, L

\* The generator makes chains that the Log under test takes, and goes on.
LEMMA GeneratorIsRight ==
    ASSUME H!WellFormed, NEW base, MemoryIsRight(base), NEW k \in H!Kinds, H!Generates(k)
    PROVE  /\ Takes(k, H!NextChain(k)) /\ H!NextChain(k).len # 2
           /\ (H!processBatch(k) + 1) % Len(Source) \in 0..(Len(Source) - 1) /\ Len(Source) \in Nat \ {0}
<1>1. PICK j \in DOMAIN Source : H!Entry(H!processBatch(k)) = Source[j]
  BY BatchHasSuitable
<1>2. H!Suitable(Source[j], k) /\ Len(Source) \in Nat \ {0} /\ H!processBatch(k) \in Nat
  BY <1>1, BatchHasSuitable
<1>3. H!NextChain(k) = H!ChainOf(Source[j])
  BY <1>1 DEF H!NextChain
<1>4. Source[j].chain \in Nat /\ Source[j].chain # 1
  BY DEF H!WellFormed
<1>5. /\ Takes(k, H!NextChain(k)) /\ H!NextChain(k).len # 2
  BY <1>2, <1>3, <1>4 DEF Takes, H!ChainOf, H!Accepts, H!Suitable, Certificates
<1>6. (H!processBatch(k) + 1) % Len(Source) \in 0..(Len(Source) - 1)
  <2>1. H!processBatch(k) + 1 \in Nat
    BY <1>2
  <2> QED
    BY <1>2, <2>1, Remainders
<1> QED
  BY <1>2, <1>5, <1>6

\* The tree does not reach what the hammer takes to be out of range.
LEMMA TreeIsBounded ==
    ASSUME H!WellFormed, NEW base, LogIsRight(base)
    PROVE  size <= base + Len(Source)
<1> DEFINE S == (base + 1)..Len(entries)
           T == 1..Len(Source)
           f == [i \in S |-> CHOOSE j \in T : Source[j].cert = entries[i].cert]
<1>1. /\ Len(Source) \in Nat /\ DOMAIN Source = T /\ Len(entries) \in Nat /\ base \in Nat
      /\ size \in Nat /\ size <= Len(entries) /\ base <= Len(entries)
  BY DEF H!WellFormed, LogIsRight
<1>2. \A i \in S : f[i] \in T /\ Source[f[i]].cert = entries[i].cert
  <2> SUFFICES ASSUME NEW i \in S PROVE f[i] \in T /\ Source[f[i]].cert = entries[i].cert
    OBVIOUS
  <2>1. \E j \in T : Source[j].cert = entries[i].cert
    BY <1>1 DEF LogIsRight, Certificates
  <2> QED
    BY <2>1
<1>3. f \in [S -> T]
  BY <1>2
<1>4. \A i, j \in S : f[i] = f[j] => i = j
  BY <1>2 DEF LogIsRight
<1>5. IsFiniteSet(T) /\ Cardinality(T) = Len(Source) /\ IsFiniteSet(S) /\ Cardinality(S) = Len(entries) - base
  <2>1. IsFiniteSet(T) /\ Cardinality(T) = IF 1 > Len(Source) THEN 0 ELSE Len(Source) - 1 + 1
    <3>1. 1 \in Int /\ Len(Source) \in Int
      BY <1>1
    <3> QED
      BY <3>1, FS_Interval
  <2>2. IsFiniteSet(S) /\ Cardinality(S) = IF base + 1 > Len(entries) THEN 0 ELSE Len(entries) - (base + 1) + 1
    <3>1. base + 1 \in Int /\ Len(entries) \in Int
      BY <1>1
    <3> QED
      BY <3>1, FS_Interval
  <2> QED
    BY <1>1, <2>1, <2>2
<1> HIDE DEF f
<1>6. f \in Injection(S, T)
  BY <1>3, <1>4 DEF Injection, IsInjective
<1> HIDE DEF S, T
<1>7. Cardinality(S) <= Cardinality(T)
  BY <1>5, <1>6, FS_Injection
<1> QED
  BY <1>1, <1>5, <1>7

----------------------------------------------------------------------------
\* The Log only grows.
Grows ==
    /\ size' \in Nat /\ size <= size' /\ Len(entries') \in Nat /\ Len(entries) <= Len(entries')
    /\ \A j \in 1..Len(entries) : entries'[j] = entries[j]

LEMMA StaysInLog ==
    ASSUME NEW base, LogIsRight(base), Grows
    PROVE  \A leaf : InLog(leaf) => InLog(leaf)'
<1> SUFFICES ASSUME NEW leaf, InLog(leaf) PROVE InLog(leaf)'
  OBVIOUS
<1>1. PICK j \in 1..Len(entries) : entries[j] = leaf
  BY DEF InLog
<1>2. j \in 1..Len(entries') /\ entries'[j] = leaf
  BY <1>1 DEF Grows, LogIsRight
<1> QED
  BY <1>2 DEF InLog

LEMMA MemoryStays ==
    ASSUME NEW base, LogIsRight(base), MemoryIsRight(base), UNCHANGED memoryVars, Grows
    PROVE  MemoryIsRight(base)'
<1>1. \A i \in 1..Len(toProve) : InLog(toProve[i].leaf)'
  <2> SUFFICES ASSUME NEW i \in 1..Len(toProve) PROVE InLog(toProve[i].leaf)'
    OBVIOUS
  <2>1. PICK leaf : leaf = toProve[i].leaf
    OBVIOUS
  <2>2. InLog(leaf)'
    BY <2>1, StaysInLog DEF MemoryIsRight
  <2> QED
    BY <2>1, <2>2 DEF InLog, memoryVars
<1>2. \A i \in 1..SthCount : heads'[i] = Unset \/ (heads'[i] \in Nat /\ base <= heads'[i] /\ heads'[i] <= size')
  <2> SUFFICES ASSUME NEW i \in 1..SthCount, heads[i] # Unset
               PROVE  heads[i] \in Nat /\ base <= heads[i] /\ heads[i] <= size'
    BY DEF memoryVars
  <2>1. heads[i] \in Nat /\ base <= heads[i] /\ heads[i] <= size /\ size \in Nat
    BY DEF MemoryIsRight, LogIsRight
  <2> QED
    BY <2>1 DEF Grows
<1>3. \A k \in H!Kinds : Takes(k, firstChain[k]) => Takes(k, firstChain[k])'
  BY DEF Takes, memoryVars, H!Accepts
<1> QED
  BY <1>1, <1>2, <1>3 DEF MemoryIsRight, memoryVars

LEMMA OpStays ==
    ASSUME NEW base, LogIsRight(base), OpIsRight, UNCHANGED <<op, adders>>, Grows
    PROVE  OpIsRight'
<1>1. op.at = "consistency" => op.sthNow <= size'
  BY DEF OpIsRight, LogIsRight, Grows
<1>2. ASSUME op.at = "proof"
      PROVE  op.size <= size' /\ \E i \in 1..op.size : entries'[i] = op.submitted.leaf
  <2>1. PICK i \in 1..op.size : entries[i] = op.submitted.leaf
    BY <1>2 DEF OpIsRight
  <2>2. op.size \in Nat /\ op.size <= size /\ size \in Nat /\ size <= Len(entries) /\ Len(entries) \in Nat
    BY <1>2 DEF OpIsRight, LogIsRight
  <2>3. i \in 1..Len(entries)
    BY <2>2
  <2> QED
    BY <2>1, <2>2, <2>3 DEF Grows
<1>3. ASSUME op.at = "adding", NEW i \in DOMAIN adders, adders[i].at = "append"
      PROVE  InLog(adders[i].leaf)'
  <2>1. PICK leaf : leaf = adders[i].leaf
    OBVIOUS
  <2>2. InLog(leaf)'
    BY <1>3, <2>1, StaysInLog DEF OpIsRight
  <2> QED
    BY <2>1, <2>2 DEF InLog
<1>4. \A k, chain : Takes(k, chain) => Takes(k, chain)'
  BY DEF Takes, H!Accepts
<1> QED
  BY <1>1, <1>2, <1>3, <1>4 DEF OpIsRight

LEMMA NoGrowth ==
    ASSUME NEW base, LogIsRight(base), UNCHANGED logVars
    PROVE  Grows /\ LogIsRight(base)'
<1>1. Grows
  BY DEF Grows, LogIsRight, logVars
<1>2. LogIsRight(base)'
  BY DEF LogIsRight, logVars
<1> QED
  BY <1>1, <1>2

\* Between the parts of an operation there is nothing to be kept.
Between == op' = H!Idle \/ (\E ep \in H!Entrypoints : op' = [at |-> ep]) \/ (\E ep : op' = [at |-> "invalid", ep |-> ep])

LEMMA BetweenIsRight ==
    ASSUME Between
    PROVE  OpIsRight'
<1>1. op'.at \notin {"consistency", "proof", "adding"}
  BY DEF Between, H!Idle, H!Entrypoints
<1> QED
  BY <1>1 DEF OpIsRight

LEMMA FailsBetween ==
    ASSUME ~complaint, NEW ep \in H!Entrypoints, NEW c, ~c, H!Fails(ep, c)
    PROVE  Between /\ ~complaint'
BY DEF H!Fails, Between

LEMMA DoneBetween ==
    ASSUME ~complaint, H!Done \/ H!Stops
    PROVE  Between /\ ~complaint'
BY DEF H!Done, H!Stops, Between

LEMMA ExpectBetween ==
    ASSUME ~complaint, NEW refused, refused, H!Expect(refused)
    PROVE  Between /\ ~complaint'
BY DEF H!Expect, H!Done, Between

\* Steps that leave alone the Log and what the hammer remembers of it.
LEMMA OnlyOp ==
    ASSUME NEW base, HammerInv(base), UNCHANGED logVars, UNCHANGED memoryVars, OpIsRight', ~complaint'
    PROVE  HammerInv(base)'
BY NoGrowth, MemoryStays DEF HammerInv

LEMMA OnlyBetween ==
    ASSUME NEW base, HammerInv(base), UNCHANGED logVars, UNCHANGED memoryVars, Between /\ ~complaint'
    PROVE  HammerInv(base)'
BY OnlyOp, BetweenIsRight

\* The loop of HammerCTLog, and the environment.
LEMMA LoopIsRight ==
    ASSUME H!WellFormed, NEW base, HammerInv(base),
           H!chooseOp \/ H!Return \/ H!ContextDone \/ H!getRoots \/ H!Cancel \/ \E k \in H!Kinds : H!Drain(k)
    PROVE  HammerInv(base)'
<1> USE DEF H!genVars, H!logVars, H!chainVars, H!opVars, H!endVars, logVars, memoryVars
<1>1. CASE H!chooseOp
  <2>1. Between
    BY <1>1 DEF H!chooseOp, H!WellFormed, Between
  <2> QED
    BY <1>1, <2>1, OnlyBetween DEF H!chooseOp, HammerInv
<1>2. CASE H!Return \/ H!Cancel \/ \E k \in H!Kinds : H!Drain(k)
  <2>1. UNCHANGED <<op, adders>> /\ UNCHANGED logVars /\ UNCHANGED memoryVars /\ complaint' = complaint
    BY <1>2 DEF H!Return, H!Cancel, H!Drain
  <2>2. OpIsRight'
    BY <2>1, OpStays, NoGrowth DEF HammerInv
  <2> QED
    BY <2>1, <2>2, OnlyOp DEF HammerInv
<1>3. CASE H!ContextDone
  <2>1. Between /\ ~complaint'
    BY <1>3, DoneBetween DEF H!ContextDone, HammerInv
  <2> QED
    BY <1>3, <2>1, OnlyBetween DEF H!ContextDone
<1>4. CASE H!getRoots
  <2>1. CASE H!Done
    BY <1>4, <2>1, DoneBetween, OnlyBetween DEF H!getRoots, HammerInv
  <2>2. CASE op.at = "GetRoots" /\ H!RequestFails(op.at)
    <3>1. Between /\ ~complaint'
      BY <2>2, FailsBetween DEF H!RequestFails, H!Entrypoints, HammerInv
    <3> QED
      BY <1>4, <3>1, OnlyBetween DEF H!getRoots
  <2> QED
    BY <1>4, <2>1, <2>2 DEF H!getRoots
<1> QED
  BY <1>1, <1>2, <1>3, <1>4

\* The Log merges, and its clock goes on while nothing is overdue.
LEMMA LogStaysRight ==
    ASSUME H!WellFormed, NEW base, HammerInv(base), H!Merge \/ H!Tick
    PROVE  HammerInv(base)'
<1> USE DEF H!genVars, H!chainVars, H!opVars, H!endVars, memoryVars
<1>1. UNCHANGED <<op, adders>> /\ UNCHANGED memoryVars /\ complaint' = complaint /\ entries' = entries
  BY DEF H!Merge, H!Tick
<1>2. Grows
  BY <1>1 DEF H!Merge, H!Tick, Grows, HammerInv, LogIsRight
<1>3. LogIsRight(base)'
  <2>1. CASE H!Merge
    BY <2>1, <1>1 DEF H!Merge, HammerInv, LogIsRight
  <2>2. CASE H!Tick
    <3>1. \A i \in (size + 1)..Len(entries) : entries[i].timestamp + MMD \in Nat
      <4> SUFFICES ASSUME NEW i \in (size + 1)..Len(entries) PROVE entries[i].timestamp + MMD \in Nat
        OBVIOUS
      <4>1. entries[i] \in H!Known \cup [cert : Certificates, timestamp : Nat]
        BY DEF HammerInv, LogIsRight
      <4>2. entries[i].timestamp \in Nat
        BY <4>1 DEF H!WellFormed
      <4>3. MMD \in Nat
        BY DEF H!WellFormed
      <4> QED
        BY <4>2, <4>3
    <3>2. \A i \in (size + 1)..Len(entries) : clock + 1 <= entries[i].timestamp + MMD
      BY <2>2, <3>1 DEF H!Tick, HammerInv, LogIsRight
    <3> QED
      BY <2>2, <1>1, <3>2 DEF H!Tick, HammerInv, LogIsRight
  <2> QED
    BY <2>1, <2>2
<1>4. MemoryIsRight(base)' /\ OpIsRight'
  BY <1>1, <1>2, MemoryStays, OpStays DEF HammerInv
<1> QED
  BY <1>1, <1>3, <1>4 DEF HammerInv

\* Heads that were got stay behind the one of the Log.
LEMMA HeadsStayRight ==
    ASSUME H!WellFormed, NEW base, HammerInv(base), H!getSTH
    PROVE  HammerInv(base)'
<1> USE DEF H!genVars, H!logVars, H!chainVars, logVars
<1>1. Between /\ ~complaint'
  <2>1. CASE H!Done
    BY <2>1, DoneBetween DEF HammerInv
  <2>2. CASE H!RequestFails("GetSTH")
    BY <2>2, FailsBetween DEF H!RequestFails, H!Entrypoints, HammerInv
  <2> QED
    BY <2>1, <2>2 DEF H!getSTH
<1>2. UNCHANGED logVars /\ UNCHANGED <<pos, firstChain, toProve>>
  BY DEF H!getSTH
<1>3. PICK head \in {Unset, size} : heads' = <<head>> \o H!Front(heads)
  BY DEF H!getSTH
<1>4. /\ heads \in Seq({Unset} \cup Nat) /\ Len(heads) = SthCount /\ SthCount \in Nat \ {0}
      /\ size \in Nat /\ base \in Nat /\ base <= size
  BY DEF H!WellFormed, HammerInv, MemoryIsRight, LogIsRight
<1>5. /\ H!Front(heads) \in Seq({Unset} \cup Nat) /\ Len(H!Front(heads)) = SthCount - 1
      /\ \A i \in 1..(SthCount - 1) : H!Front(heads)[i] = heads[i]
  BY <1>4 DEF H!Front
<1>6. /\ heads' \in Seq({Unset} \cup Nat) /\ Len(heads') = SthCount
      /\ heads'[1] = head /\ \A i \in 2..SthCount : heads'[i] = heads[i - 1]
  <2>1. PICK f : f = H!Front(heads)
    OBVIOUS
  <2> QED
    BY <1>3, <1>4, <1>5, <2>1
<1>7. \A i \in 1..SthCount : heads'[i] = Unset \/ (heads'[i] \in Nat /\ base <= heads'[i] /\ heads'[i] <= size)
  <2> SUFFICES ASSUME NEW i \in 1..SthCount, heads'[i] # Unset
               PROVE  heads'[i] \in Nat /\ base <= heads'[i] /\ heads'[i] <= size
    OBVIOUS
  <2>1. CASE i = 1
    BY <1>4, <1>6, <2>1
  <2>2. CASE i # 1
    <3>1. i \in 2..SthCount /\ i - 1 \in 1..SthCount
      BY <1>4, <2>2
    <3> QED
      BY <1>6, <3>1 DEF HammerInv, MemoryIsRight
  <2> QED
    BY <2>1, <2>2
<1>8. MemoryIsRight(base)'
  <2>1. \A k \in H!Kinds : Takes(k, firstChain[k]) => Takes(k, firstChain[k])'
    BY <1>2 DEF Takes, H!Accepts
  <2>2. \A i \in 1..Len(toProve) : InLog(toProve[i].leaf)'
    BY <1>2 DEF HammerInv, MemoryIsRight, InLog
  <2> QED
    BY <1>2, <1>6, <1>7, <2>1, <2>2 DEF HammerInv, MemoryIsRight
<1> QED
  BY <1>1, <1>2, <1>8, NoGrowth, BetweenIsRight DEF HammerInv

\* An earlier head is compared with the current one.
LEMMA ConsistencyIsRight ==
    ASSUME H!WellFormed, NEW base, HammerInv(base), H!chooseSTHs \/ H!getSTHConsistency
    PROVE  HammerInv(base)'
<1> USE DEF H!genVars, H!logVars, H!chainVars, logVars, memoryVars
<1>1. UNCHANGED logVars /\ UNCHANGED memoryVars
  BY DEF H!chooseSTHs, H!getSTHConsistency
<1> DEFINE Compares(old) ==
             /\ \E invented : op' = [at |-> "consistency", old |-> old, sthNow |-> size, invented |-> invented]
             /\ complaint' = complaint
<1>2. CASE H!Done
  BY <1>1, <1>2, DoneBetween, OnlyBetween DEF HammerInv
<1>3. CASE H!RequestFails("GetSTHConsistency")
  <2>1. Between /\ ~complaint'
    BY <1>3, FailsBetween DEF H!RequestFails, H!Entrypoints, HammerInv
  <2> QED
    BY <1>1, <2>1, OnlyBetween
<1>4. ASSUME NEW old \in Nat, old <= size, Compares(old) PROVE HammerInv(base)'
  <2>1. OpIsRight'
    BY <1>4, <1>1 DEF OpIsRight, HammerInv, LogIsRight
  <2> QED
    BY <1>1, <1>4, <2>1, OnlyOp DEF HammerInv
<1>5. CASE H!chooseSTHs
  <2>1. CASE \E which \in 1..SthCount : H!Needs(which, size) = <<>> /\ Compares(heads[which])
    <3>1. PICK which \in 1..SthCount : H!Needs(which, size) = <<>> /\ Compares(heads[which])
      BY <2>1
    <3>2. heads[which] # Unset
      BY <3>1 DEF H!Needs
    <3>3. heads[which] \in Nat /\ heads[which] <= size
      BY <3>2 DEF HammerInv, MemoryIsRight
    <3> QED
      BY <3>1, <3>3, <1>4
  <2>2. CASE \E old \in 1..size : Compares(old)
    <3>1. PICK old \in 1..size : Compares(old)
      BY <2>2
    <3>2. old \in Nat /\ old <= size
      BY DEF HammerInv, LogIsRight
    <3> QED
      BY <3>1, <3>2, <1>4
  <2>3. H!Done \/ H!RequestFails("GetSTHConsistency")
        \/ (\E which \in 1..SthCount : H!Needs(which, size) = <<>> /\ Compares(heads[which]))
        \/ (\E old \in 1..size : Compares(old))
    BY <1>5, Zenon DEF H!chooseSTHs
  <2> QED
    BY <1>2, <1>3, <2>1, <2>2, <2>3
<1>6. CASE H!getSTHConsistency
  <2>1. H!AnswersConsistency(op.old, op.sthNow)
    BY <1>6 DEF H!getSTHConsistency, H!AnswersConsistency, HammerInv, OpIsRight
  <2> QED
    BY <1>2, <1>3, <1>6, <2>1 DEF H!getSTHConsistency
<1> QED
  BY <1>5, <1>6

\* A leaf whose time has come is in the tree, and its proof is answered.
LEMMA ProofIsRight ==
    ASSUME H!WellFormed, NEW base, HammerInv(base), H!ProofHead
    PROVE  HammerInv(base)'
<1> USE DEF H!genVars, H!logVars, H!chainVars, logVars, memoryVars
<1>1. UNCHANGED logVars /\ UNCHANGED memoryVars
  BY DEF H!ProofHead
<1>2. CASE H!Done
  BY <1>1, <1>2, DoneBetween, OnlyBetween DEF HammerInv
<1>3. CASE H!RequestFails("GetProofByHash")
  <2>1. Between /\ ~complaint'
    BY <1>3, FailsBetween DEF H!RequestFails, H!Entrypoints, HammerInv
  <2> QED
    BY <1>1, <2>1, OnlyBetween
<1>4. CASE /\ H!oldestIfMMDPassed # Unset
           /\ op' = [at |-> "proof", submitted |-> H!oldestIfMMDPassed, size |-> size]
           /\ complaint' = complaint
  <2>1. /\ H!oldestIfMMDPassed = toProve[1] /\ clock > toProve[1].integrateBy
        /\ toProve \in Seq([leaf : H!Known \cup [cert : Certificates, timestamp : Nat], integrateBy : Nat])
        /\ toProve # <<>>
    BY <1>4 DEF H!oldestIfMMDPassed, HammerInv, MemoryIsRight
  <2>2. 1 \in 1..Len(toProve)
    BY <2>1
  <2>3. PICK leaf : leaf = toProve[1].leaf
    OBVIOUS
  <2>4. InLog(leaf) /\ toProve[1].integrateBy = leaf.timestamp + MMD
    BY <2>2, <2>3 DEF HammerInv, MemoryIsRight
  <2>5. PICK j \in 1..Len(entries) : entries[j] = leaf
    BY <2>4 DEF InLog
  <2>6. leaf.timestamp + MMD \in Nat
    <3> DEFINE Items == [leaf : H!Known \cup [cert : Certificates, timestamp : Nat], integrateBy : Nat]
    <3>1. toProve[1] \in Items
      <4>1. toProve \in Seq(Items)
        BY <2>1
      <4> HIDE DEF Items
      <4> QED
        BY <2>2, <4>1
    <3>2. toProve[1].integrateBy \in Nat
      BY <3>1
    <3> QED
      BY <2>4, <3>2
  <2>7. j \in 1..size
    <3>1. j \notin (size + 1)..Len(entries)
      BY <2>1, <2>4, <2>5, <2>6 DEF HammerInv, LogIsRight
    <3> QED
      BY <3>1 DEF HammerInv, LogIsRight
  <2>8. OpIsRight'
    BY <1>1, <1>4, <2>1, <2>3, <2>5, <2>7 DEF OpIsRight, HammerInv, LogIsRight
  <2> QED
    BY <1>1, <1>4, <2>8, OnlyOp DEF HammerInv
<1> QED
  BY <1>2, <1>3, <1>4 DEF H!ProofHead

LEMMA DropIsRight ==
    ASSUME H!WellFormed, NEW base, HammerInv(base), H!getProofByHash
    PROVE  HammerInv(base)'
<1> USE DEF H!genVars, H!logVars, H!chainVars, logVars
<1>1. UNCHANGED logVars /\ UNCHANGED <<pos, firstChain, heads>>
  BY DEF H!getProofByHash
<1>2. op.at = "proof" /\ H!AnswersProof(op.submitted.leaf, op.size)
  BY DEF H!getProofByHash, H!AnswersProof, HammerInv, OpIsRight
<1>3. CASE H!RequestFails("GetProofByHash") /\ toProve' = toProve
  <2>1. Between /\ ~complaint'
    BY <1>3, FailsBetween DEF H!RequestFails, H!Entrypoints, HammerInv
  <2> QED
    BY <1>1, <1>3, <2>1, OnlyBetween DEF memoryVars
<1>4. CASE toProve' = Tail(toProve) /\ H!Done
  <2>1. Between /\ ~complaint'
    BY <1>4, DoneBetween DEF HammerInv
  <2> DEFINE Items == [leaf : H!Known \cup [cert : Certificates, timestamp : Nat], integrateBy : Nat]
  <2>2. toProve \in Seq(Items)
    BY DEF HammerInv, MemoryIsRight
  <2>3. /\ toProve' \in Seq(Items)
        /\ \A i \in 1..Len(toProve') : i + 1 \in 1..Len(toProve) /\ toProve'[i] = toProve[i + 1]
    <3> HIDE DEF Items
    <3>1. CASE toProve = <<>>
      BY <1>4, <2>2, <3>1
    <3>2. CASE toProve # <<>>
      BY <1>4, <2>2, <3>2
    <3> QED
      BY <3>1, <3>2
  <2>4. MemoryIsRight(base)'
    <3>1. \A k \in H!Kinds : Takes(k, firstChain[k]) => Takes(k, firstChain[k])'
      BY <1>1 DEF Takes, H!Accepts
    <3>2. \A i \in 1..Len(toProve') :
            /\ \E j \in 1..Len(entries) : entries[j] = toProve'[i].leaf
            /\ toProve'[i].integrateBy = toProve'[i].leaf.timestamp + MMD
      <4> SUFFICES ASSUME NEW i \in 1..Len(toProve')
                   PROVE  /\ \E j \in 1..Len(entries) : entries[j] = toProve'[i].leaf
                          /\ toProve'[i].integrateBy = toProve'[i].leaf.timestamp + MMD
        OBVIOUS
      <4>1. PICK m \in 1..Len(toProve) : toProve'[i] = toProve[m]
        BY <2>3
      <4>2. InLog(toProve[m].leaf) /\ toProve[m].integrateBy = toProve[m].leaf.timestamp + MMD
        BY DEF HammerInv, MemoryIsRight
      <4> QED
        BY <4>1, <4>2 DEF InLog
    <3> QED
      BY <1>1, <2>3, <3>1, <3>2 DEF HammerInv, MemoryIsRight, InLog
  <2> QED
    BY <1>1, <2>1, <2>4, NoGrowth, BetweenIsRight DEF HammerInv
<1> QED
  BY <1>2, <1>3, <1>4 DEF H!getProofByHash

\* The entries below a head are there.
LEMMA EntriesAreRight ==
    ASSUME H!WellFormed, NEW base, HammerInv(base), H!getEntries
    PROVE  HammerInv(base)'
<1> USE DEF H!genVars, H!logVars, H!chainVars, logVars, memoryVars
<1>1. UNCHANGED logVars /\ UNCHANGED memoryVars
  BY DEF H!getEntries
<1>2. CASE H!Done
  BY <1>1, <1>2, DoneBetween, OnlyBetween DEF HammerInv
<1>3. CASE H!RequestFails("GetEntries")
  <2>1. Between /\ ~complaint'
    BY <1>3, FailsBetween DEF H!RequestFails, H!Entrypoints, HammerInv
  <2> QED
    BY <1>1, <2>1, OnlyBetween
<1>4. ASSUME H!lastTreeSize > 0, NEW first \in 0..(H!lastTreeSize - 1), NEW n \in GetEntriesCounts
      PROVE  H!AnswersEntries(first,
               IF ~OversizedGetEntries /\ first + n >= H!lastTreeSize THEN H!lastTreeSize - 1 ELSE first + n)
  <2>1. H!lastTreeSize \in Nat /\ H!lastTreeSize <= size /\ size \in Nat /\ n \in Nat
    BY DEF H!lastTreeSize, HammerInv, LogIsRight, MemoryIsRight, H!WellFormed
  <2> QED
    BY <1>4, <2>1 DEF H!AnswersEntries
<1>5. H!Done \/ H!RequestFails("GetEntries")
  BY <1>4, Zenon DEF H!getEntries
<1> QED
  BY <1>2, <1>3, <1>5

\* Requests beyond the tree are refused.
LEMMA InvalidIsRefused ==
    ASSUME H!WellFormed, NEW base, HammerInv(base),
           H!getSTHConsistencyInvalid \/ H!getProofByHashInvalid \/ H!getEntriesInvalid
    PROVE  HammerInv(base)'
<1> USE DEF H!genVars, H!logVars, H!chainVars, logVars, memoryVars
<1>1. UNCHANGED logVars /\ UNCHANGED memoryVars /\ ~complaint
  BY DEF H!getSTHConsistencyInvalid, H!getProofByHashInvalid, H!getEntriesInvalid, HammerInv
<1>2. CASE H!Done \/ H!Stops
  BY <1>1, <1>2, DoneBetween, OnlyBetween
<1>3. ASSUME NEW refused, refused, H!Expect(refused) PROVE HammerInv(base)'
  BY <1>1, <1>3, ExpectBetween, OnlyBetween
<1>4. ASSUME H!lastTreeSize > 0
      PROVE  /\ H!lastTreeSize \in Nat /\ InvalidStretch \in Nat /\ size \in Nat
             /\ size <= H!lastTreeSize + InvalidStretch - 4
  <2>1. heads[1] # Unset /\ H!lastTreeSize = heads[1] /\ SthCount \in Nat /\ SthCount > 0
    BY <1>4 DEF H!lastTreeSize, H!WellFormed
  <2>2. heads[1] \in Nat /\ base <= heads[1]
    BY <2>1 DEF HammerInv, MemoryIsRight
  <2>3. size <= base + Len(Source) /\ size \in Nat /\ base \in Nat
    BY TreeIsBounded DEF HammerInv, LogIsRight
  <2> QED
    BY <2>1, <2>2, <2>3 DEF H!WellFormed
<1>5. CASE H!getSTHConsistencyInvalid
  <2>1. ASSUME H!lastTreeSize > 0
        PROVE  /\ ~H!AnswersConsistency(H!lastTreeSize + InvalidStretch, H!lastTreeSize + InvalidStretch + 100)
               /\ ~H!AnswersConsistency(-3, -1)
    <3>1. H!lastTreeSize \in Nat /\ InvalidStretch \in Nat /\ size \in Nat
          /\ size <= H!lastTreeSize + InvalidStretch - 4
      BY <1>4, <2>1
    <3> QED
      BY <3>1 DEF H!AnswersConsistency
  <2>2. ASSUME NEW which \in 1..SthCount, H!Needs(which, size) = <<>>
        PROVE  ~H!AnswersConsistency(size, heads[which])
    <3>1. heads[which] # Unset /\ heads[which] # size
      BY <2>2 DEF H!Needs
    <3> QED
      BY <3>1 DEF H!AnswersConsistency, HammerInv, MemoryIsRight, LogIsRight
  <2>3. CASE \E which \in 1..SthCount :
               IF H!Needs(which, size) # <<>> THEN H!Done ELSE H!Expect(~H!AnswersConsistency(size, heads[which]))
    BY <1>2, <1>3, <2>2, <2>3, Zenon
  <2>4. CASE H!lastTreeSize > 0 /\
               (H!Expect(~H!AnswersConsistency(H!lastTreeSize + InvalidStretch, H!lastTreeSize + InvalidStretch + 100))
                \/ H!Expect(~H!AnswersConsistency(-3, -1)))
    BY <1>3, <2>1, <2>4, Zenon
  <2>5. \/ H!Done \/ H!Stops
        \/ \E which \in 1..SthCount :
               IF H!Needs(which, size) # <<>> THEN H!Done ELSE H!Expect(~H!AnswersConsistency(size, heads[which]))
        \/ H!lastTreeSize > 0 /\
               (H!Expect(~H!AnswersConsistency(H!lastTreeSize + InvalidStretch, H!lastTreeSize + InvalidStretch + 100))
                \/ H!Expect(~H!AnswersConsistency(-3, -1)))
    BY <1>5, Zenon DEF H!getSTHConsistencyInvalid
  <2> QED
    BY <1>2, <2>3, <2>4, <2>5, Zenon
<1>6. CASE H!getProofByHashInvalid
  <2>1. ASSUME H!lastTreeSize > 0, NEW leaf PROVE ~H!AnswersProof(leaf, H!lastTreeSize + InvalidStretch)
    <3>1. H!lastTreeSize \in Nat /\ InvalidStretch \in Nat /\ size \in Nat
          /\ size <= H!lastTreeSize + InvalidStretch - 4
      BY <1>4, <2>1
    <3> QED
      BY <3>1 DEF H!AnswersProof
  <2>2. CASE H!lastTreeSize > 0 /\ H!Expect(~H!AnswersProof(H!oldestIfMMDPassed.leaf, H!lastTreeSize + InvalidStretch))
    BY <1>3, <2>1, <2>2, Zenon
  <2>3. CASE H!Expect(TRUE)
    BY <1>3, <2>3, Zenon
  <2> QED
    BY <1>2, <1>6, <2>2, <2>3, Zenon DEF H!getProofByHashInvalid
<1>7. CASE H!getEntriesInvalid
  <2>1. ASSUME H!lastTreeSize > 0,
               NEW r \in {<<H!lastTreeSize + InvalidStretch - 4, H!lastTreeSize + InvalidStretch>>, <<-2, 10>>, <<10, 5>>}
        PROVE  ~H!AnswersEntries(r[1], r[2])
    <3>1. H!lastTreeSize \in Nat /\ InvalidStretch \in Nat /\ size \in Nat
          /\ size <= H!lastTreeSize + InvalidStretch - 4
      BY <1>4, <2>1
    <3> QED
      BY <3>1 DEF H!AnswersEntries
  <2>2. CASE H!Done
    BY <1>2, <2>2
  <2>3. CASE H!lastTreeSize > 0 /\ \E r \in {<<H!lastTreeSize + InvalidStretch - 4, H!lastTreeSize + InvalidStretch>>, <<-2, 10>>, <<10, 5>>} :
               H!Expect(~H!AnswersEntries(r[1], r[2]))
    BY <1>3, <2>1, <2>3, Zenon
  <2> QED
    BY <1>7, <2>2, <2>3, Zenon DEF H!getEntriesInvalid
<1> QED
  BY <1>5, <1>6, <1>7

\* What the generator gives is remembered, or sent instead of what it should be.
LEMMA MemoryOfChains ==
    ASSUME H!WellFormed, NEW base, HammerInv(base), NEW k \in H!Kinds, H!Generates(k), H!Generate(k),
           firstChain' = firstChain \/ firstChain' = [firstChain EXCEPT ![k] = IF @ = Unset THEN H!NextChain(k) ELSE @],
           UNCHANGED logVars, UNCHANGED <<heads, toProve>>
    PROVE  MemoryIsRight(base)'
<1>1. MemoryIsRight(base)
  BY DEF HammerInv
<1>2. PICK p \in 0..(Len(Source) - 1) : p = (H!processBatch(k) + 1) % Len(Source) /\ Len(Source) \in Nat \ {0}
  BY <1>1, GeneratorIsRight
<1>3. PICK chain : chain = H!NextChain(k) /\ Takes(k, chain)
  BY <1>1, GeneratorIsRight
<1>4. pos' = [pos EXCEPT ![k] = p]
  BY <1>2 DEF H!Generate
<1>5. DOMAIN pos' = H!Kinds /\ \A m \in H!Kinds : pos'[m] \in 0..Len(Source) /\ (Len(Source) > 0 => pos'[m] < Len(Source))
  BY <1>1, <1>2, <1>4 DEF MemoryIsRight
<1>6. firstChain' = firstChain \/ firstChain' = [firstChain EXCEPT ![k] = IF @ = Unset THEN chain ELSE @]
  BY <1>3
<1>7. DOMAIN firstChain' = H!Kinds /\ \A m \in H!Kinds : firstChain'[m] = Unset \/ Takes(m, firstChain'[m])
  BY <1>1, <1>3, <1>6 DEF MemoryIsRight
<1>8. \A m \in H!Kinds : Takes(m, firstChain'[m]) => Takes(m, firstChain[m])'
  BY DEF Takes, H!Accepts
<1>9. \A i \in 1..Len(toProve) : InLog(toProve[i].leaf)'
  BY <1>1 DEF MemoryIsRight, InLog, logVars
<1> QED
  BY <1>1, <1>5, <1>7, <1>8, <1>9 DEF MemoryIsRight, logVars

\* A chain of the other kind, or without its second certificate, is refused.
LEMMA InvalidChainsAreRefused ==
    ASSUME H!WellFormed, NEW base, HammerInv(base), NEW ep \in {"AddChain", "AddPreChain"}, H!AddInvalid(ep)
    PROVE  HammerInv(base)'
<1> DEFINE kind == H!KindOf[ep]
           Other == CHOOSE k \in H!Kinds : k # kind
<1>1. UNCHANGED logVars /\ UNCHANGED <<firstChain, heads, toProve>> /\ ~complaint
  BY DEF H!AddInvalid, H!logVars, H!chainVars, logVars, HammerInv
<1>2. kind \in H!Kinds /\ Other \in H!Kinds /\ Other # kind
  BY DEF H!KindOf, H!Kinds
<1> HIDE DEF kind, Other
<1>3. MemoryIsRight(base)
  BY DEF HammerInv
<1>4. ASSUME H!Generates(Other) PROVE ~H!Accepts(kind, H!NextChain(Other))
  <2>1. Takes(Other, H!NextChain(Other))
    BY <1>2, <1>3, <1>4, GeneratorIsRight
  <2> QED
    BY <1>2, <2>1 DEF Takes, H!Accepts
<1>5. ASSUME H!Generates(kind) PROVE ~(H!NextChain(kind).len = 2 /\ H!Accepts(kind, H!NextChain(kind)))
  BY <1>2, <1>3, <1>5, GeneratorIsRight
<1>6. Between /\ ~complaint'
  <2>1. \E refused : refused /\ H!Expect(refused)
    BY <1>4, <1>5, Zenon DEF H!AddInvalid, kind, Other
  <2> QED
    BY <1>1, <2>1, ExpectBetween
<1>7. CASE pos' = pos
  BY <1>1, <1>6, <1>7, OnlyBetween DEF memoryVars
<1>8. ASSUME NEW k \in H!Kinds, H!Generates(k), H!Generate(k) PROVE HammerInv(base)'
  <2>1. MemoryIsRight(base)'
    BY <1>1, <1>8, MemoryOfChains
  <2> QED
    BY <1>1, <1>6, <2>1, NoGrowth, BetweenIsRight DEF HammerInv
<1> QED
  <2>1. pos' = pos \/ \E k \in H!Kinds : H!Generates(k) /\ H!Generate(k)
    BY <1>2 DEF H!AddInvalid, kind, Other, H!genVars
  <2> QED
    BY <1>7, <1>8, <2>1

\* Several adders begin.
LEMMA AddersBegin ==
    ASSUME H!WellFormed, NEW base, HammerInv(base), H!addMultiple
    PROVE  HammerInv(base)'
<1>1. UNCHANGED logVars /\ UNCHANGED memoryVars /\ ~complaint'
  BY DEF H!addMultiple, H!logVars, H!genVars, H!chainVars, logVars, memoryVars, HammerInv
<1>2. PICK n \in 1..MaxParallelChains : adders' = [i \in 1..n |-> [at |-> "get"]]
  BY DEF H!addMultiple
<1>3. op' = [at |-> "adding", ep |-> op.at, kind |-> H!KindOf[op.at]] /\ op.at \in {"AddChain", "AddPreChain"}
  BY DEF H!addMultiple, H!KindOf
<1>4. OpIsRight'
  BY <1>2, <1>3 DEF OpIsRight
<1> QED
  BY <1>1, <1>4, OnlyOp

LEMMA AddersEnd ==
    ASSUME H!WellFormed, NEW base, HammerInv(base), H!AddsDone
    PROVE  HammerInv(base)'
<1>1. UNCHANGED logVars /\ UNCHANGED memoryVars /\ op.at = "adding"
  BY DEF H!AddsDone, H!logVars, H!genVars, H!chainVars, logVars, memoryVars
<1>2. CASE H!Done
  BY <1>1, <1>2, DoneBetween, OnlyBetween DEF HammerInv
<1>3. CASE \E i \in DOMAIN adders : adders[i].at = "failed" /\ H!Fails(op.ep, adders[i].refused)
  <2>1. PICK i \in DOMAIN adders : adders[i].at = "failed" /\ H!Fails(op.ep, adders[i].refused)
    BY <1>3
  <2>2. ~adders[i].refused /\ op.ep \in H!Entrypoints /\ ~complaint
    BY <1>1, <2>1 DEF HammerInv, OpIsRight, H!Entrypoints
  <2>3. Between /\ ~complaint'
    BY <2>1, <2>2, FailsBetween
  <2> QED
    BY <1>1, <2>3, OnlyBetween
<1> QED
  BY <1>2, <1>3 DEF H!AddsDone

\* One adder goes on, the others stay where they are.
AdderIsRight(a) ==
    /\ a.at = "post" => Takes(op.kind, a.chain)
    /\ a.at = "append" => \E j \in 1..Len(entries') : entries'[j] = a.leaf
    /\ a.at = "failed" => ~a.refused

LEMMA OneAdder ==
    ASSUME NEW base, HammerInv(base), Grows, op' = op, op.at = "adding", NEW i \in DOMAIN adders,
           NEW a, adders' = [adders EXCEPT ![i] = a], AdderIsRight(a)
    PROVE  OpIsRight'
<1>1. \A m \in DOMAIN adders : adders'[m] = a \/ adders'[m] = adders[m]
  OBVIOUS
<1>2. ASSUME NEW m \in DOMAIN adders PROVE AdderIsRight(adders[m])
  <2>1. PICK b : b = adders[m]
    OBVIOUS
  <2>2. /\ b.at = "post" => Takes(op.kind, b.chain)
        /\ b.at = "append" => InLog(b.leaf)
        /\ b.at = "failed" => ~b.refused
    BY <2>1 DEF HammerInv, OpIsRight
  <2>3. b.at = "append" => InLog(b.leaf)'
    BY <2>2, StaysInLog DEF HammerInv
  <2> QED
    BY <2>1, <2>2, <2>3 DEF AdderIsRight, InLog
<1>3. ASSUME NEW m \in DOMAIN adders' PROVE AdderIsRight(adders'[m])
  BY <1>1, <1>2
<1>4. \A k, chain : Takes(k, chain) => Takes(k, chain)'
  BY DEF Takes, H!Accepts
<1>5. op.ep \in {"AddChain", "AddPreChain"} /\ op.kind = H!KindOf[op.ep]
  BY DEF HammerInv, OpIsRight
<1>6. \A m \in DOMAIN adders' :
        /\ adders'[m].at = "post" => Takes(op.kind, adders'[m].chain)
        /\ adders'[m].at = "append" => \E j \in 1..Len(entries') : entries'[j] = adders'[m].leaf
        /\ adders'[m].at = "failed" => ~adders'[m].refused
  BY <1>3 DEF AdderIsRight
<1> QED
  BY <1>4, <1>5, <1>6 DEF OpIsRight, InLog, Takes, H!Accepts


LEMMA ChainIsGot ==
    ASSUME H!WellFormed, NEW base, HammerInv(base), NEW i \in DOMAIN adders, NEW k \in H!Kinds, H!GetAny(i, k)
    PROVE  HammerInv(base)'
<1>1. /\ UNCHANGED logVars /\ UNCHANGED <<heads, toProve, op>> /\ ~complaint'
      /\ op.at = "adding" /\ op.kind = k
  BY DEF H!GetAny, H!logVars, H!endVars, logVars, HammerInv
<1>2. Grows /\ LogIsRight(base)' /\ MemoryIsRight(base)
  BY <1>1, NoGrowth DEF HammerInv
<1>3. ASSUME NEW chain, Takes(k, chain), adders' = [adders EXCEPT ![i] = [at |-> "post", chain |-> chain]]
      PROVE  OpIsRight'
  <2>1. PICK a : a = [at |-> "post", chain |-> chain]
    OBVIOUS
  <2>2. AdderIsRight(a)
    BY <1>1, <1>3, <2>1 DEF AdderIsRight
  <2> QED
    BY <1>1, <1>2, <1>3, <2>1, <2>2, OneAdder
<1>4. CASE /\ H!Generates(k) /\ H!Generate(k)
           /\ firstChain' = [firstChain EXCEPT ![k] = IF @ = Unset THEN H!NextChain(k) ELSE @]
           /\ adders' = [adders EXCEPT ![i] = [at |-> "post", chain |-> H!NextChain(k)]]
  <2>1. MemoryIsRight(base)'
    BY <1>1, <1>4, MemoryOfChains
  <2>2. PICK chain : chain = H!NextChain(k) /\ Takes(k, chain)
    BY <1>2, <1>4, GeneratorIsRight
  <2>3. OpIsRight'
    BY <1>3, <1>4, <2>2
  <2> QED
    BY <1>1, <1>2, <2>1, <2>3 DEF HammerInv
<1>5. CASE /\ firstChain[k] # Unset /\ UNCHANGED <<pos, firstChain>>
           /\ adders' = [adders EXCEPT ![i] = [at |-> "post", chain |-> firstChain[k]]]
  <2>1. UNCHANGED memoryVars
    BY <1>1, <1>5 DEF memoryVars
  <2>2. PICK chain : chain = firstChain[k]
    OBVIOUS
  <2>3. Takes(k, chain)
    BY <1>2, <1>5, <2>2 DEF MemoryIsRight
  <2>4. OpIsRight'
    BY <1>3, <1>5, <2>2, <2>3
  <2> QED
    BY <1>1, <2>1, <2>4, OnlyOp
<1> QED
  BY <1>4, <1>5 DEF H!GetAny, H!genVars, H!chainVars

\* An entry for a certificate the Log does not have keeps the entries apart.
LEMMA NewEntry ==
    ASSUME H!WellFormed, NEW base, LogIsRight(base), NEW cert \in Certificates, H!Logged(cert) = {},
           UNCHANGED <<clock, size>>, entries' = Append(entries, [cert |-> cert, timestamp |-> clock])
    PROVE  LogIsRight(base)' /\ Grows
<1> DEFINE Leaves == H!Known \cup [cert : Certificates, timestamp : Nat]
<1>1. PICK leaf : leaf = [cert |-> cert, timestamp |-> clock]
  OBVIOUS
<1>2. leaf \in Leaves /\ leaf.cert = cert /\ leaf.timestamp = clock /\ clock \in Nat
  BY <1>1 DEF LogIsRight
<1>3. entries \in Seq(Leaves) /\ Len(entries) \in Nat /\ DOMAIN entries = 1..Len(entries)
  BY DEF LogIsRight
<1> HIDE DEF Leaves
<1>4. /\ entries' \in Seq(Leaves) /\ Len(entries') = Len(entries) + 1 /\ entries'[Len(entries) + 1] = leaf
      /\ \A j \in 1..Len(entries) : entries'[j] = entries[j]
  BY <1>1, <1>2, <1>3
<1>5. \A j \in 1..Len(entries) : entries[j].cert # cert
  BY <1>3 DEF H!Logged
<1>6. /\ base \in Nat /\ size \in Nat /\ base <= size /\ size <= Len(entries) /\ MMD \in Nat
      /\ \A i \in (base + 1)..Len(entries) : entries[i].cert \in Certificates
      /\ \A i, j \in (base + 1)..Len(entries) : entries[i].cert = entries[j].cert => i = j
      /\ \A i \in (size + 1)..Len(entries) : clock <= entries[i].timestamp + MMD
  BY DEF LogIsRight, H!WellFormed
<1>7. \A i \in (base + 1)..Len(entries') : entries'[i].cert \in Certificates
  <2> SUFFICES ASSUME NEW i \in (base + 1)..Len(entries') PROVE entries'[i].cert \in Certificates
    OBVIOUS
  <2>1. CASE i = Len(entries) + 1
    BY <1>2, <1>4, <2>1
  <2>2. CASE i # Len(entries) + 1
    <3>1. i \in (base + 1)..Len(entries) /\ i \in 1..Len(entries)
      BY <1>3, <1>4, <1>6, <2>2
    <3> QED
      BY <1>4, <1>6, <3>1
  <2> QED
    BY <2>1, <2>2
<1>8. \A i, j \in (base + 1)..Len(entries') : entries'[i].cert = entries'[j].cert => i = j
  <2> SUFFICES ASSUME NEW i \in (base + 1)..Len(entries'), NEW j \in (base + 1)..Len(entries'),
                      entries'[i].cert = entries'[j].cert, i # j
               PROVE  FALSE
    OBVIOUS
  <2>1. \A m \in (base + 1)..Len(entries') :
          m = Len(entries) + 1 \/ (m \in (base + 1)..Len(entries) /\ m \in 1..Len(entries))
    BY <1>3, <1>4, <1>6
  <2>2. CASE i = Len(entries) + 1
    BY <1>2, <1>4, <1>5, <2>1, <2>2
  <2>3. CASE j = Len(entries) + 1
    BY <1>2, <1>4, <1>5, <2>1, <2>3
  <2>4. CASE i # Len(entries) + 1 /\ j # Len(entries) + 1
    BY <1>4, <1>6, <2>1, <2>4
  <2> QED
    BY <2>2, <2>3, <2>4
<1>9. \A i \in (size + 1)..Len(entries') : clock <= entries'[i].timestamp + MMD
  <2> SUFFICES ASSUME NEW i \in (size + 1)..Len(entries') PROVE clock <= entries'[i].timestamp + MMD
    OBVIOUS
  <2>1. CASE i = Len(entries) + 1
    BY <1>2, <1>4, <1>6, <2>1
  <2>2. CASE i # Len(entries) + 1
    <3>1. i \in (size + 1)..Len(entries) /\ i \in 1..Len(entries)
      BY <1>3, <1>4, <1>6, <2>2
    <3> QED
      BY <1>4, <1>6, <3>1
  <2> QED
    BY <2>1, <2>2
<1>10. LogIsRight(base)'
  BY <1>2, <1>3, <1>4, <1>6, <1>7, <1>8, <1>9 DEF LogIsRight, Leaves, Certificates
<1>11. Grows
  BY <1>3, <1>4, <1>6 DEF Grows
<1> QED
  BY <1>10, <1>11

LEMMA ChainIsAdded ==
    ASSUME H!WellFormed, NEW base, HammerInv(base), NEW i \in DOMAIN adders, NEW k, H!AddAny(i, k)
    PROVE  HammerInv(base)'
<1>1. /\ UNCHANGED <<clock, size>> /\ UNCHANGED memoryVars /\ op' = op /\ ~complaint'
      /\ op.at = "adding" /\ op.kind = k /\ adders[i].at = "post"
  BY DEF H!AddAny, H!genVars, H!chainVars, H!endVars, memoryVars, HammerInv
<1>2. PICK chain : chain = adders[i].chain /\ Takes(k, chain)
  BY <1>1 DEF HammerInv, OpIsRight
<1>3. H!Accepts(k, chain) /\ chain.cert \in Certificates
  BY <1>2 DEF Takes
<1>4. ASSUME NEW a, adders' = [adders EXCEPT ![i] = a], AdderIsRight(a), LogIsRight(base)' /\ Grows
      PROVE  HammerInv(base)'
  <2>1. OpIsRight'
    BY <1>1, <1>4, OneAdder
  <2>2. MemoryIsRight(base)'
    BY <1>1, <1>4, MemoryStays DEF HammerInv
  <2> QED
    BY <1>1, <1>4, <2>1, <2>2 DEF HammerInv
<1>5. CASE /\ H!Logged(chain.cert) # {} /\ entries' = entries
           /\ adders' = [adders EXCEPT ![i] = [at |-> "append", leaf |-> entries[CHOOSE j \in H!Logged(chain.cert) : TRUE]]]
  <2>1. PICK n \in 1..Len(entries) : n = CHOOSE j \in H!Logged(chain.cert) : TRUE
    BY <1>5 DEF H!Logged, HammerInv, LogIsRight
  <2>2. PICK a : a = [at |-> "append", leaf |-> entries[n]]
    OBVIOUS
  <2>3. AdderIsRight(a)
    BY <1>5, <2>2 DEF AdderIsRight
  <2>4. LogIsRight(base)' /\ Grows
    BY <1>1, <1>5, NoGrowth DEF logVars, HammerInv
  <2> QED
    BY <1>4, <1>5, <2>1, <2>2, <2>3, <2>4
<1>6. CASE /\ H!Logged(chain.cert) = {} /\ entries' = Append(entries, [cert |-> chain.cert, timestamp |-> clock])
           /\ adders' = [adders EXCEPT ![i] = [at |-> "append", leaf |-> [cert |-> chain.cert, timestamp |-> clock]]]
  <2>1. PICK leaf : leaf = [cert |-> chain.cert, timestamp |-> clock]
    OBVIOUS
  <2>2. PICK a : a = [at |-> "append", leaf |-> leaf]
    OBVIOUS
  <2>3. LogIsRight(base)' /\ Grows
    <3>1. PICK cert \in Certificates : cert = chain.cert
      BY <1>3
    <3> QED
      BY <1>1, <1>6, <3>1, NewEntry DEF HammerInv
  <2>4. Len(entries) \in Nat /\ entries'[Len(entries) + 1] = leaf /\ Len(entries') = Len(entries) + 1
    <3>1. PICK S : entries \in Seq(S)
      BY DEF HammerInv, LogIsRight
    <3> QED
      BY <1>6, <2>1, <3>1
  <2>5. AdderIsRight(a)
    BY <2>2, <2>4 DEF AdderIsRight
  <2> QED
    BY <1>4, <1>6, <2>1, <2>2, <2>3, <2>5
<1>7. CASE /\ adders' = [adders EXCEPT ![i] = [at |-> "failed", refused |-> ~H!Accepts(k, chain)]]
           /\ entries' = entries
  <2>1. PICK a : a = [at |-> "failed", refused |-> ~H!Accepts(k, chain)]
    OBVIOUS
  <2>2. AdderIsRight(a)
    BY <1>3, <2>1 DEF AdderIsRight
  <2>3. LogIsRight(base)' /\ Grows
    BY <1>1, <1>7, NoGrowth DEF logVars, HammerInv
  <2> QED
    BY <1>4, <1>7, <2>1, <2>2, <2>3
<1>8. \/ /\ H!Logged(chain.cert) # {} /\ entries' = entries
         /\ adders' = [adders EXCEPT ![i] = [at |-> "append", leaf |-> entries[CHOOSE j \in H!Logged(chain.cert) : TRUE]]]
      \/ /\ H!Logged(chain.cert) = {} /\ entries' = Append(entries, [cert |-> chain.cert, timestamp |-> clock])
         /\ adders' = [adders EXCEPT ![i] = [at |-> "append", leaf |-> [cert |-> chain.cert, timestamp |-> clock]]]
      \/ /\ adders' = [adders EXCEPT ![i] = [at |-> "failed", refused |-> ~H!Accepts(k, chain)]]
         /\ entries' = entries
  BY <1>2, Zenon DEF H!AddAny
<1> QED
  BY <1>5, <1>6, <1>7, <1>8, Zenon

\* What the Log signed is remembered with the time until which it has to be in the tree.
LEMMA LeafIsRemembered ==
    ASSUME H!WellFormed, NEW base, HammerInv(base), NEW i \in DOMAIN adders, H!tryAppendCert(i)
    PROVE  HammerInv(base)'
<1> DEFINE Leaves == H!Known \cup [cert : Certificates, timestamp : Nat]
           Items == [leaf : Leaves, integrateBy : Nat]
<1>1. /\ UNCHANGED logVars /\ UNCHANGED <<pos, firstChain, heads, op>> /\ ~complaint'
      /\ op.at = "adding" /\ adders[i].at = "append" /\ adders' = [adders EXCEPT ![i] = [at |-> "ok"]]
  BY DEF H!tryAppendCert, H!genVars, H!logVars, H!chainVars, H!endVars, logVars, HammerInv
<1>2. Grows /\ LogIsRight(base)' /\ LogIsRight(base) /\ MemoryIsRight(base)
  BY <1>1, NoGrowth DEF HammerInv
<1>3. OpIsRight'
  <2>1. PICK a : a = [at |-> "ok"]
    OBVIOUS
  <2>2. AdderIsRight(a)
    BY <2>1 DEF AdderIsRight
  <2> QED
    BY <1>1, <1>2, <2>1, <2>2, OneAdder
<1>4. PICK leaf : leaf = adders[i].leaf
  OBVIOUS
<1>5. InLog(leaf)
  BY <1>1, <1>4 DEF HammerInv, OpIsRight
<1>6. leaf \in Leaves /\ leaf.timestamp + MMD \in Nat
  <2>1. leaf \in Leaves
    <3>1. entries \in Seq(Leaves)
      BY <1>2 DEF LogIsRight
    <3> HIDE DEF Leaves
    <3> QED
      BY <1>5, <3>1 DEF InLog
  <2>2. leaf.timestamp \in Nat /\ MMD \in Nat
    BY <2>1 DEF H!WellFormed
  <2> QED
    BY <2>1, <2>2
<1>7. PICK item : item = [leaf |-> leaf, integrateBy |-> leaf.timestamp + MMD]
  OBVIOUS
<1>8. item \in Items /\ item.leaf = leaf /\ item.integrateBy = leaf.timestamp + MMD
  BY <1>6, <1>7
<1>9. toProve' = toProve \/ toProve' = Append(toProve, item)
  BY <1>4, <1>7 DEF H!tryAppendCert
<1>10. toProve \in Seq(Items)
  BY <1>2 DEF MemoryIsRight
<1>11. /\ toProve' \in Seq(Items)
       /\ \A m \in 1..Len(toProve') : toProve'[m] = item \/ \E n \in 1..Len(toProve) : toProve'[m] = toProve[n]
  <2> HIDE DEF Items
  <2>1. CASE toProve' = toProve
    BY <1>10, <2>1
  <2>2. CASE toProve' = Append(toProve, item)
    BY <1>8, <1>10, <2>2
  <2> QED
    BY <1>9, <2>1, <2>2
<1>12. \A m \in 1..Len(toProve') :
         /\ \E j \in 1..Len(entries') : entries'[j] = toProve'[m].leaf
         /\ toProve'[m].integrateBy = toProve'[m].leaf.timestamp + MMD
  <2> SUFFICES ASSUME NEW m \in 1..Len(toProve')
               PROVE  /\ \E j \in 1..Len(entries) : entries[j] = toProve'[m].leaf
                      /\ toProve'[m].integrateBy = toProve'[m].leaf.timestamp + MMD
    BY <1>1 DEF logVars
  <2>1. CASE toProve'[m] = item
    BY <1>5, <1>8, <2>1 DEF InLog
  <2>2. CASE \E n \in 1..Len(toProve) : toProve'[m] = toProve[n]
    <3>1. PICK n \in 1..Len(toProve) : toProve'[m] = toProve[n]
      BY <2>2
    <3>2. InLog(toProve[n].leaf) /\ toProve[n].integrateBy = toProve[n].leaf.timestamp + MMD
      BY <1>2 DEF MemoryIsRight
    <3> QED
      BY <3>1, <3>2 DEF InLog
  <2> QED
    BY <1>11, <2>1, <2>2
<1>13. \A k \in H!Kinds : Takes(k, firstChain[k]) => Takes(k, firstChain[k])'
  BY <1>1 DEF Takes, H!Accepts
<1>14. MemoryIsRight(base)'
  BY <1>1, <1>2, <1>11, <1>12, <1>13 DEF MemoryIsRight, InLog, logVars, Certificates
<1> QED
  BY <1>1, <1>2, <1>3, <1>14 DEF HammerInv

----------------------------------------------------------------------------
LEMMA HammerStays ==
    ASSUME H!WellFormed, NEW base, HammerInv(base), [H!Next]_H!vars
    PROVE  HammerInv(base)'
<1>1. CASE H!chooseOp \/ H!Return \/ H!ContextDone \/ H!getRoots \/ H!Cancel \/ \E k \in H!Kinds : H!Drain(k)
  BY <1>1, LoopIsRight
<1>2. CASE H!Merge \/ H!Tick
  BY <1>2, LogStaysRight
<1>3. CASE H!getSTH \/ H!chooseSTHs \/ H!getSTHConsistency \/ H!ProofHead \/ H!getProofByHash \/ H!getEntries
  BY <1>3, HeadsStayRight, ConsistencyIsRight, ProofIsRight, DropIsRight, EntriesAreRight
<1>4. CASE H!addChainInvalid \/ H!addPreChainInvalid
  BY <1>4, InvalidChainsAreRefused DEF H!addChainInvalid, H!addPreChainInvalid
<1>5. CASE H!getSTHConsistencyInvalid \/ H!getProofByHashInvalid \/ H!getEntriesInvalid
  BY <1>5, InvalidIsRefused
<1>6. CASE H!addMultiple \/ H!AddsDone
  BY <1>6, AddersBegin, AddersEnd
<1>7. CASE \E i \in 1..MaxParallelChains : H!Adder(i)
  <2>1. PICK i : H!Adder(i)
    BY <1>7
  <2>2. i \in DOMAIN adders
    BY <2>1 DEF H!Adder
  <2>3. CASE H!getChain(i) \/ H!getPreChain(i)
    BY <2>2, <2>3, ChainIsGot DEF H!getChain, H!getPreChain, H!Kinds
  <2>4. CASE H!addChain(i) \/ H!addPreChain(i)
    BY <2>2, <2>4, ChainIsAdded DEF H!addChain, H!addPreChain
  <2>5. CASE H!tryAppendCert(i)
    BY <2>2, <2>5, LeafIsRemembered
  <2> QED
    BY <2>1, <2>3, <2>4, <2>5 DEF H!Adder
<1>8. CASE UNCHANGED H!vars
  <2>1. UNCHANGED logVars /\ UNCHANGED memoryVars /\ UNCHANGED <<op, adders>> /\ complaint' = complaint
    BY <1>8 DEF H!vars, H!genVars, H!logVars, H!chainVars, H!opVars, logVars, memoryVars
  <2>2. OpIsRight'
    BY <2>1, OpStays, NoGrowth DEF HammerInv
  <2> QED
    BY <2>1, <2>2, OnlyOp DEF HammerInv
<1> QED
  BY <1>1, <1>2, <1>3, <1>4, <1>5, <1>6, <1>7, <1>8 DEF H!Next, H!Perform

HammerInvariant == \E base : HammerInv(base)

LEMMA HammerBegins ==
    ASSUME H!WellFormed, H!Init
    PROVE  HammerInvariant
<1> DEFINE base == Len(entries)
           Leaves == H!Known \cup [cert : Certificates, timestamp : Nat]
<1>1. entries \in Seq(Leaves) /\ Len(entries) \in Nat
  <2>1. entries \in Seq(H!Known)
    BY DEF H!Init, H!WellFormed
  <2>2. H!Known \subseteq Leaves
    OBVIOUS
  <2> HIDE DEF Leaves
  <2> QED
    BY <2>1, <2>2
<1>2. LogIsRight(base)
  BY <1>1 DEF H!Init, LogIsRight
<1>3. MemoryIsRight(base)
  <2>1. Len(Source) \in Nat /\ SthCount \in Nat
    BY DEF H!WellFormed
  <2>2. heads \in Seq({Unset} \cup Nat) /\ Len(heads) = SthCount /\ \A i \in 1..SthCount : heads[i] = Unset
    BY <2>1 DEF H!Init
  <2>3. toProve = <<>>
    BY DEF H!Init
  <2>4. /\ DOMAIN pos = H!Kinds /\ DOMAIN firstChain = H!Kinds
        /\ \A k \in H!Kinds : pos[k] = 0 /\ firstChain[k] = Unset
    BY DEF H!Init
  <2> QED
    BY <2>1, <2>2, <2>3, <2>4 DEF MemoryIsRight
<1>4. OpIsRight /\ ~complaint
  BY DEF H!Init, H!Idle, OpIsRight
<1> QED
  BY <1>2, <1>3, <1>4 DEF HammerInvariant, HammerInv

\* The hammer never complains about a Log that keeps its promises.
THEOREM HammerGivesNoFalseAlarm == H!Spec => []NoFalseAlarm
<1>1. H!Init => HammerInvariant
  BY HammerAssumption, HammerBegins
<1>2. HammerInvariant /\ [H!Next]_H!vars => HammerInvariant'
  <2> SUFFICES ASSUME HammerInvariant, [H!Next]_H!vars PROVE HammerInvariant'
    OBVIOUS
  <2>1. PICK base : HammerInv(base)
    BY DEF HammerInvariant
  <2>2. HammerInv(base)'
    BY <2>1, HammerAssumption, HammerStays
  <2> QED
    BY <2>2 DEF HammerInvariant
<1>3. HammerInvariant => NoFalseAlarm
  BY DEF HammerInvariant, HammerInv, H!NoFalseAlarm, NoFalseAlarm
<1> QED
  BY <1>1, <1>2, <1>3, PTL DEF H!Spec

----------------------------------------------------------------------------
(* The configuration of ct_server.                                         *)

LEMMA LastPosition ==
    ASSUME NEW n \in Nat, NEW S \in SUBSET (1..n), S # {}
    PROVE  \E i \in S : \A j \in S : j <= i
<1> DEFINE T == {n - i : i \in S}
<1>1. T \in SUBSET Nat /\ T # {}
  <2>1. \A i \in S : i \in 1..n /\ n - i \in Nat
    OBVIOUS
  <2> QED
    BY <2>1
<1>2. PICK t \in T : \A u \in T : t <= u
  BY <1>1, FirstPosition
<1>3. PICK i \in S : t = n - i
  BY <1>2
<1>4. \A j \in S : n - i <= n - j
  BY <1>2, <1>3
<1> QED
  BY <1>4

\* What the trimming functions cut off leaves a sequence.
LEMMA Selected ==
    ASSUME NEW Names, NEW p \in Seq(Names)
    PROVE  C!SelectInSeq(p, C!NoSlash) \in 0..Len(p) /\ C!SelectLastInSeq(p, C!NoSlash) \in 0..Len(p)
<1> DEFINE I == {i \in 1..Len(p) : C!NoSlash(p[i])}
<1>1. I \in SUBSET Nat /\ Len(p) \in Nat /\ I \in SUBSET (1..Len(p))
  OBVIOUS
<1>2. I # {} => \E i \in I : \A j \in I : i <= j
  BY <1>1, FirstPosition
<1>3. I # {} => \E i \in I : \A j \in I : j <= i
  BY <1>1, LastPosition
<1>4. I # {} => C!Min(I) \in I
  BY <1>2, Zenon DEF C!Min
<1>5. I # {} => C!Max(I) \in I
  <2>1. I # {} => \E i \in I : \A j \in I : i >= j
    BY <1>1, <1>3
  <2> QED
    BY <2>1, Zenon DEF C!Max
<1>6. C!SelectInSeq(p, C!NoSlash) = IF I # {} THEN C!Min(I) ELSE 0
  BY DEF C!SelectInSeq
<1>7. C!SelectLastInSeq(p, C!NoSlash) = IF I # {} THEN C!Max(I) ELSE 0
  BY DEF C!SelectLastInSeq
<1> QED
  BY <1>1, <1>4, <1>5, <1>6, <1>7

LEMMA TrimmedIsPath ==
    ASSUME NEW Names, NEW p \in Seq(Names)
    PROVE  C!TrimRight(p) \in Seq(Names) /\ C!TrimLeft(p) \in Seq(Names)
<1>1. PICK n \in 0..Len(p) : n = C!SelectLastInSeq(p, C!NoSlash)
  BY Selected
<1>2. PICK k \in 0..Len(p) : k = C!SelectInSeq(p, C!NoSlash)
  BY Selected
<1>3. C!TrimRight(p) = SubSeq(p, 1, n)
  BY <1>1, Zenon DEF C!TrimRight
<1>4. C!TrimLeft(p) = IF k = 0 THEN <<>> ELSE SubSeq(p, k, Len(p))
  BY <1>2, Zenon DEF C!TrimLeft
<1>5. SubSeq(p, 1, n) \in Seq(Names)
  BY <1>1
<1>6. k # 0 => SubSeq(p, k, Len(p)) \in Seq(Names)
  BY <1>2
<1> QED
  BY <1>3, <1>4, <1>5, <1>6

\* "Any" among the names of key usages stands for no restriction.
LEMMA UsagesAreListed ==
    ASSUME NEW Names, NEW names \in Seq(Names), C!KeyUsages(names).ok
    PROVE  C!KeyUsages(names).usages = IF C!Contains(names, "Any") THEN {} ELSE C!ToSet(names)
<1> DEFINE I == {i \in 1..Len(names) : names[i] = "Any"}
           any == C!SelectInSeq(names, LAMBDA n : n = "Any")
<1>1. I \in SUBSET Nat /\ Len(names) \in Nat /\ I \in SUBSET (1..Len(names))
  OBVIOUS
<1>2. I # {} => C!Min(I) \in I
  <2>1. I # {} => \E i \in I : \A j \in I : i <= j
    BY <1>1, FirstPosition
  <2> QED
    BY <2>1, Zenon DEF C!Min
<1>3. any = IF I # {} THEN C!Min(I) ELSE 0
  BY DEF C!SelectInSeq
<1>4. any # 0 <=> I # {}
  BY <1>1, <1>2, <1>3
<1>5. I # {} <=> C!Contains(names, "Any")
  BY DEF C!Contains
<1>6. C!KeyUsages(names) = C!UsagesUpTo(any, names)
  BY DEF C!KeyUsages
<1> HIDE DEF any
<1> QED
  BY <1>4, <1>5, <1>6 DEF C!UsagesUpTo, C!Error

----------------------------------------------------------------------------
EndpointsOf(c) ==
    {"get-sth", "get-sth-consistency", "get-proof-by-hash", "get-entries", "get-roots", "get-entry-and-proof"}
      \cup (IF c.isReadonly \/ c.isMirror THEN {} ELSE {"add-chain", "add-pre-chain"})

\* The handler of log c for endpoint e.
Handler(c, base, client, e) ==
    LET slashed == IF Head(c.prefix) = "/" THEN c.prefix ELSE <<"/">> \o c.prefix
        lhp == IF c.override = <<>> THEN base ELSE <<"/">> \o C!TrimLeft(C!TrimRight(c.override))
    IN [path |-> lhp \o Append(C!TrimRight(slashed), e), log |-> c, client |-> client, info |-> C!setUpLogInfo(c)]

LEMMA HandlerFields ==
    ASSUME NEW c, NEW base, NEW client, NEW e
    PROVE  LET h == Handler(c, base, client, e) IN h.log = c /\ h.client = client /\ h.info = C!setUpLogInfo(c)
BY DEF Handler

LEMMA HandlersOfLog ==
    ASSUME NEW c, NEW base, NEW client
    PROVE  C!setupAndRegister(c, base, client) = {Handler(c, base, client, e) : e \in EndpointsOf(c)}
<1> DEFINE slashed == IF Head(c.prefix) = "/" THEN c.prefix ELSE <<"/">> \o c.prefix
<1>1. PICK t : t = C!TrimRight(slashed)
  OBVIOUS
<1>2. PICK lhp : lhp = IF c.override = <<>> THEN base ELSE <<"/">> \o C!TrimLeft(C!TrimRight(c.override))
  OBVIOUS
<1>3. PICK info : info = C!setUpLogInfo(c)
  OBVIOUS
<1>4. C!Handlers(c) = {Append(t, e) : e \in EndpointsOf(c)}
  BY <1>1, Zenon DEF C!Handlers, EndpointsOf
<1>5. C!setupAndRegister(c, base, client) = {[path |-> lhp \o p, log |-> c, client |-> client, info |-> info] : p \in C!Handlers(c)}
  BY <1>2, <1>3, Zenon DEF C!setupAndRegister
<1>6. \A e : Handler(c, base, client, e) = [path |-> lhp \o Append(t, e), log |-> c, client |-> client, info |-> info]
  BY <1>1, <1>2, <1>3, Zenon DEF Handler
<1> HIDE DEF slashed
<1>7. {[path |-> lhp \o p, log |-> c, client |-> client, info |-> info] : p \in {Append(t, e) : e \in EndpointsOf(c)}}
        = {[path |-> lhp \o Append(t, e), log |-> c, client |-> client, info |-> info] : e \in EndpointsOf(c)}
  BY Zenon
<1> QED
  BY <1>4, <1>5, <1>6, <1>7, Zenon

\* A path ends with its endpoint.
LEMMA PathsEnd ==
    ASSUME NEW Names, NEW Values, NEW c \in C!LogConfigs(Names, Values), NEW base \in Seq(Names), NEW client, NEW e
    PROVE  C!Last(Handler(c, base, client, e).path) = e
<1> DEFINE All == Names \cup {"/", e}
           slashed == IF Head(c.prefix) = "/" THEN c.prefix ELSE <<"/">> \o c.prefix
           trimmed == C!TrimRight(slashed)
           lhp == IF c.override = <<>> THEN base ELSE <<"/">> \o C!TrimLeft(C!TrimRight(c.override))
<1>1. c.prefix \in Seq(Names) /\ c.override \in Seq(Names) /\ Names \subseteq All /\ "/" \in All /\ e \in All
  BY DEF C!LogConfigs
<1> HIDE DEF All
<1>2. c.prefix \in Seq(All) /\ c.override \in Seq(All) /\ base \in Seq(All)
  BY <1>1
<1>3. slashed \in Seq(All)
  BY <1>1, <1>2
<1> HIDE DEF slashed
<1>4. trimmed \in Seq(All)
  BY <1>3, TrimmedIsPath
<1> HIDE DEF trimmed
<1>5. lhp \in Seq(All)
  <2>1. C!TrimRight(c.override) \in Seq(All)
    BY <1>2, TrimmedIsPath
  <2>2. PICK q \in Seq(All) : q = C!TrimLeft(C!TrimRight(c.override))
    BY <2>1, TrimmedIsPath
  <2> QED
    BY <1>1, <1>2, <2>2
<1> HIDE DEF lhp
<1>6. Handler(c, base, client, e).path = lhp \o Append(trimmed, e)
  BY DEF Handler, lhp, trimmed, slashed
<1>7. PICK q : q = Append(trimmed, e)
  OBVIOUS
<1>8. q \in Seq(All) /\ Len(q) = Len(trimmed) + 1 /\ q[Len(q)] = e /\ Len(trimmed) \in Nat
  BY <1>1, <1>4, <1>7
<1>9. (lhp \o q)[Len(lhp \o q)] = e
  BY <1>5, <1>8
<1> QED
  BY <1>6, <1>7, <1>9 DEF C!Last

----------------------------------------------------------------------------
(* A configuration that was accepted, of logs with a name and a tree each. *)

Client(multi, name) == (CHOOSE b \in C!ToSet(multi.backends) : b.name = name).spec
HandlersOf(multi, base, i) ==
    C!setupAndRegister(multi.cfgs[i], base, Client(multi, multi.cfgs[i].backend))
Mux(multi, base) == UNION {HandlersOf(multi, base, i) : i \in DOMAIN multi.cfgs}

IsSetUp(multi, base) ==
    /\ C!ValidateLogMultiConfig(multi)
    /\ \A i \in DOMAIN multi.cfgs : C!setUpLogInfo(multi.cfgs[i]).ok
    /\ \A i, j \in DOMAIN multi.cfgs : i # j =>
         \A h \in HandlersOf(multi, base, i), g \in HandlersOf(multi, base, j) : h.path # g.path

\* A handler is one of some log.
HasLog(multi, base, h) ==
    \E i \in DOMAIN multi.cfgs : \E e \in EndpointsOf(multi.cfgs[i]) :
        h = Handler(multi.cfgs[i], base, Client(multi, multi.cfgs[i].backend), e)

LEMMA HandlerHasLog ==
    ASSUME NEW multi, NEW base, NEW h \in Mux(multi, base)
    PROVE  HasLog(multi, base, h)
<1>1. PICK i \in DOMAIN multi.cfgs : h \in HandlersOf(multi, base, i)
  BY DEF Mux
<1> QED
  BY <1>1, HandlersOfLog DEF HandlersOf, HasLog

\* Backends with one specification are one, and their logs have different trees.
LEMMA TreesAreApart ==
    ASSUME NEW multi, NEW base, IsSetUp(multi, base), NEW h \in Mux(multi, base), NEW g \in Mux(multi, base),
           h.client = g.client, h.log.logId = g.log.logId
    PROVE  h.log = g.log
<1>1. PICK i \in DOMAIN multi.cfgs : \E e : h = Handler(multi.cfgs[i], base, Client(multi, multi.cfgs[i].backend), e)
  BY HandlerHasLog DEF HasLog
<1>2. PICK j \in DOMAIN multi.cfgs : \E e : g = Handler(multi.cfgs[j], base, Client(multi, multi.cfgs[j].backend), e)
  BY HandlerHasLog DEF HasLog
<1>3. h.log = multi.cfgs[i] /\ h.client = Client(multi, multi.cfgs[i].backend)
  BY <1>1, HandlerFields
<1>4. g.log = multi.cfgs[j] /\ g.client = Client(multi, multi.cfgs[j].backend)
  BY <1>2, HandlerFields
<1>5. C!BuildLogBackendMap(multi.backends) /\ C!BackendsAreDefined(multi.cfgs, multi.backends)
  BY DEF IsSetUp, C!ValidateLogMultiConfig
<1>6. ASSUME NEW n \in DOMAIN multi.cfgs
      PROVE  \E k \in DOMAIN multi.backends :
               multi.backends[k].name = multi.cfgs[n].backend /\ multi.backends[k].spec = Client(multi, multi.cfgs[n].backend)
  <2>1. \E b \in C!ToSet(multi.backends) : b.name = multi.cfgs[n].backend
    BY <1>5 DEF C!BackendsAreDefined
  <2>2. PICK b \in C!ToSet(multi.backends) :
          b.name = multi.cfgs[n].backend /\ b.spec = Client(multi, multi.cfgs[n].backend)
    BY <2>1, Zenon DEF Client
  <2> QED
    BY <2>2 DEF C!ToSet
<1>7. PICK k \in DOMAIN multi.backends :
        multi.backends[k].name = multi.cfgs[i].backend /\ multi.backends[k].spec = h.client
  BY <1>3, <1>6
<1>8. PICK l \in DOMAIN multi.backends :
        multi.backends[l].name = multi.cfgs[j].backend /\ multi.backends[l].spec = g.client
  BY <1>4, <1>6
<1>9. k = l
  BY <1>5, <1>7, <1>8, Zenon DEF C!BuildLogBackendMap
<1>10. multi.cfgs[i].backend = multi.cfgs[j].backend /\ multi.cfgs[i].logId = multi.cfgs[j].logId
  BY <1>3, <1>4, <1>7, <1>8, <1>9
<1>11. i = j
  BY <1>10 DEF IsSetUp, C!ValidateLogMultiConfig
<1> QED
  BY <1>3, <1>4, <1>11

LEMMA PathsAreApart ==
    ASSUME NEW multi, NEW base, IsSetUp(multi, base), NEW h \in Mux(multi, base), NEW g \in Mux(multi, base),
           h.path = g.path
    PROVE  h = g
<1>1. PICK i \in DOMAIN multi.cfgs : h \in HandlersOf(multi, base, i)
  BY DEF Mux
<1>2. PICK j \in DOMAIN multi.cfgs : g \in HandlersOf(multi, base, j)
  BY DEF Mux
<1>3. i = j
  BY <1>1, <1>2 DEF IsSetUp
<1>4. PICK c, cl : c = multi.cfgs[i] /\ cl = Client(multi, multi.cfgs[i].backend)
  OBVIOUS
<1>5. PICK e, f : h = Handler(c, base, cl, e) /\ g = Handler(c, base, cl, f)
  BY <1>1, <1>2, <1>3, <1>4, HandlersOfLog DEF HandlersOf
<1> QED
  BY <1>5 DEF Handler

\* Every log has one handler for its heads.
LEMMA OneOfEach ==
    ASSUME NEW Names, NEW Values, NEW multi, NEW base \in Seq(Names), IsSetUp(multi, base),
           multi.cfgs \in Seq(C!LogConfigs(Names, Values))
    PROVE  Cardinality({h \in Mux(multi, base) : C!Last(h.path) = "get-sth"}) = Len(multi.cfgs)
<1> DEFINE S == 1..Len(multi.cfgs)
           T == {h \in Mux(multi, base) : C!Last(h.path) = "get-sth"}
           f == [i \in S |-> Handler(multi.cfgs[i], base, Client(multi, multi.cfgs[i].backend), "get-sth")]
<1>1. DOMAIN multi.cfgs = S /\ Len(multi.cfgs) \in Nat /\ \A i \in S : multi.cfgs[i] \in C!LogConfigs(Names, Values)
  <2>1. PICK R : R = C!LogConfigs(Names, Values)
    OBVIOUS
  <2> QED
    BY <2>1
<1>2. ASSUME NEW i \in S PROVE f[i] \in HandlersOf(multi, base, i) /\ f[i] \in T
  <2>1. "get-sth" \in EndpointsOf(multi.cfgs[i])
    BY DEF EndpointsOf
  <2>2. f[i] \in HandlersOf(multi, base, i)
    BY <2>1, HandlersOfLog DEF HandlersOf
  <2>3. f[i] \in Mux(multi, base)
    BY <1>1, <2>2 DEF Mux
  <2>4. C!Last(f[i].path) = "get-sth"
    BY <1>1, PathsEnd
  <2> QED
    BY <2>2, <2>3, <2>4
<1>3. \A i, j \in S : f[i] = f[j] => i = j
  <2> SUFFICES ASSUME NEW i \in S, NEW j \in S, f[i] = f[j], i # j PROVE FALSE
    OBVIOUS
  <2>1. PICK h : h = f[i] /\ h = f[j]
    OBVIOUS
  <2>2. h \in HandlersOf(multi, base, i) /\ h \in HandlersOf(multi, base, j)
    BY <1>2, <2>1
  <2> QED
    BY <1>1, <2>2 DEF IsSetUp
<1>4. ASSUME NEW h \in T PROVE \E i \in S : f[i] = h
  <2>1. h \in Mux(multi, base) /\ C!Last(h.path) = "get-sth"
    OBVIOUS
  <2> HIDE DEF f, T
  <2>2. PICK i \in S : \E e : h = Handler(multi.cfgs[i], base, Client(multi, multi.cfgs[i].backend), e)
    <3>1. HasLog(multi, base, h)
      BY <2>1, HandlerHasLog
    <3> QED
      BY <1>1, <3>1 DEF HasLog
  <2>3. PICK e : h = Handler(multi.cfgs[i], base, Client(multi, multi.cfgs[i].backend), e)
    BY <2>2
  <2>4. PICK c, cl : c = multi.cfgs[i] /\ cl = Client(multi, multi.cfgs[i].backend)
    OBVIOUS
  <2>5. C!Last(Handler(c, base, cl, e).path) = e
    BY <1>1, <2>4, PathsEnd
  <2>6. e = "get-sth"
    BY <2>1, <2>4, <2>5, <2>3
  <2> QED
    BY <2>3, <2>6 DEF f
<1>5. IsFiniteSet(S) /\ Cardinality(S) = Len(multi.cfgs)
  <2>1. 1 \in Int /\ Len(multi.cfgs) \in Int
    BY <1>1
  <2>2. IsFiniteSet(S) /\ Cardinality(S) = IF 1 > Len(multi.cfgs) THEN 0 ELSE Len(multi.cfgs) - 1 + 1
    BY <2>1, FS_Interval
  <2> QED
    BY <1>1, <2>2
<1> HIDE DEF f, T
<1>6. f \in [S -> T]
  BY <1>2 DEF f
<1>7. f \in Bijection(S, T)
  BY <1>3, <1>4, <1>6 DEF Bijection, Injection, Surjection, IsInjective
<1> HIDE DEF S
<1>8. ExistsBijection(S, T)
  BY <1>7 DEF ExistsBijection
<1>9. Cardinality(T) = Cardinality(S)
  BY <1>5, <1>8, FS_Bijection
<1> QED
  BY <1>5, <1>9 DEF T

\* A handler serves its log as the configuration says.
AsConfigured(h) ==
    /\ C!Last(h.path) \in {"add-chain", "add-pre-chain"} =>
         h.info.signer \notin {Unset, Malformed} /\ ~h.log.isMirror /\ ~h.log.isReadonly
    /\ h.info.sthGetter = "frozen" => h.log.frozenSTH.signedBy = h.log.publicKey
    /\ h.info.keyUsages = IF C!Contains(h.log.ekus, "Any") THEN {} ELSE C!ToSet(h.log.ekus)

LEMMA ServedAsConfigured ==
    ASSUME NEW Names, NEW Values, NEW multi, NEW base \in Seq(Names), IsSetUp(multi, base),
           multi.cfgs \in Seq(C!LogConfigs(Names, Values)), NEW h \in Mux(multi, base)
    PROVE  AsConfigured(h)
<1>1. PICK i \in DOMAIN multi.cfgs : \E e \in EndpointsOf(multi.cfgs[i]) :
        h = Handler(multi.cfgs[i], base, Client(multi, multi.cfgs[i].backend), e)
  <2>1. HasLog(multi, base, h)
    BY HandlerHasLog
  <2> QED
    BY <2>1, Zenon DEF HasLog
<1>2. PICK c, client : c = multi.cfgs[i] /\ client = Client(multi, multi.cfgs[i].backend)
  OBVIOUS
<1>3. PICK e \in EndpointsOf(c) : h = Handler(c, base, client, e)
  BY <1>1, <1>2
<1>4. c \in C!LogConfigs(Names, Values)
  <2>1. PICK R : R = C!LogConfigs(Names, Values)
    OBVIOUS
  <2> QED
    BY <1>2, <2>1
<1>5. C!Last(h.path) = e /\ h.log = c /\ h.info = C!setUpLogInfo(c)
  BY <1>3, <1>4, PathsEnd, HandlerFields
<1>6. C!ValidateLogConfig(c).ok /\ C!setUpLogInfo(c).ok
  BY <1>2 DEF IsSetUp, C!ValidateLogMultiConfig, C!validateConfigs
<1>7. PICK usages : usages = C!KeyUsages(c.ekus)
  OBVIOUS
<1>8. C!ConfigWithUsages(c, usages).ok /\ C!ConfigWithUsages(c, usages) = C!ValidateLogConfig(c)
  BY <1>6, <1>7 DEF C!ValidateLogConfig
<1>9. /\ C!KeysAreValid(c) /\ C!FrozenIsValid(c) /\ usages.ok
      /\ C!ValidateLogConfig(c).keyUsages = usages.usages
  BY <1>8 DEF C!ConfigWithUsages, C!Error
<1>10. /\ C!setUpLogInfo(c).signer = IF c.isMirror THEN Unset ELSE c.privateKey
       /\ C!setUpLogInfo(c).keyUsages = C!ValidateLogConfig(c).keyUsages
       /\ C!setUpLogInfo(c).sthGetter = IF c.frozenSTH # Unset THEN "frozen" ELSE IF c.isMirror THEN "mirror" ELSE "log"
  BY <1>6 DEF C!setUpLogInfo, C!Error
<1>11. e \in {"add-chain", "add-pre-chain"} =>
         C!setUpLogInfo(c).signer \notin {Unset, Malformed} /\ ~c.isMirror /\ ~c.isReadonly
  BY <1>9, <1>10 DEF EndpointsOf, C!KeysAreValid
<1>12. C!setUpLogInfo(c).sthGetter = "frozen" => c.frozenSTH.signedBy = c.publicKey
  BY <1>9, <1>10 DEF C!FrozenIsValid
<1>13. C!setUpLogInfo(c).keyUsages = IF C!Contains(c.ekus, "Any") THEN {} ELSE C!ToSet(c.ekus)
  <2>1. c.ekus \in Seq(Names)
    BY <1>4 DEF C!LogConfigs
  <2> QED
    BY <1>7, <1>9, <1>10, <2>1, UsagesAreListed
<1> QED
  BY <1>5, <1>11, <1>12, <1>13 DEF AsConfigured

LEMMA AcceptedIsKeptApart ==
    ASSUME NEW Names, NEW Values, NEW multi, NEW base \in Seq(Names), C!ValidateLogMultiConfig(multi),
           multi.cfgs \in Seq(C!LogConfigs(Names, Values))
    PROVE  C!KeepsApart(C!Serve(multi, base), multi)
<1> DEFINE handlers == [i \in DOMAIN multi.cfgs |-> HandlersOf(multi, base, i)]
           served == C!Serve(multi, base)
<1>1. served = IF \E i \in DOMAIN multi.cfgs : ~C!setUpLogInfo(multi.cfgs[i]).ok THEN C!Exit ELSE C!Register(handlers)
  BY Zenon DEF C!Serve, HandlersOf, Client
<1> HIDE DEF served
<1> SUFFICES ASSUME served.at = "serving" PROVE C!KeepsApart(served, multi)
  BY DEF served, C!KeepsApart
<1>2. /\ \A i \in DOMAIN multi.cfgs : C!setUpLogInfo(multi.cfgs[i]).ok
      /\ served = C!Register(handlers)
  BY <1>1 DEF C!Exit
<1>3. /\ ~\E i, j \in DOMAIN handlers : i # j /\ \E h \in handlers[i], g \in handlers[j] : h.path = g.path
      /\ served.mux = UNION C!ToSet(handlers)
  BY <1>2 DEF C!Register
<1>4. DOMAIN handlers = DOMAIN multi.cfgs /\ \A i \in DOMAIN multi.cfgs : handlers[i] = HandlersOf(multi, base, i)
  OBVIOUS
<1> HIDE DEF handlers
<1>5. IsSetUp(multi, base)
  <2>1. ASSUME NEW i \in DOMAIN multi.cfgs, NEW j \in DOMAIN multi.cfgs, i # j,
               NEW h \in HandlersOf(multi, base, i), NEW g \in HandlersOf(multi, base, j)
        PROVE  h.path # g.path
    BY <1>3, <1>4, <2>1
  <2> QED
    BY <1>2, <2>1, Zenon DEF IsSetUp
<1>6. served.mux = Mux(multi, base)
  BY <1>3, <1>4 DEF C!ToSet, Mux
<1>7. Cardinality({h \in served.mux : C!Last(h.path) = "get-sth"}) = Len(multi.cfgs)
  BY <1>5, <1>6, OneOfEach
<1>8. ASSUME NEW h \in served.mux, NEW g \in served.mux
      PROVE  /\ h.path = g.path => h = g
             /\ h.client = g.client /\ h.log.logId = g.log.logId => h.log = g.log
  BY <1>5, <1>6, PathsAreApart, TreesAreApart
<1>9. ASSUME NEW h \in served.mux PROVE AsConfigured(h)
  BY <1>5, <1>6, ServedAsConfigured
<1> QED
  BY <1>7, <1>8, <1>9 DEF C!KeepsApart, AsConfigured, C!Cardinality, Cardinality

\* The same of what main reads from the file that its flags name.
LEMMA MainServesItsOwn ==
    ASSUME NEW Names, NEW Values, NEW m, m.cfgs \in Seq(C!LogConfigs(Names, Values)),
           NEW rpcBackend, NEW handlerPrefix \in Seq(Names)
    PROVE  C!ServesItsOwn(m, rpcBackend, handlerPrefix)
<1> DEFINE multi == IF rpcBackend = Unset THEN m ELSE C!ToMultiLogConfig(m.cfgs, rpcBackend)
           read == C!ReadConfig(m, rpcBackend)
           All == Values \cup {"default"}
<1>1. Len(multi.cfgs) = Len(m.cfgs) /\ multi.cfgs \in Seq(C!LogConfigs(Names, All))
  <2>1. CASE rpcBackend = Unset
    <3>1. C!LogConfigs(Names, Values) \subseteq C!LogConfigs(Names, All)
      BY DEF C!LogConfigs
    <3>2. PICK R, Q : R = C!LogConfigs(Names, Values) /\ Q = C!LogConfigs(Names, All)
      OBVIOUS
    <3>3. m.cfgs \in Seq(R) /\ R \subseteq Q
      BY <3>1, <3>2
    <3>4. m.cfgs \in Seq(Q)
      BY <3>3
    <3> QED
      BY <2>1, <3>2, <3>4
  <2>2. CASE rpcBackend # Unset
    <3>1. multi.cfgs = [i \in DOMAIN m.cfgs |-> [m.cfgs[i] EXCEPT !.backend = "default"]]
      BY <2>2 DEF C!ToMultiLogConfig
    <3>2. \A c \in C!LogConfigs(Names, Values) : [c EXCEPT !.backend = "default"] \in C!LogConfigs(Names, All)
      BY DEF C!LogConfigs
    <3>3. PICK R, Q : R = C!LogConfigs(Names, Values) /\ Q = C!LogConfigs(Names, All)
      OBVIOUS
    <3>4. DOMAIN m.cfgs = 1..Len(m.cfgs) /\ Len(m.cfgs) \in Nat /\ \A i \in 1..Len(m.cfgs) : m.cfgs[i] \in R
      BY <3>3
    <3> HIDE DEF multi
    <3>5. multi.cfgs \in [1..Len(m.cfgs) -> Q]
      BY <3>1, <3>2, <3>3, <3>4
    <3>6. PICK n \in Nat : n = Len(m.cfgs)
      BY <3>4
    <3>7. PICK s : s = multi.cfgs
      OBVIOUS
    <3>8. s \in [1..n -> Q]
      BY <3>5, <3>6, <3>7
    <3>9. s \in Seq(Q) /\ Len(s) = n
      BY <3>6, <3>8
    <3> QED
      BY <3>3, <3>6, <3>7, <3>9
  <2> QED
    BY <2>1, <2>2
<1>2. read.ok => read.cfg = multi /\ C!ValidateLogMultiConfig(multi)
  BY Zenon DEF C!ReadConfig, C!Error
<1>3. C!main(m, rpcBackend, handlerPrefix) = IF ~read.ok THEN C!Exit ELSE C!Serve(read.cfg, handlerPrefix)
  BY DEF C!main
<1> HIDE DEF multi, read
<1>4. CASE ~read.ok
  BY <1>3, <1>4 DEF C!ServesItsOwn, C!KeepsApart, C!Exit
<1>5. CASE read.ok
  <2>1. C!main(m, rpcBackend, handlerPrefix) = C!Serve(multi, handlerPrefix) /\ C!ValidateLogMultiConfig(multi)
    BY <1>2, <1>3, <1>5
  <2>2. C!KeepsApart(C!Serve(multi, handlerPrefix), multi)
    <3>1. PICK mu : mu = multi
      OBVIOUS
    <3> QED
      BY <1>1, <2>1, <3>1, AcceptedIsKeptApart
  <2>3. C!KeepsApart(C!Serve(multi, handlerPrefix), m)
    BY <1>1, <2>2 DEF C!KeepsApart
  <2> QED
    BY <2>1, <2>3 DEF C!ServesItsOwn
<1> QED
  BY <1>4, <1>5

\* When ct_server serves, whatever its configuration and its flags, every log has paths and
\* a tree of its own and is served as configured (config.go: ValidateLogMultiConfig; main.go).
THEOREM ConfigurationServesItsOwn ==
    ASSUME NEW Names, NEW Values,
           input.kind = "config" =>
             input.cfgs \in Seq(C!LogConfigs(Names, Values)) /\ input.flags.prefix \in Seq(Names)
    PROVE  ServesItsOwn
<1> SUFFICES ASSUME input.kind = "config"
             PROVE  C!ServesItsOwn([cfgs |-> input.cfgs, backends |-> input.backends],
                                   input.flags.rpcBackend, input.flags.prefix)
  BY DEF ServesItsOwn
<1> DEFINE m == [cfgs |-> input.cfgs, backends |-> input.backends]
<1>1. m.cfgs \in Seq(C!LogConfigs(Names, Values)) /\ input.flags.prefix \in Seq(Names)
  OBVIOUS
<1> HIDE DEF m
<1>2. C!ServesItsOwn(m, input.flags.rpcBackend, input.flags.prefix)
  BY <1>1, MainServesItsOwn
<1> QED
  BY <1>2 DEF m
============================================================================
