---------------------------- MODULE RWLockProofs ----------------------------
(***************************************************************************)
(* Proofs about the reader-writer locks: the invariant IInv of RWLock is   *)
(* inductive, for every set of processes and of locks and every bound on   *)
(* the locks of a process, and the properties follow from it.              *)
(***************************************************************************)
EXTENDS RWLock, FiniteSetTheorems, TLAPS

(* What adding a new element does to a finite set.                           *)
LEMMA AddOne ==
    ASSUME NEW S, IsFiniteSet(S), NEW x, x \notin S
    PROVE  /\ IsFiniteSet(S \cup {x})
           /\ Cardinality(S) \in Nat
           /\ Cardinality(S \cup {x}) = Cardinality(S) + 1
BY FS_AddElement, FS_CardinalityType, ZenonT(60)

(* What removing an element does to a finite set.                            *)
LEMMA RemoveOne ==
    ASSUME NEW S, IsFiniteSet(S), NEW x \in S
    PROVE  /\ IsFiniteSet(S \ {x})
           /\ Cardinality(S) \in Nat /\ Cardinality(S) > 0
           /\ Cardinality(S \ {x}) = Cardinality(S) - 1
<1>1. x \notin S \ {x} /\ (S \ {x}) \cup {x} = S
  BY ZenonT(60)
<1>2. IsFiniteSet(S \ {x})
  BY FS_Subset, ZenonT(60)
<1>. QED  BY <1>1, <1>2, AddOne, SMTT(60)

(* The counts of the tokens, by name, and what one token more changes.       *)
HeldBy(T, p) == Cardinality(OfProc(T, p))
Refs(T, l) == Cardinality(OfLock(T, l))
InMode(T, l, m) == Cardinality(OfMode(T, l, m))
Calls(c, l) == Cardinality({q \in Proc : c[q].lock = l})

OneMore(U, T, p, l, m) ==
    /\ \A q : /\ q = p => HeldBy(U, q) = HeldBy(T, q) + 1
              /\ q # p => HeldBy(U, q) = HeldBy(T, q)
    /\ \A k : /\ k = l => Refs(U, k) = Refs(T, k) + 1
              /\ k # l => Refs(U, k) = Refs(T, k)
    /\ \A k, n : /\ k = l /\ n = m => InMode(U, k, n) = InMode(T, k, n) + 1
                 /\ k # l \/ n # m => InMode(U, k, n) = InMode(T, k, n)

(* Adding a token does that.                                                 *)
LEMMA TokenAdded ==
    ASSUME NEW T, IsFiniteSet(T), NEW p, NEW l, NEW m, NEW i, <<p, l, m, i>> \notin T
    PROVE  /\ IsFiniteSet(T \cup {<<p, l, m, i>>})
           /\ OneMore(T \cup {<<p, l, m, i>>}, T, p, l, m)
<1> DEFINE x == <<p, l, m, i>>
           U == T \cup {x}
<1>0. x[1] = p /\ x[2] = l /\ x[3] = m /\ x \notin T /\ U = T \cup {x}
  BY ZenonT(60)
<1> HIDE DEF x, U
<1>1. IsFiniteSet(U)
  BY <1>0, AddOne, ZenonT(60)
<1>2. ASSUME NEW q
      PROVE  /\ q = p => HeldBy(U, q) = HeldBy(T, q) + 1
             /\ q # p => HeldBy(U, q) = HeldBy(T, q)
  <2>1. IsFiniteSet(OfProc(T, q)) /\ x \notin OfProc(T, q)
    BY <1>0, FS_Subset, ZenonT(60) DEF OfProc
  <2>2. /\ q = p => OfProc(U, q) = OfProc(T, q) \cup {x}
        /\ q # p => OfProc(U, q) = OfProc(T, q)
    BY <1>0, ZenonT(60) DEF OfProc
  <2>. QED  BY <2>1, <2>2, AddOne, ZenonT(60) DEF HeldBy
<1>3. ASSUME NEW k
      PROVE  /\ k = l => Refs(U, k) = Refs(T, k) + 1
             /\ k # l => Refs(U, k) = Refs(T, k)
  <2>1. IsFiniteSet(OfLock(T, k)) /\ x \notin OfLock(T, k)
    BY <1>0, FS_Subset, ZenonT(60) DEF OfLock
  <2>2. /\ k = l => OfLock(U, k) = OfLock(T, k) \cup {x}
        /\ k # l => OfLock(U, k) = OfLock(T, k)
    BY <1>0, ZenonT(60) DEF OfLock
  <2>. QED  BY <2>1, <2>2, AddOne, ZenonT(60) DEF Refs
<1>4. ASSUME NEW k, NEW n
      PROVE  /\ k = l /\ n = m => InMode(U, k, n) = InMode(T, k, n) + 1
             /\ k # l \/ n # m => InMode(U, k, n) = InMode(T, k, n)
  <2>1. IsFiniteSet(OfMode(T, k, n)) /\ x \notin OfMode(T, k, n)
    BY <1>0, FS_Subset, ZenonT(60) DEF OfMode
  <2>2. /\ k = l /\ n = m => OfMode(U, k, n) = OfMode(T, k, n) \cup {x}
        /\ k # l \/ n # m => OfMode(U, k, n) = OfMode(T, k, n)
    BY <1>0, ZenonT(60) DEF OfMode
  <2>. QED  BY <2>1, <2>2, AddOne, ZenonT(60) DEF InMode
<1>5. OneMore(U, T, p, l, m)
  BY <1>2, <1>3, <1>4, ZenonT(60) DEF OneMore
<1>. QED  BY ONLY <1>1, <1>5, ZenonT(60) DEF U, x

(* The counts are natural numbers.                                           *)
LEMMA TokenCounts ==
    ASSUME NEW T, IsFiniteSet(T)
    PROVE  /\ \A q : HeldBy(T, q) \in Nat
           /\ \A k : Refs(T, k) \in Nat
           /\ \A k, n : InMode(T, k, n) \in Nat
BY FS_Subset, FS_CardinalityType, ZenonT(60) DEF OfProc, OfLock, OfMode, HeldBy, Refs, InMode

(* Which tokens there are.                                                   *)
LEMMA TokenMember ==
    ASSUME NEW h, NEW x
    PROVE  x \in TokensIn(h) <=> \E p \in Proc, l \in Lock, m \in Mode :
                               \E i \in 1 .. h[p][l][m] : x = <<p, l, m, i>>
<1>1. ASSUME x \in TokensIn(h)
      PROVE  \E p \in Proc, l \in Lock, m \in Mode :
                               \E i \in 1 .. h[p][l][m] : x = <<p, l, m, i>>
  <2>1. PICK y \in Proc \X Lock \X Mode :
            x \in {<<y[1], y[2], y[3], i>> : i \in 1 .. h[y[1]][y[2]][y[3]]}
    BY <1>1, ZenonT(60) DEF TokensIn
  <2>. QED  BY <2>1, ZenonT(60)
<1>2. ASSUME NEW p \in Proc, NEW l \in Lock, NEW m \in Mode,
             NEW i \in 1 .. h[p][l][m], x = <<p, l, m, i>>
      PROVE  x \in TokensIn(h)
  <2> DEFINE y == <<p, l, m>>
  <2>1. x \in {<<y[1], y[2], y[3], j>> : j \in 1 .. h[y[1]][y[2]][y[3]]}
    BY <1>2, ZenonT(60)
  <2>2. y \in Proc \X Lock \X Mode
    BY ZenonT(60)
  <2> HIDE DEF y
  <2>. QED  BY <2>1, <2>2, ZenonT(60) DEF TokensIn
<1>. QED  BY <1>1, <1>2, ZenonT(60)

(* The change of held_rwlocks, and the type it keeps.                        *)
Handles == [Proc -> [Lock -> [Mode -> Nat]]]
Plus(g, h, p, l, m) == g = [h EXCEPT ![p][l][m] = @ + 1]
Minus(g, h, p, l, m) == h[p][l][m] > 0 /\ g = [h EXCEPT ![p][l][m] = @ - 1]

(* A new handle is a new token.                                              *)
LEMMA HandleAdded ==
    ASSUME NEW h \in Handles,
           NEW p \in Proc, NEW l \in Lock, NEW m \in Mode,
           NEW g, Plus(g, h, p, l, m)
    PROVE  /\ g \in Handles
           /\ <<p, l, m, h[p][l][m] + 1>> \notin TokensIn(h)
           /\ TokensIn(g) = TokensIn(h) \cup {<<p, l, m, h[p][l][m] + 1>>}
<1> DEFINE x == <<p, l, m, h[p][l][m] + 1>>
<1>1. g \in Handles
  BY SMTT(60) DEF Handles, Plus
<1>2. /\ h[p][l][m] \in Nat /\ g[p][l][m] = h[p][l][m] + 1
      /\ \A q \in Proc, k \in Lock, n \in Mode :
            h[q][k][n] \in Nat /\ (g[q][k][n] # h[q][k][n] => q = p /\ k = l /\ n = m)
  BY SMTT(60) DEF Handles, Plus
<1>3. x \notin TokensIn(h)
  BY <1>2, TokenMember, SMTT(60)
<1>4. ASSUME NEW y \in TokensIn(g) PROVE y \in TokensIn(h) \cup {x}
  <2>1. PICK q \in Proc, k \in Lock, n \in Mode :
           \E i \in 1 .. g[q][k][n] : y = <<q, k, n, i>>
    BY ONLY TokenMember, y \in TokensIn(g), SMTT(60)
  <2>2. PICK i \in 1 .. g[q][k][n] : y = <<q, k, n, i>>
    BY <2>1, ZenonT(60)
  <2>3. CASE g[q][k][n] = h[q][k][n]
    BY ONLY <2>2, <2>3, TokenMember, q \in Proc, k \in Lock, n \in Mode, ZenonT(60)
  <2>4. CASE g[q][k][n] # h[q][k][n]
    <3>1. q = p /\ k = l /\ n = m
      BY <2>4, <1>2, ZenonT(60)
    <3>2. CASE i = h[p][l][m] + 1
      BY <3>1, <3>2, <2>2, ZenonT(60)
    <3>3. CASE i # h[p][l][m] + 1
      <4>1. i \in 1 .. h[p][l][m]
        <5>1. i \in 1 .. g[p][l][m]
          BY ONLY <3>1, i \in 1 .. g[q][k][n], ZenonT(60)
        <5>. QED  BY ONLY <5>1, <3>3, <1>2, SMTT(60)
      <4>. QED  BY ONLY <4>1, <3>1, <2>2, TokenMember, p \in Proc, l \in Lock, m \in Mode, ZenonT(60)
    <3>. QED  BY <3>2, <3>3, ZenonT(60)
  <2>. QED  BY <2>3, <2>4, ZenonT(60)
<1>5. ASSUME NEW y \in TokensIn(h) PROVE y \in TokensIn(g)
  <2>1. PICK q \in Proc, k \in Lock, n \in Mode :
           \E i \in 1 .. h[q][k][n] : y = <<q, k, n, i>>
    BY ONLY TokenMember, y \in TokensIn(h), SMTT(60)
  <2>2. PICK i \in 1 .. h[q][k][n] : y = <<q, k, n, i>>
    BY <2>1, ZenonT(60)
  <2>3. i \in 1 .. g[q][k][n]
    BY <2>2, <1>2, SMTT(60)
  <2>. QED  BY ONLY <2>2, <2>3, TokenMember, q \in Proc, k \in Lock, n \in Mode, ZenonT(60)
<1>6. x \in TokensIn(g)
  <2>1. g[p][l][m] \in 1 .. g[p][l][m]
    BY <1>2, SMTT(60)
  <2>. QED  BY ONLY <2>1, <1>2, TokenMember, p \in Proc, l \in Lock, m \in Mode, ZenonT(60)
<1> HIDE DEF x
<1>7. TokensIn(g) = TokensIn(h) \cup {x}
  BY ONLY <1>4, <1>5, <1>6, ZenonT(60)
<1>. QED  BY ONLY <1>1, <1>3, <1>7, ZenonT(60) DEF x

(* A handle that goes takes a token with it.                                 *)
LEMMA HandleRemoved ==
    ASSUME NEW h \in Handles,
           NEW p \in Proc, NEW l \in Lock, NEW m \in Mode,
           NEW g, Minus(g, h, p, l, m)
    PROVE  /\ g \in Handles
           /\ <<p, l, m, h[p][l][m]>> \in TokensIn(h)
           /\ TokensIn(g) = TokensIn(h) \ {<<p, l, m, h[p][l][m]>>}
<1> DEFINE e == [g EXCEPT ![p][l][m] = @ + 1]
<1>1. g \in Handles
  BY SMTT(60) DEF Handles, Minus
<1>2. g[p][l][m] + 1 = h[p][l][m]
  BY SMTT(60) DEF Handles, Minus
<1>3. e = h
  <2>1. e \in [Proc -> [Lock -> [Mode -> Nat]]] /\ h \in [Proc -> [Lock -> [Mode -> Nat]]]
    BY <1>1, SMTT(60) DEF Handles
  <2>2. ASSUME NEW q \in Proc, NEW k \in Lock, NEW n \in Mode PROVE e[q][k][n] = h[q][k][n]
    BY SMTT(60) DEF Handles, Minus
  <2> HIDE DEF e
  <2>3. ASSUME NEW q \in Proc, NEW k \in Lock PROVE e[q][k] = h[q][k]
    BY ONLY <2>1, <2>2, <2>3, SMTT(60)
  <2>4. ASSUME NEW q \in Proc PROVE e[q] = h[q]
    BY ONLY <2>1, <2>3, <2>4, SMTT(60)
  <2>. QED  BY ONLY <2>1, <2>4, SMTT(60)
<1>4. Plus(h, g, p, l, m)
  BY <1>3, ZenonT(60) DEF Plus
<1> HIDE DEF e
<1>5. /\ <<p, l, m, g[p][l][m] + 1>> \notin TokensIn(g)
      /\ TokensIn(h) = TokensIn(g) \cup {<<p, l, m, g[p][l][m] + 1>>}
  BY ONLY <1>1, <1>4, HandleAdded, p \in Proc, l \in Lock, m \in Mode, SMTT(60)
<1>. QED  BY ONLY <1>1, <1>2, <1>5, ZenonT(60)

(* How many processes are in a call for a lock, once one has entered.        *)
SameBut(c, d, p) == \A q \in Proc \ {p} : c[q] = d[q]

(* From c to d the process p enters a call for the lock l.                   *)
LEMMA CallEnters ==
    ASSUME NEW c, NEW d, NEW p \in Proc, NEW l \in Lock,
           c[p].lock = NoLock, d[p].lock = l, SameBut(c, d, p), NEW k \in Lock
    PROVE  /\ k = l => Calls(d, k) = Calls(c, k) + 1
           /\ k # l => Calls(d, k) = Calls(c, k)
<1> DEFINE A == {q \in Proc : c[q].lock = k}
           B == {q \in Proc : d[q].lock = k}
<1>1. IsFiniteSet(A)
  BY ProcAssumption, FS_Subset, ZenonT(60)
<1>2. k = l => B = A \cup {p} /\ p \notin A
  BY NoLockAssumption, ZenonT(60) DEF SameBut
<1>3. k # l => B = A
  BY NoLockAssumption, ZenonT(60) DEF SameBut
<1> HIDE DEF A, B
<1>4. /\ k = l => Cardinality(B) = Cardinality(A) + 1
      /\ k # l => Cardinality(B) = Cardinality(A)
  BY <1>1, <1>2, <1>3, AddOne, ZenonT(60)
<1>. QED  BY <1>4, ZenonT(60) DEF A, B, Calls

(* The effect of a new handle on the counts.                                 *)
LEMMA CountsAdded ==
    ASSUME NEW h \in Handles, IsFiniteSet(TokensIn(h)),
           NEW p \in Proc, NEW l \in Lock, NEW m \in Mode,
           NEW g, Plus(g, h, p, l, m)
    PROVE  /\ g \in Handles
           /\ IsFiniteSet(TokensIn(g))
           /\ OneMore(TokensIn(g), TokensIn(h), p, l, m)
<1> DEFINE i == h[p][l][m] + 1
<1>1. g \in Handles /\ <<p, l, m, i>> \notin TokensIn(h) /\ TokensIn(g) = TokensIn(h) \cup {<<p, l, m, i>>}
  BY HandleAdded, SMTT(60)
<1> HIDE DEF i
<1>2. /\ IsFiniteSet(TokensIn(h) \cup {<<p, l, m, i>>})
      /\ OneMore(TokensIn(h) \cup {<<p, l, m, i>>}, TokensIn(h), p, l, m)
  BY ONLY <1>1, TokenAdded, IsFiniteSet(TokensIn(h)), ZenonT(60)
<1>. QED  BY <1>1, <1>2, ZenonT(60)

(* The effect of a handle that goes: the same, backwards.                    *)
LEMMA CountsRemoved ==
    ASSUME NEW h \in Handles, IsFiniteSet(TokensIn(h)),
           NEW p \in Proc, NEW l \in Lock, NEW m \in Mode,
           NEW g, Minus(g, h, p, l, m)
    PROVE  /\ g \in Handles
           /\ IsFiniteSet(TokensIn(g))
           /\ OneMore(TokensIn(h), TokensIn(g), p, l, m)
<1>1. /\ g \in Handles
      /\ <<p, l, m, h[p][l][m]>> \in TokensIn(h)
      /\ TokensIn(g) = TokensIn(h) \ {<<p, l, m, h[p][l][m]>>}
  BY HandleRemoved, SMTT(60)
<1>2. IsFiniteSet(TokensIn(g))
  BY <1>1, FS_Subset, ZenonT(60)
<1>3. /\ <<p, l, m, h[p][l][m]>> \notin TokensIn(g)
      /\ TokensIn(h) = TokensIn(g) \cup {<<p, l, m, h[p][l][m]>>}
  BY <1>1, ZenonT(60)
<1>4. OneMore(TokensIn(g) \cup {<<p, l, m, h[p][l][m]>>}, TokensIn(g), p, l, m)
  BY ONLY <1>2, <1>3, TokenAdded, ZenonT(60)
<1>. QED  BY <1>1, <1>2, <1>3, <1>4, ZenonT(60)

-----------------------------------------------------------------------------
(* The invariant of the counts, with the names.                              *)
Counts(w, n, T, c) ==
    /\ IsFiniteSet(T)
    /\ \A p \in Proc : n[p] = HeldBy(T, p)
    /\ \A l \in Lock : /\ w[l].shared = InMode(T, l, "RW_SHARED")
                       /\ w[l].exclusive = InMode(T, l, "RW_EXCLUSIVE")
                       /\ w[l].ref = Refs(T, l) + Calls(c, l)

(* It is the same, in this state and in the next.                            *)
LEMMA CountInvNamed ==
    /\ CountInv <=> Counts(word, numHeld, Tokens, call)
    /\ CountInv' <=> Counts(word', numHeld', Tokens', call')
BY ZenonT(60) DEF CountInv, Counts, HeldBy, InMode, Refs, Calls, Calling

(* The steps of the code that change held_rwlocks, on the counts.            *)
LEMMA Added ==
    ASSUME TypeOK, CountInv, NEW p \in Proc, NEW l \in Lock, NEW m \in Mode,
           AddHandle(p, l, m), numHeld[p] < MaxHeld
    PROVE  /\ handles' \in Handles /\ IsFiniteSet(Tokens')
           /\ OneMore(Tokens', Tokens, p, l, m)
           /\ numHeld' \in [Proc -> 0 .. MaxHeld]
           /\ \A q \in Proc : numHeld'[q] = HeldBy(Tokens', q)
<1>1. handles' \in Handles /\ IsFiniteSet(Tokens') /\ OneMore(Tokens', Tokens, p, l, m)
  BY CountsAdded, ZenonT(60) DEF TypeOK, CountInv, Tokens, AddHandle, Handles, Plus
<1>2. /\ numHeld' \in [Proc -> 0 .. MaxHeld]
      /\ \A q \in Proc : q # p => numHeld'[q] = numHeld[q]
      /\ numHeld'[p] = numHeld[p] + 1
  BY MaxHeldAssumption, SMTT(60) DEF TypeOK, AddHandle
<1>3. \A q \in Proc : numHeld[q] = HeldBy(Tokens, q)
  BY CountInvNamed, ZenonT(60) DEF Counts
<1>4. /\ HeldBy(Tokens', p) = HeldBy(Tokens, p) + 1
      /\ \A q : q # p => HeldBy(Tokens', q) = HeldBy(Tokens, q)
  BY <1>1, ZenonT(60) DEF OneMore
<1>5. ASSUME NEW q \in Proc PROVE numHeld'[q] = HeldBy(Tokens', q)
  BY ONLY <1>2, <1>3, <1>4, q \in Proc, ZenonT(60)
<1>. QED  BY <1>1, <1>2, <1>5, ZenonT(60)

(* The same for a handle that goes.                                          *)
LEMMA Removed ==
    ASSUME TypeOK, CountInv, NEW p \in Proc, NEW l \in Lock, NEW m \in Mode,
           RemoveHandle(p, l, m)
    PROVE  /\ handles' \in Handles /\ IsFiniteSet(Tokens')
           /\ OneMore(Tokens, Tokens', p, l, m)
           /\ numHeld' \in [Proc -> 0 .. MaxHeld]
           /\ \A q \in Proc : numHeld'[q] = HeldBy(Tokens', q)
<1>1. handles' \in Handles /\ IsFiniteSet(Tokens') /\ OneMore(Tokens, Tokens', p, l, m)
  BY CountsRemoved, ZenonT(60) DEF TypeOK, CountInv, Tokens, RemoveHandle, Handles, Minus
<1>2. /\ numHeld[p] \in 0 .. MaxHeld
      /\ numHeld' = [numHeld EXCEPT ![p] = @ - 1] /\ DOMAIN numHeld = Proc
      /\ \A q \in Proc : q # p => numHeld'[q] = numHeld[q]
      /\ numHeld'[p] = numHeld[p] - 1
  BY ZenonT(60) DEF TypeOK, RemoveHandle
<1>3. /\ \A q \in Proc : numHeld[q] = HeldBy(Tokens, q)
      /\ HeldBy(Tokens', p) \in Nat
  BY <1>1, CountInvNamed, TokenCounts, ZenonT(60) DEF Counts
<1>4. /\ HeldBy(Tokens, p) = HeldBy(Tokens', p) + 1
      /\ \A q : q # p => HeldBy(Tokens, q) = HeldBy(Tokens', q)
  BY <1>1, ZenonT(60) DEF OneMore
<1>5. numHeld'[p] = HeldBy(Tokens', p)
  BY ONLY <1>2, <1>3, <1>4, p \in Proc, SMTT(60)
<1>6. ASSUME NEW q \in Proc PROVE numHeld'[q] = HeldBy(Tokens', q)
  BY ONLY <1>2, <1>3, <1>4, <1>5, q \in Proc, ZenonT(60)
<1>7. numHeld' \in [Proc -> 0 .. MaxHeld]
  <2>1. numHeld[p] - 1 \in 0 .. MaxHeld
    BY <1>2, <1>3, <1>5, MaxHeldAssumption, SMTT(60)
  <2>. QED  BY <1>2, <2>1, ZenonT(60) DEF TypeOK
<1>. QED  BY <1>1, <1>6, <1>7, ZenonT(60)

(* How many processes are in a call for a lock is a natural number.          *)
LEMMA CallCounts == ASSUME NEW c, NEW k PROVE Calls(c, k) \in Nat
BY ProcAssumption, FS_Subset, FS_CardinalityType, ZenonT(60) DEF Calls

(* A step that leaves the handles alone leaves the tokens alone.             *)
LEMMA TokensKept ==
    ASSUME TypeOK, CountInv, UNCHANGED <<handles, numHeld>>
    PROVE  /\ handles' \in Handles /\ IsFiniteSet(Tokens') /\ Tokens' = Tokens
           /\ numHeld' \in [Proc -> 0 .. MaxHeld]
           /\ \A q \in Proc : numHeld'[q] = HeldBy(Tokens', q)
BY CountInvNamed, ZenonT(60) DEF TypeOK, CountInv, Tokens, Handles, Counts

(* Fields that count something are natural numbers.                          *)
IntWord == [shared : Int, exclusive : Int, ref : Int, waiter : BOOLEAN]

(* The record of the four fields is such a word.                             *)
LEMMA IntWordIntro ==
    ASSUME NEW a \in Int, NEW b \in Int, NEW c \in Int, NEW d \in BOOLEAN
    PROVE  [shared |-> a, exclusive |-> b, ref |-> c, waiter |-> d] \in IntWord
BY ZenonT(60) DEF IntWord

(* So the type of a word follows from the counts.                            *)
LEMMA WordType ==
    ASSUME word' \in [Lock -> IntWord], CountInv'
    PROVE  word' \in [Lock -> Word]
<1>1. Counts(word', numHeld', Tokens', call')
  BY CountInvNamed, ZenonT(60)
<1>2. \A k \in Lock : word'[k].shared \in Nat /\ word'[k].exclusive \in Nat /\ word'[k].ref \in Nat
  BY <1>1, TokenCounts, CallCounts, SMTT(60) DEF Counts
<1>. QED  BY <1>2, ZenonT(60) DEF IntWord, Word

(* A step that changes the word of one lock, and counts right for this lock. *)
LEMMA WordStep ==
    ASSUME TypeOK, CountInv, NEW l \in Lock, NEW w \in IntWord,
           word' = [word EXCEPT ![l] = w],
           IsFiniteSet(Tokens'), \A q \in Proc : numHeld'[q] = HeldBy(Tokens', q),
           \A k \in Lock, n \in Mode : k # l => /\ InMode(Tokens', k, n) = InMode(Tokens, k, n)
                                              /\ Refs(Tokens', k) = Refs(Tokens, k)
                                              /\ Calls(call', k) = Calls(call, k),
           w.shared = InMode(Tokens', l, "RW_SHARED"),
           w.exclusive = InMode(Tokens', l, "RW_EXCLUSIVE"),
           w.ref = Refs(Tokens', l) + Calls(call', l)
    PROVE  CountInv' /\ word' \in [Lock -> Word]
<1>1. Counts(word, numHeld, Tokens, call)
  BY CountInvNamed, ZenonT(60)
<1>2. word' \in [Lock -> IntWord] /\ word'[l] = w /\ \A k \in Lock : k # l => word'[k] = word[k]
  BY SMTT(60) DEF TypeOK, Word, IntWord
<1>3. ASSUME NEW k \in Lock
      PROVE  /\ word'[k].shared = InMode(Tokens', k, "RW_SHARED")
             /\ word'[k].exclusive = InMode(Tokens', k, "RW_EXCLUSIVE")
             /\ word'[k].ref = Refs(Tokens', k) + Calls(call', k)
  <2>1. CASE k = l
    BY <1>2, <2>1, ZenonT(60)
  <2>2. CASE k # l
    BY <1>1, <1>2, <2>2, ZenonT(60) DEF Counts, Mode, LockMode
  <2>. QED  BY <2>1, <2>2, ZenonT(60)
<1>4. Counts(word', numHeld', Tokens', call')
  BY <1>3, ZenonT(60) DEF Counts
<1>5. CountInv'
  BY <1>4, CountInvNamed, ZenonT(60)
<1>. QED  BY <1>2, <1>5, WordType, ZenonT(60)

(* What the counts say of one word.                                          *)
LEMMA WordAt ==
    ASSUME TypeOK, CountInv, NEW l \in Lock
    PROVE  /\ word[l] \in Word
           /\ word[l].shared = InMode(Tokens, l, "RW_SHARED")
           /\ word[l].exclusive = InMode(Tokens, l, "RW_EXCLUSIVE")
           /\ word[l].ref = Refs(Tokens, l) + Calls(call, l)
           /\ Refs(Tokens, l) \in Nat /\ Calls(call, l) \in Nat
           /\ InMode(Tokens, l, "RW_SHARED") \in Nat /\ InMode(Tokens, l, "RW_EXCLUSIVE") \in Nat
BY CountInvNamed, TokenCounts, CallCounts, ZenonT(60) DEF TypeOK, Counts

-----------------------------------------------------------------------------
(* Types and counts, action by action: RWLockDeclare.                        *)
LEMMA DeclareCounts ==
    ASSUME IInv, NEW p \in Proc, NEW l \in Lock, RWLockDeclare(p, l)
    PROVE  TypeOK' /\ CountInv'
<1> DEFINE w == [word[l] EXCEPT !.ref = @ + 1]
<1>1. TypeOK /\ CountInv
  BY ZenonT(60) DEF IInv
<1>2. /\ handles' \in Handles /\ IsFiniteSet(Tokens')
      /\ OneMore(Tokens', Tokens, p, l, "RW_DECLARE")
      /\ numHeld' \in [Proc -> 0 .. MaxHeld] /\ \A q \in Proc : numHeld'[q] = HeldBy(Tokens', q)
  BY <1>1, Added, ZenonT(60) DEF RWLockDeclare, Mode
<1>3. word' = [word EXCEPT ![l] = w] /\ holdoff' \in [Proc -> Int] /\ UNCHANGED <<pc, call, old, all, skewed>>
  BY <1>1, SMTT(60) DEF RWLockDeclare, TypeOK
<1>4. /\ w \in IntWord /\ w.shared = word[l].shared /\ w.exclusive = word[l].exclusive
      /\ w.ref = word[l].ref + 1
  BY <1>1, WordAt, SMTT(60) DEF Word, IntWord
<1> HIDE DEF w
<1>5. /\ w.shared = InMode(Tokens', l, "RW_SHARED") /\ w.exclusive = InMode(Tokens', l, "RW_EXCLUSIVE")
      /\ w.ref = Refs(Tokens', l) + Calls(call', l)
  <2>1. /\ InMode(Tokens', l, "RW_SHARED") = InMode(Tokens, l, "RW_SHARED")
        /\ InMode(Tokens', l, "RW_EXCLUSIVE") = InMode(Tokens, l, "RW_EXCLUSIVE")
        /\ Refs(Tokens', l) = Refs(Tokens, l) + 1
    BY <1>2, ZenonT(60) DEF OneMore
  <2>. QED  BY <1>1, <1>3, <1>4, <2>1, WordAt, SMTT(60)
<1>6. \A k \in Lock, n \in Mode : k # l => /\ InMode(Tokens', k, n) = InMode(Tokens, k, n)
                                         /\ Refs(Tokens', k) = Refs(Tokens, k)
                                         /\ Calls(call', k) = Calls(call, k)
  BY <1>2, <1>3, ZenonT(60) DEF OneMore
<1>7. CountInv' /\ word' \in [Lock -> Word]
  BY <1>1, <1>2, <1>3, <1>4, <1>5, <1>6, WordStep, ZenonT(60)
<1>. QED  BY <1>1, <1>2, <1>3, <1>7, ZenonT(60) DEF TypeOK, Handles

(* RWLockUndeclare, called alone or by RWLockReleaseAll.                     *)
LEMMA UndeclareCounts ==
    ASSUME IInv, NEW p \in Proc, NEW l \in Lock, NEW h \in Int, Undeclare(p, l, h), UNCHANGED <<all, skewed>>
    PROVE  TypeOK' /\ CountInv'
<1> DEFINE w == [word[l] EXCEPT !.ref = @ - 1]
<1>1. TypeOK /\ CountInv
  BY ZenonT(60) DEF IInv
<1>2. /\ handles' \in Handles /\ IsFiniteSet(Tokens')
      /\ OneMore(Tokens, Tokens', p, l, "RW_DECLARE")
      /\ numHeld' \in [Proc -> 0 .. MaxHeld] /\ \A q \in Proc : numHeld'[q] = HeldBy(Tokens', q)
  BY <1>1, Removed, ZenonT(60) DEF Undeclare, Mode
<1>3. word' = [word EXCEPT ![l] = w] /\ holdoff' \in [Proc -> Int] /\ UNCHANGED <<pc, call, old, all, skewed>>
  BY <1>1, SMTT(60) DEF Undeclare, TypeOK
<1>4. /\ w \in IntWord /\ w.shared = word[l].shared /\ w.exclusive = word[l].exclusive
      /\ w.ref = word[l].ref - 1
  BY <1>1, WordAt, SMTT(60) DEF Word, IntWord
<1> HIDE DEF w
<1>5. /\ w.shared = InMode(Tokens', l, "RW_SHARED") /\ w.exclusive = InMode(Tokens', l, "RW_EXCLUSIVE")
      /\ w.ref = Refs(Tokens', l) + Calls(call', l)
  <2>1. /\ InMode(Tokens', l, "RW_SHARED") = InMode(Tokens, l, "RW_SHARED")
        /\ InMode(Tokens', l, "RW_EXCLUSIVE") = InMode(Tokens, l, "RW_EXCLUSIVE")
        /\ Refs(Tokens, l) = Refs(Tokens', l) + 1 /\ Refs(Tokens', l) \in Nat
    BY <1>2, TokenCounts, ZenonT(60) DEF OneMore
  <2>. QED  BY <1>1, <1>3, <1>4, <2>1, WordAt, SMTT(60)
<1>6. \A k \in Lock, n \in Mode : k # l => /\ InMode(Tokens', k, n) = InMode(Tokens, k, n)
                                         /\ Refs(Tokens', k) = Refs(Tokens, k)
                                         /\ Calls(call', k) = Calls(call, k)
  BY <1>2, <1>3, ZenonT(60) DEF OneMore
<1>7. CountInv' /\ word' \in [Lock -> Word]
  BY <1>1, <1>2, <1>3, <1>4, <1>5, <1>6, WordStep, ZenonT(60)
<1>. QED  BY <1>1, <1>2, <1>3, <1>7, ZenonT(60) DEF TypeOK, Handles

(* RWLockAcquire: a process enters a call.                                   *)
LEMMA AcquireCounts ==
    ASSUME IInv, NEW p \in Proc, NEW l \in Lock, NEW m \in LockMode, RWLockAcquire(p, l, m)
    PROVE  TypeOK' /\ CountInv'
<1> DEFINE w == [word[l] EXCEPT !.ref = @ + 1]
<1>1. TypeOK /\ CountInv
  BY ZenonT(60) DEF IInv
<1>2. /\ handles' \in Handles /\ IsFiniteSet(Tokens') /\ Tokens' = Tokens
      /\ numHeld' \in [Proc -> 0 .. MaxHeld] /\ \A q \in Proc : numHeld'[q] = HeldBy(Tokens', q)
  BY <1>1, TokensKept, ZenonT(60) DEF RWLockAcquire
<1>3. /\ word' = [word EXCEPT ![l] = w] /\ holdoff' \in [Proc -> Int] /\ UNCHANGED <<old, all, skewed>>
      /\ pc' \in [Proc -> {"idle", "read", "cas", "unref"}]
      /\ call' = [call EXCEPT ![p] = [lock |-> l, mode |-> m]]
      /\ call[p].lock = NoLock
  BY <1>1, SMTT(60) DEF RWLockAcquire, TypeOK, Running, IInv, CallInv
<1>4. call' \in [Proc -> [lock : Lock \cup {NoLock}, mode : Mode]]
  BY <1>1, <1>3, ZenonT(60) DEF TypeOK, Mode
<1>5. /\ w \in IntWord /\ w.shared = word[l].shared /\ w.exclusive = word[l].exclusive
      /\ w.ref = word[l].ref + 1
  BY <1>1, WordAt, SMTT(60) DEF Word, IntWord
<1> HIDE DEF w
<1>6. /\ Calls(call', l) = Calls(call, l) + 1
      /\ \A k \in Lock : k # l => Calls(call', k) = Calls(call, k)
  <2>1. call'[p].lock = l /\ SameBut(call, call', p)
    BY <1>1, <1>3, ZenonT(60) DEF TypeOK, SameBut
  <2>2. call[p].lock = NoLock
    BY <1>3, ZenonT(60)
  <2>. QED  BY ONLY <2>1, <2>2, CallEnters, p \in Proc, l \in Lock, SMTT(60)
<1>7. /\ w.shared = InMode(Tokens', l, "RW_SHARED") /\ w.exclusive = InMode(Tokens', l, "RW_EXCLUSIVE")
      /\ w.ref = Refs(Tokens', l) + Calls(call', l)
  BY <1>1, <1>2, <1>5, <1>6, WordAt, SMTT(60)
<1>8. \A k \in Lock, n \in Mode : k # l => /\ InMode(Tokens', k, n) = InMode(Tokens, k, n)
                                         /\ Refs(Tokens', k) = Refs(Tokens, k)
                                         /\ Calls(call', k) = Calls(call, k)
  BY <1>2, <1>6, ZenonT(60)
<1>9. CountInv' /\ word' \in [Lock -> Word]
  BY <1>1, <1>2, <1>3, <1>5, <1>7, <1>8, WordStep, ZenonT(60)
<1>. QED  BY <1>1, <1>2, <1>3, <1>4, <1>9, ZenonT(60) DEF TypeOK, Handles

(* The compare-and-exchange that takes the lock: the reference of the call   *)
(* becomes the reference of the handle.                                      *)
LEMMA CasAcquiresCounts ==
    ASSUME IInv, NEW p \in Proc, CasAcquires(p)
    PROVE  TypeOK' /\ CountInv'
<1> DEFINE l == call[p].lock
           m == call[p].mode
           w == Acquired(p)
<1>1. TypeOK /\ CountInv
  BY ZenonT(60) DEF IInv
<1>2. l \in Lock /\ m \in LockMode /\ m \in Mode /\ numHeld[p] < MaxHeld
  BY <1>1, ZenonT(60) DEF IInv, CallInv, TypeOK, CasAcquires, Mode
<1>3. /\ handles' \in Handles /\ IsFiniteSet(Tokens') /\ OneMore(Tokens', Tokens, p, l, m)
      /\ numHeld' \in [Proc -> 0 .. MaxHeld] /\ \A q \in Proc : numHeld'[q] = HeldBy(Tokens', q)
  BY <1>1, <1>2, Added, ZenonT(60) DEF CasAcquires
<1>4. /\ word' = [word EXCEPT ![l] = w] /\ old[p] = word[l] /\ UNCHANGED <<holdoff, all, skewed>>
      /\ pc' = [pc EXCEPT ![p] = "idle"] /\ call' = [call EXCEPT ![p] = NoCall]
      /\ old' = [old EXCEPT ![p] = Free]
  BY ZenonT(60) DEF CasAcquires, Return, OutOfScope
<1>5. /\ pc' \in [Proc -> {"idle", "read", "cas", "unref"}]
      /\ call' \in [Proc -> [lock : Lock \cup {NoLock}, mode : Mode]]
      /\ old' \in [Proc -> Word]
  BY <1>1, <1>4, ZenonT(60) DEF TypeOK, NoCall, Mode, Free, Word
<1>6. /\ w \in IntWord /\ w.ref = word[l].ref
      /\ m = "RW_EXCLUSIVE" => w.exclusive = word[l].exclusive + 1 /\ w.shared = word[l].shared
      /\ m = "RW_SHARED" => w.shared = word[l].shared + 1 /\ w.exclusive = word[l].exclusive
  <2>1. word[l] \in Word /\ Acquired(p) =
            IF m = "RW_EXCLUSIVE"
            THEN [word[l] EXCEPT !.exclusive = @ + 1, !.waiter = FALSE]
            ELSE [word[l] EXCEPT !.shared = @ + 1]
    BY <1>1, <1>2, <1>4, ZenonT(60) DEF Acquired, TypeOK
  <2>2. CASE m = "RW_EXCLUSIVE"
    <3>1. w = [shared |-> word[l].shared, exclusive |-> word[l].exclusive + 1,
               ref |-> word[l].ref, waiter |-> FALSE]
      BY <2>1, <2>2, ZenonT(60) DEF Word
    <3>2. w \in IntWord
      <4>1. word[l].shared \in Int /\ word[l].exclusive + 1 \in Int /\ word[l].ref \in Int
        BY <2>1, SMTT(60) DEF Word
      <4>. QED  BY <3>1, <4>1, IntWordIntro, ZenonT(60)
    <3>. QED  BY <2>2, <3>1, <3>2, SMTT(60)
  <2>3. CASE m = "RW_SHARED"
    BY <2>1, <2>3, SMTT(60) DEF Word, IntWord
  <2>. QED  BY <1>2, <2>2, <2>3, ZenonT(60) DEF LockMode
<1>7. /\ Calls(call, l) = Calls(call', l) + 1
      /\ \A k \in Lock : k # l => Calls(call, k) = Calls(call', k)
  <2>1. call'[p].lock = NoLock /\ SameBut(call', call, p)
    BY <1>1, <1>4, ZenonT(60) DEF TypeOK, NoCall, SameBut
  <2>2. call[p].lock = l /\ l \in Lock
    BY <1>2, ZenonT(60)
  <2> HIDE DEF l
  <2>. QED  BY ONLY <2>1, <2>2, CallEnters, p \in Proc, SMTT(60)
<1> HIDE DEF w, l, m
<1>8. /\ w.shared = InMode(Tokens', l, "RW_SHARED") /\ w.exclusive = InMode(Tokens', l, "RW_EXCLUSIVE")
      /\ w.ref = Refs(Tokens', l) + Calls(call', l)
  <2>1. /\ Refs(Tokens', l) = Refs(Tokens, l) + 1
        /\ m = "RW_EXCLUSIVE" => /\ InMode(Tokens', l, "RW_EXCLUSIVE") = InMode(Tokens, l, "RW_EXCLUSIVE") + 1
                                 /\ InMode(Tokens', l, "RW_SHARED") = InMode(Tokens, l, "RW_SHARED")
        /\ m = "RW_SHARED" => /\ InMode(Tokens', l, "RW_SHARED") = InMode(Tokens, l, "RW_SHARED") + 1
                              /\ InMode(Tokens', l, "RW_EXCLUSIVE") = InMode(Tokens, l, "RW_EXCLUSIVE")
    BY <1>3, ZenonT(60) DEF OneMore
  <2>2. Calls(call', l) \in Nat
    BY CallCounts, ZenonT(60)
  <2>3. m = "RW_EXCLUSIVE" \/ m = "RW_SHARED"
    BY <1>2, ZenonT(60) DEF LockMode
  <2>. QED  BY <1>1, <1>2, <1>6, <1>7, <2>1, <2>2, <2>3, WordAt, SMTT(60)
<1>9. \A k \in Lock, n \in Mode : k # l => /\ InMode(Tokens', k, n) = InMode(Tokens, k, n)
                                         /\ Refs(Tokens', k) = Refs(Tokens, k)
                                         /\ Calls(call', k) = Calls(call, k)
  BY <1>3, <1>7, ZenonT(60) DEF OneMore
<1>10. CountInv' /\ word' \in [Lock -> Word]
  BY <1>1, <1>2, <1>3, <1>4, <1>6, <1>8, <1>9, WordStep, ZenonT(60)
<1>. QED  BY <1>1, <1>3, <1>4, <1>5, <1>10, ZenonT(60) DEF TypeOK, Handles

(* The compare-and-exchange that only sets the flag.                         *)
LEMMA CasWaitsCounts ==
    ASSUME IInv, NEW p \in Proc, CasWaits(p)
    PROVE  TypeOK' /\ CountInv'
<1> DEFINE l == call[p].lock
           w == NotAcquired(p)
<1>1. TypeOK /\ CountInv
  BY ZenonT(60) DEF IInv
<1>2. l \in Lock
  BY <1>1, ZenonT(60) DEF IInv, CallInv, TypeOK, CasWaits
<1>3. /\ handles' \in Handles /\ IsFiniteSet(Tokens') /\ Tokens' = Tokens
      /\ numHeld' \in [Proc -> 0 .. MaxHeld] /\ \A q \in Proc : numHeld'[q] = HeldBy(Tokens', q)
  BY <1>1, TokensKept, ZenonT(60) DEF CasWaits
<1>4. /\ word' = [word EXCEPT ![l] = w] /\ old[p] = word[l] /\ UNCHANGED <<holdoff, call, all, skewed>>
      /\ pc' \in [Proc -> {"idle", "read", "cas", "unref"}] /\ old' \in [Proc -> Word]
  BY <1>1, ZenonT(60) DEF CasWaits, OutOfScope, TypeOK, Free, Word
<1>5. /\ w \in IntWord /\ w.ref = word[l].ref /\ w.shared = word[l].shared
      /\ w.exclusive = word[l].exclusive
  <2>1. word[l] \in Word /\ (w = [word[l] EXCEPT !.waiter = TRUE] \/ w = word[l])
    BY <1>1, <1>2, <1>4, ZenonT(60) DEF NotAcquired, TypeOK
  <2> HIDE DEF w
  <2>2. CASE w = word[l]
    BY <2>1, <2>2, SMTT(60) DEF Word, IntWord
  <2>3. CASE w = [word[l] EXCEPT !.waiter = TRUE]
    <3>1. w = [shared |-> word[l].shared, exclusive |-> word[l].exclusive,
               ref |-> word[l].ref, waiter |-> TRUE]
      BY <2>1, <2>3, ZenonT(60) DEF Word
    <3>2. w \in IntWord
      <4>1. word[l].shared \in Int /\ word[l].exclusive \in Int /\ word[l].ref \in Int
        BY <2>1, SMTT(60) DEF Word
      <4>. QED  BY <3>1, <4>1, IntWordIntro, ZenonT(60)
    <3>. QED  BY <3>1, <3>2, ZenonT(60)
  <2>. QED  BY <2>1, <2>2, <2>3, ZenonT(60)
<1> HIDE DEF w, l
<1>6. /\ w.shared = InMode(Tokens', l, "RW_SHARED") /\ w.exclusive = InMode(Tokens', l, "RW_EXCLUSIVE")
      /\ w.ref = Refs(Tokens', l) + Calls(call', l)
  BY <1>1, <1>2, <1>3, <1>4, <1>5, WordAt, ZenonT(60)
<1>7. CountInv' /\ word' \in [Lock -> Word]
  BY <1>1, <1>2, <1>3, <1>4, <1>5, <1>6, WordStep, ZenonT(60)
<1>. QED  BY <1>1, <1>3, <1>4, <1>7, ZenonT(60) DEF TypeOK, Handles

(* RWLockRelease, called alone or by RWLockReleaseAll: the reference of the  *)
(* handle becomes the reference of the call.                                 *)
LEMMA ReleaseCounts ==
    ASSUME IInv, NEW p \in Proc, NEW l \in Lock, NEW m \in LockMode, NEW h \in Int,
           pc[p] = "idle", Release(p, l, m, h), UNCHANGED <<all, skewed>>
    PROVE  TypeOK' /\ CountInv'
<1> DEFINE w == IF m = "RW_EXCLUSIVE" THEN [word[l] EXCEPT !.exclusive = @ - 1]
                ELSE [word[l] EXCEPT !.shared = @ - 1]
<1>1. TypeOK /\ CountInv /\ m \in Mode
  BY ZenonT(60) DEF IInv, Mode
<1>2. /\ handles' \in Handles /\ IsFiniteSet(Tokens') /\ OneMore(Tokens, Tokens', p, l, m)
      /\ numHeld' \in [Proc -> 0 .. MaxHeld] /\ \A q \in Proc : numHeld'[q] = HeldBy(Tokens', q)
  BY <1>1, Removed, ZenonT(60) DEF Release
<1>3. /\ word' = [word EXCEPT ![l] = w] /\ UNCHANGED <<old, all, skewed>>
      /\ call[p].lock = NoLock /\ call' = [call EXCEPT ![p] = [lock |-> l, mode |-> m]]
  BY ZenonT(60) DEF Release, IInv, CallInv
<1>4. /\ pc' \in [Proc -> {"idle", "read", "cas", "unref"}] /\ holdoff' \in [Proc -> Int]
      /\ call' \in [Proc -> [lock : Lock \cup {NoLock}, mode : Mode]]
  BY <1>1, <1>3, SMTT(60) DEF TypeOK, Release
<1>5. /\ w \in IntWord /\ w.ref = word[l].ref
      /\ m = "RW_EXCLUSIVE" => w.exclusive = word[l].exclusive - 1 /\ w.shared = word[l].shared
      /\ m = "RW_SHARED" => w.shared = word[l].shared - 1 /\ w.exclusive = word[l].exclusive
  <2>1. word[l] \in Word
    BY <1>1, ZenonT(60) DEF TypeOK
  <2>2. CASE m = "RW_EXCLUSIVE"
    BY <2>1, <2>2, SMTT(60) DEF Word, IntWord
  <2>3. CASE m = "RW_SHARED"
    BY <2>1, <2>3, SMTT(60) DEF Word, IntWord
  <2>. QED  BY <2>2, <2>3, ZenonT(60) DEF LockMode
<1> HIDE DEF w
<1>6. /\ Calls(call', l) = Calls(call, l) + 1
      /\ \A k \in Lock : k # l => Calls(call', k) = Calls(call, k)
  <2>1. call'[p].lock = l /\ SameBut(call, call', p)
    BY <1>1, <1>3, ZenonT(60) DEF TypeOK, SameBut
  <2>2. call[p].lock = NoLock
    BY <1>3, ZenonT(60)
  <2>. QED  BY ONLY <2>1, <2>2, CallEnters, p \in Proc, l \in Lock, SMTT(60)
<1>7. /\ w.shared = InMode(Tokens', l, "RW_SHARED") /\ w.exclusive = InMode(Tokens', l, "RW_EXCLUSIVE")
      /\ w.ref = Refs(Tokens', l) + Calls(call', l)
  <2>1. /\ Refs(Tokens, l) = Refs(Tokens', l) + 1
        /\ m = "RW_EXCLUSIVE" => /\ InMode(Tokens, l, "RW_EXCLUSIVE") = InMode(Tokens', l, "RW_EXCLUSIVE") + 1
                                 /\ InMode(Tokens, l, "RW_SHARED") = InMode(Tokens', l, "RW_SHARED")
        /\ m = "RW_SHARED" => /\ InMode(Tokens, l, "RW_SHARED") = InMode(Tokens', l, "RW_SHARED") + 1
                              /\ InMode(Tokens, l, "RW_EXCLUSIVE") = InMode(Tokens', l, "RW_EXCLUSIVE")
    BY <1>2, ZenonT(60) DEF OneMore
  <2>2. /\ Refs(Tokens', l) \in Nat /\ InMode(Tokens', l, "RW_SHARED") \in Nat
        /\ InMode(Tokens', l, "RW_EXCLUSIVE") \in Nat
    BY <1>2, TokenCounts, ZenonT(60)
  <2>3. m = "RW_EXCLUSIVE" \/ m = "RW_SHARED"
    BY ZenonT(60) DEF LockMode
  <2>. QED  BY <1>1, <1>5, <1>6, <2>1, <2>2, <2>3, WordAt, SMTT(60)
<1>8. \A k \in Lock, n \in Mode : k # l => /\ InMode(Tokens', k, n) = InMode(Tokens, k, n)
                                         /\ Refs(Tokens', k) = Refs(Tokens, k)
                                         /\ Calls(call', k) = Calls(call, k)
  BY <1>2, <1>6, ZenonT(60) DEF OneMore
<1>9. CountInv' /\ word' \in [Lock -> Word]
  BY <1>1, <1>2, <1>3, <1>5, <1>7, <1>8, WordStep, ZenonT(60)
<1>. QED  BY <1>1, <1>2, <1>3, <1>4, <1>9, ZenonT(60) DEF TypeOK, Handles

(* The last step of RWLockRelease.                                           *)
LEMMA UnrefCounts ==
    ASSUME IInv, NEW p \in Proc, Unref(p)
    PROVE  TypeOK' /\ CountInv'
<1> DEFINE l == call[p].lock
           w == [word[l] EXCEPT !.ref = @ - 1]
<1>1. TypeOK /\ CountInv
  BY ZenonT(60) DEF IInv
<1>2. l \in Lock
  BY <1>1, ZenonT(60) DEF IInv, CallInv, TypeOK, Unref
<1>3. /\ handles' \in Handles /\ IsFiniteSet(Tokens') /\ Tokens' = Tokens
      /\ numHeld' \in [Proc -> 0 .. MaxHeld] /\ \A q \in Proc : numHeld'[q] = HeldBy(Tokens', q)
  BY <1>1, TokensKept, ZenonT(60) DEF Unref
<1>4. /\ word' = [word EXCEPT ![l] = w] /\ UNCHANGED <<old, all, skewed>>
      /\ pc' = [pc EXCEPT ![p] = "idle"] /\ call' = [call EXCEPT ![p] = NoCall]
      /\ holdoff' \in [Proc -> Int]
  BY <1>1, SMTT(60) DEF Unref, Return, TypeOK
<1>5. /\ pc' \in [Proc -> {"idle", "read", "cas", "unref"}]
      /\ call' \in [Proc -> [lock : Lock \cup {NoLock}, mode : Mode]]
  BY <1>1, <1>4, ZenonT(60) DEF TypeOK, NoCall, Mode
<1>6. /\ w \in IntWord /\ w.ref = word[l].ref - 1 /\ w.shared = word[l].shared
      /\ w.exclusive = word[l].exclusive
  BY <1>1, <1>2, WordAt, SMTT(60) DEF Word, IntWord
<1>7. /\ Calls(call, l) = Calls(call', l) + 1
      /\ \A k \in Lock : k # l => Calls(call, k) = Calls(call', k)
  <2>1. call'[p].lock = NoLock /\ SameBut(call', call, p)
    BY <1>1, <1>4, ZenonT(60) DEF TypeOK, NoCall, SameBut
  <2>2. call[p].lock = l /\ l \in Lock
    BY <1>2, ZenonT(60)
  <2> HIDE DEF l
  <2>. QED  BY ONLY <2>1, <2>2, CallEnters, p \in Proc, SMTT(60)
<1> HIDE DEF w, l
<1>8. /\ w.shared = InMode(Tokens', l, "RW_SHARED") /\ w.exclusive = InMode(Tokens', l, "RW_EXCLUSIVE")
      /\ w.ref = Refs(Tokens', l) + Calls(call', l)
  <2>1. Calls(call', l) \in Nat
    BY CallCounts, ZenonT(60)
  <2>. QED  BY <1>1, <1>2, <1>3, <1>6, <1>7, <2>1, WordAt, SMTT(60)
<1>9. \A k \in Lock, n \in Mode : k # l => /\ InMode(Tokens', k, n) = InMode(Tokens, k, n)
                                         /\ Refs(Tokens', k) = Refs(Tokens, k)
                                         /\ Calls(call', k) = Calls(call, k)
  BY <1>3, <1>7, ZenonT(60)
<1>10. CountInv' /\ word' \in [Lock -> Word]
  BY <1>1, <1>2, <1>3, <1>4, <1>6, <1>8, <1>9, WordStep, ZenonT(60)
<1>. QED  BY <1>1, <1>3, <1>4, <1>5, <1>10, ZenonT(60) DEF TypeOK, Handles

(* The steps that change no word and no handle.                              *)
LEMMA QuietCounts ==
    ASSUME IInv, NEW p \in Proc,
           \/ AttemptRead(p) \/ CasFails(p) \/ CommitEvent(p) \/ AbortEvent(p)
           \/ RollbackEvent(p) \/ ErrorCaught(p) \/ ReleaseAllEnd(p) \/ UNCHANGED vars
    PROVE  TypeOK' /\ CountInv'
<1>1. TypeOK /\ CountInv /\ CallInv
  BY ZenonT(60) DEF IInv
<1>2. CountInv'
  <2>1. UNCHANGED <<word, handles, call, numHeld>>
    BY ZenonT(60) DEF AttemptRead, CasFails, CommitEvent, AbortEvent, RollbackEvent,
                 ErrorCaught, ReleaseAllEnd, vars
  <2>2. Tokens' = Tokens /\ \A l : Calling(l)' = Calling(l)
    BY <2>1, ZenonT(60) DEF Tokens, Calling
  <2>. QED  BY <1>1, <2>1, <2>2, ZenonT(60) DEF CountInv
<1>3. pc[p] # "idle" => word[call[p].lock] \in Word
  BY <1>1, ZenonT(60) DEF TypeOK, CallInv
<1>4. TypeOK'
  <2>1. CASE AttemptRead(p)
    BY <1>1, <1>3, <2>1, ZenonT(60) DEF TypeOK, AttemptRead
  <2>2. CASE CasFails(p)
    BY <1>1, <1>3, <2>2, ZenonT(60) DEF TypeOK, CasFails
  <2>3. CASE CommitEvent(p)
    BY <1>1, <2>3, ZenonT(60) DEF TypeOK, CommitEvent
  <2>4. CASE AbortEvent(p)
    BY <1>1, <2>4, SMTT(60) DEF TypeOK, AbortEvent
  <2>5. CASE ReleaseAllEnd(p)
    BY <1>1, <2>5, ZenonT(60) DEF TypeOK, ReleaseAllEnd
  <2>6. CASE UNCHANGED vars
    BY <1>1, <2>6, ZenonT(60) DEF TypeOK, vars
  <2>7. CASE RollbackEvent(p)
    BY <1>1, <2>7, ZenonT(60) DEF TypeOK, RollbackEvent
  <2>8. CASE ErrorCaught(p)
    BY <1>1, <2>8, SMTT(60) DEF TypeOK, ErrorCaught
  <2>. QED  BY <2>1, <2>2, <2>3, <2>4, <2>5, <2>6, <2>7, <2>8, ZenonT(60)
<1>. QED  BY <1>2, <1>4, ZenonT(60)

-----------------------------------------------------------------------------
(* RWLockUndeclare and RWLockRelease do the same alone and in the loop of    *)
(* RWLockReleaseAll.                                                         *)
UndeclareStep(p, l) ==
    pc[p] = "idle" /\ Undeclare(p, l, HoldoffInLoop(p)) /\ UNCHANGED <<all, skewed>>
ReleaseStep(p, l, m) ==
    pc[p] = "idle" /\ Release(p, l, m, HoldoffInLoop(p)) /\ UNCHANGED <<all, skewed>>
Quiet(p) ==
    \/ AttemptRead(p) \/ CasFails(p) \/ CommitEvent(p) \/ AbortEvent(p)
    \/ RollbackEvent(p) \/ ErrorCaught(p) \/ ReleaseAllEnd(p)

(* So a step is one of these.                                                *)
LEMMA NextCases ==
    ASSUME Next
    PROVE  \E p \in Proc :
             \/ \E l \in Lock : RWLockDeclare(p, l) \/ UndeclareStep(p, l)
             \/ \E l \in Lock, m \in LockMode : RWLockAcquire(p, l, m) \/ ReleaseStep(p, l, m)
             \/ CasAcquires(p) \/ CasWaits(p) \/ Unref(p) \/ Quiet(p)
<1>1. PICK p \in Proc :
        \/ \E l \in Lock : RWLockDeclare(p, l) \/ RWLockUndeclare(p, l)
        \/ \E l \in Lock, m \in LockMode : RWLockAcquire(p, l, m) \/ RWLockRelease(p, l, m)
        \/ Attempt(p) \/ Unref(p)
        \/ CommitEvent(p) \/ AbortEvent(p) \/ RollbackEvent(p) \/ ErrorCaught(p)
        \/ ReleaseAll(p)
  BY ZenonT(60) DEF Next
<1>2. \A l \in Lock : RWLockUndeclare(p, l) => UndeclareStep(p, l)
  BY ZenonT(60) DEF RWLockUndeclare, UndeclareStep, HoldoffInLoop, Running
<1>3. \A l \in Lock, m \in LockMode : RWLockRelease(p, l, m) => ReleaseStep(p, l, m)
  BY ZenonT(60) DEF RWLockRelease, ReleaseStep, HoldoffInLoop, Running
<1>4. \A l \in Lock, m \in Mode : ReleaseOne(p, l, m) =>
        UndeclareStep(p, l) \/ (m \in LockMode /\ ReleaseStep(p, l, m))
  BY ZenonT(60) DEF ReleaseOne, ReleaseStep, UndeclareStep, Mode
<1>. QED  BY <1>1, <1>2, <1>3, <1>4, ZenonT(60) DEF Attempt, ReleaseAll, Quiet, Mode

(* The process counter and the call of a process go together.                *)
LEMMA CallStep ==
    ASSUME IInv, [Next]_vars, TypeOK'
    PROVE  CallInv'
<1>0. TypeOK /\ CallInv
  BY ZenonT(60) DEF IInv
<1>1. CASE UNCHANGED vars
  BY <1>0, <1>1, ZenonT(60) DEF CallInv, vars
<1>2. CASE Next
  <2>1. PICK p \in Proc :
             \/ \E l \in Lock : RWLockDeclare(p, l) \/ UndeclareStep(p, l)
             \/ \E l \in Lock, m \in LockMode : RWLockAcquire(p, l, m) \/ ReleaseStep(p, l, m)
             \/ CasAcquires(p) \/ CasWaits(p) \/ Unref(p) \/ Quiet(p)
    BY <1>2, NextCases, ZenonT(60)
  <2>2. ASSUME NEW l \in Lock, RWLockDeclare(p, l) PROVE CallInv'
    BY <1>0, <2>2, ZenonT(60) DEF CallInv, RWLockDeclare, AddHandle, Running, TypeOK
  <2>3. ASSUME NEW l \in Lock, UndeclareStep(p, l) PROVE CallInv'
    BY <1>0, <2>3, ZenonT(60) DEF CallInv, UndeclareStep, Undeclare, RemoveHandle, TypeOK
  <2>4. ASSUME NEW l \in Lock, NEW m \in LockMode, RWLockAcquire(p, l, m) PROVE CallInv'
    BY <1>0, <2>4, NoLockAssumption, ZenonT(60) DEF CallInv, RWLockAcquire, Running, TypeOK
  <2>5. ASSUME NEW l \in Lock, NEW m \in LockMode, ReleaseStep(p, l, m) PROVE CallInv'
    BY <1>0, <2>5, NoLockAssumption, ZenonT(60) DEF CallInv, ReleaseStep, Release, RemoveHandle, TypeOK
  <2>6. CASE CasAcquires(p)
    BY <1>0, <2>6, SMTT(60) DEF CallInv, CasAcquires, AddHandle, Return, NoCall, TypeOK
  <2>7. CASE CasWaits(p)
    BY <1>0, <2>7, ZenonT(60) DEF CallInv, CasWaits, TypeOK
  <2>8. CASE Unref(p)
    BY <1>0, <2>8, ZenonT(60) DEF CallInv, Unref, Return, NoCall, TypeOK
  <2>9. CASE Quiet(p)
    BY <1>0, <2>9, SMTT(60) DEF CallInv, Quiet, AttemptRead, CasFails, CommitEvent, AbortEvent,
                      RollbackEvent, ErrorCaught, ReleaseAllEnd, Running, TypeOK
  <2>. QED  BY <2>1, <2>2, <2>3, <2>4, <2>5, <2>6, <2>7, <2>8, <2>9, ZenonT(60)
<1>. QED  BY <1>1, <1>2, ZenonT(60)

(* The count of holdoffs, action by action.                                  *)
LEMMA HoldoffStep ==
    ASSUME IInv, [Next]_vars
    PROVE  HoldoffBalanced'
<1>0. TypeOK /\ CallInv /\ HoldoffBalanced
  BY ZenonT(60) DEF IInv
<1>1. CASE UNCHANGED vars
  BY <1>0, <1>1, ZenonT(60) DEF HoldoffBalanced, vars
<1>2. CASE Next
  <2>1. PICK p \in Proc :
             \/ \E l \in Lock : RWLockDeclare(p, l) \/ UndeclareStep(p, l)
             \/ \E l \in Lock, m \in LockMode : RWLockAcquire(p, l, m) \/ ReleaseStep(p, l, m)
             \/ CasAcquires(p) \/ CasWaits(p) \/ Unref(p) \/ Quiet(p)
    BY <1>2, NextCases, ZenonT(60)
  <2>2. ASSUME NEW l \in Lock, RWLockDeclare(p, l) PROVE HoldoffBalanced'
    BY <1>0, <2>2, SMTT(60) DEF HoldoffBalanced, RWLockDeclare, AddHandle, Running, TypeOK
  <2>3. ASSUME NEW l \in Lock, UndeclareStep(p, l) PROVE HoldoffBalanced'
    BY <1>0, <2>3, SMTT(60) DEF HoldoffBalanced, UndeclareStep, Undeclare, RemoveHandle, HoldoffInLoop, TypeOK
  <2>4. ASSUME NEW l \in Lock, NEW m \in LockMode, RWLockAcquire(p, l, m) PROVE HoldoffBalanced'
    BY <1>0, <2>4, SMTT(60) DEF HoldoffBalanced, RWLockAcquire, Running, TypeOK
  <2>5. ASSUME NEW l \in Lock, NEW m \in LockMode, ReleaseStep(p, l, m) PROVE HoldoffBalanced'
    BY <1>0, <2>5, SMTT(60) DEF HoldoffBalanced, ReleaseStep, Release, RemoveHandle, HoldoffInLoop, TypeOK
  <2>6. CASE CasAcquires(p)
    BY <1>0, <2>6, SMTT(60) DEF HoldoffBalanced, CallInv, CasAcquires, AddHandle, Return, TypeOK
  <2>7. CASE CasWaits(p)
    BY <1>0, <2>7, ZenonT(60) DEF HoldoffBalanced, CasWaits, TypeOK
  <2>8. CASE Unref(p)
    BY <1>0, <2>8, SMTT(60) DEF HoldoffBalanced, Unref, Return, TypeOK
  <2>9. CASE Quiet(p)
    <3>1. CASE RollbackEvent(p)
      <4>1. ASSUME NEW q \in Proc, ~skewed'[q]
            PROVE  ~skewed[q] /\ (q = p => ~(numHeld[p] > 0))
        BY <1>0, <3>1, <4>1, ZenonT(60) DEF RollbackEvent, TypeOK
      <4>2. /\ \A q \in Proc : holdoff'[q] = holdoff[q] /\ pc'[q] = pc[q] /\ numHeld'[q] = numHeld[q]
            /\ \A q \in Proc : q # p => all'[q] = all[q]
            /\ all[p] = "no"
        BY <1>0, <3>1, ZenonT(60) DEF RollbackEvent, Running, TypeOK
      <4>3. numHeld[p] \in Nat
        BY <1>0, MaxHeldAssumption, SMTT(60) DEF TypeOK
      <4>4. ASSUME NEW q \in Proc, ~skewed'[q]
            PROVE  holdoff'[q] = (IF all'[q] = "abort" THEN 0 ELSE numHeld'[q])
                                 + (IF pc'[q] = "idle" THEN 0 ELSE 1)
        <5>1. holdoff[q] = (IF all[q] = "abort" THEN 0 ELSE numHeld[q]) + (IF pc[q] = "idle" THEN 0 ELSE 1)
          BY <1>0, <4>1, <4>4, ZenonT(60) DEF HoldoffBalanced
        <5>2. CASE q = p
          BY <4>1, <4>2, <4>3, <4>4, <5>1, <5>2, SMTT(60)
        <5>3. CASE q # p
          BY <4>2, <4>4, <5>1, <5>3, SMTT(60)
        <5>. QED  BY <5>2, <5>3, ZenonT(60)
      <4>. QED  BY <4>4, ZenonT(60) DEF HoldoffBalanced
    <3>2. CASE ErrorCaught(p)
      <4>1. ASSUME NEW q \in Proc, ~skewed'[q]
            PROVE  (q # p => ~skewed[q]) /\ (q = p => ~(numHeld[p] > 0))
        BY <1>0, <3>2, <4>1, ZenonT(60) DEF ErrorCaught, TypeOK
      <4>2. /\ \A q \in Proc : all'[q] = all[q] /\ pc'[q] = pc[q] /\ numHeld'[q] = numHeld[q]
            /\ \A q \in Proc : q # p => holdoff'[q] = holdoff[q]
            /\ holdoff'[p] = 0 /\ pc[p] = "idle" /\ all[p] = "no"
        BY <1>0, <3>2, ZenonT(60) DEF ErrorCaught, Running, TypeOK
      <4>3. numHeld[p] \in Nat
        BY <1>0, MaxHeldAssumption, SMTT(60) DEF TypeOK
      <4>4. ASSUME NEW q \in Proc, ~skewed'[q]
            PROVE  holdoff'[q] = (IF all'[q] = "abort" THEN 0 ELSE numHeld'[q])
                                 + (IF pc'[q] = "idle" THEN 0 ELSE 1)
        <5>1. CASE q = p
          BY <4>1, <4>2, <4>3, <4>4, <5>1, SMTT(60)
        <5>2. CASE q # p
          <6>1. holdoff[q] = (IF all[q] = "abort" THEN 0 ELSE numHeld[q]) + (IF pc[q] = "idle" THEN 0 ELSE 1)
            BY <1>0, <4>1, <4>4, <5>2, ZenonT(60) DEF HoldoffBalanced
          <6>. QED  BY <4>2, <4>4, <5>2, <6>1, SMTT(60)
        <5>. QED  BY <5>1, <5>2, ZenonT(60)
      <4>. QED  BY <4>4, ZenonT(60) DEF HoldoffBalanced
    <3>3. CASE AbortEvent(p)
      BY <1>0, <3>3, SMTT(60) DEF HoldoffBalanced, AbortEvent, Running, TypeOK
    <3>4. CASE AttemptRead(p) \/ CasFails(p) \/ CommitEvent(p) \/ ReleaseAllEnd(p)
      BY <1>0, <3>4, SMTT(60) DEF HoldoffBalanced, AttemptRead, CasFails, CommitEvent, ReleaseAllEnd,
                        Running, TypeOK
    <3>. QED  BY <2>9, <3>1, <3>2, <3>3, <3>4, ZenonT(60) DEF Quiet
  <2>. QED  BY <2>1, <2>2, <2>3, <2>4, <2>5, <2>6, <2>7, <2>8, <2>9, ZenonT(60)
<1>. QED  BY <1>1, <1>2, ZenonT(60)

(* What a change of the reference count leaves alone.                        *)
LEMMA RefChange ==
    ASSUME TypeOK, NEW l \in Lock, NEW k \in Lock,
           word' = [word EXCEPT ![l].ref = @ + 1] \/ word' = [word EXCEPT ![l].ref = @ - 1]
    PROVE  /\ word'[k].exclusive = word[k].exclusive /\ word'[k].shared = word[k].shared
           /\ word'[k].waiter = word[k].waiter
<1>1. CASE word' = [word EXCEPT ![l].ref = @ + 1]
  BY <1>1, SMTT(60) DEF TypeOK, Word
<1>2. CASE word' = [word EXCEPT ![l].ref = @ - 1]
  BY <1>2, SMTT(60) DEF TypeOK, Word
<1>. QED  BY <1>1, <1>2, ZenonT(60)

(* What a holder's share of the word can change when it goes.                *)
LEMMA HolderChange ==
    ASSUME TypeOK, NEW l \in Lock, NEW k \in Lock,
           \/ word' = [word EXCEPT ![l].exclusive = @ - 1]
           \/ word' = [word EXCEPT ![l].shared = @ - 1]
    PROVE  /\ \/ word'[k].exclusive = word[k].exclusive /\ word'[k].shared = word[k].shared
              \/ word'[k].exclusive = word[k].exclusive - 1
              \/ word'[k].exclusive = word[k].exclusive /\ word'[k].shared = word[k].shared - 1
           /\ word'[k].waiter = word[k].waiter
<1>1. CASE word' = [word EXCEPT ![l].exclusive = @ - 1]
  BY <1>1, SMTT(60) DEF TypeOK, Word
<1>2. CASE word' = [word EXCEPT ![l].shared = @ - 1]
  BY <1>2, SMTT(60) DEF TypeOK, Word
<1>. QED  BY <1>1, <1>2, ZenonT(60)

(* The two lock fields: only a process that finds the lock free sets them.   *)
LEMMA LockStep ==
    ASSUME IInv, [Next]_vars, TypeOK'
    PROVE  LockInv'
<1>0. TypeOK /\ CallInv /\ LockInv
  BY ZenonT(60) DEF IInv
<1>1. CASE UNCHANGED vars
  BY <1>0, <1>1, ZenonT(60) DEF LockInv, vars
<1>2. CASE Next
  <2>0. SUFFICES ASSUME NEW k \in Lock
                 PROVE  \/ word'[k].exclusive = 0
                        \/ word'[k].exclusive = 1 /\ word'[k].shared = 0
    BY ZenonT(60) DEF LockInv
  <2> DEFINE Goal == \/ word'[k].exclusive = 0
                     \/ word'[k].exclusive = 1 /\ word'[k].shared = 0
  <2>k. /\ word[k] \in Word /\ word'[k] \in Word
        /\ word[k].exclusive = 0 \/ (word[k].exclusive = 1 /\ word[k].shared = 0)
    BY <1>0, ZenonT(60) DEF TypeOK, LockInv
  <2>1. PICK p \in Proc :
             \/ \E l \in Lock : RWLockDeclare(p, l) \/ UndeclareStep(p, l)
             \/ \E l \in Lock, m \in LockMode : RWLockAcquire(p, l, m) \/ ReleaseStep(p, l, m)
             \/ CasAcquires(p) \/ CasWaits(p) \/ Unref(p) \/ Quiet(p)
    BY <1>2, NextCases, ZenonT(60)
  <2>2. ASSUME NEW l \in Lock,
               RWLockDeclare(p, l) \/ UndeclareStep(p, l) \/ \E m \in LockMode : RWLockAcquire(p, l, m)
        PROVE  Goal
    <3>1. word' = [word EXCEPT ![l].ref = @ + 1] \/ word' = [word EXCEPT ![l].ref = @ - 1]
      BY <2>2, ZenonT(60) DEF RWLockDeclare, UndeclareStep, Undeclare, RWLockAcquire
    <3>2. word'[k].exclusive = word[k].exclusive /\ word'[k].shared = word[k].shared
      BY <1>0, <3>1, RefChange, ZenonT(60)
    <3>. QED  BY <2>k, <3>2, ZenonT(60)
  <2>3. ASSUME NEW l \in Lock, NEW m \in LockMode, ReleaseStep(p, l, m) PROVE Goal
    <3>1. \/ word' = [word EXCEPT ![l].exclusive = @ - 1]
          \/ word' = [word EXCEPT ![l].shared = @ - 1]
      BY <2>3, ZenonT(60) DEF ReleaseStep, Release
    <3>2. \/ word'[k].exclusive = word[k].exclusive /\ word'[k].shared = word[k].shared
          \/ word'[k].exclusive = word[k].exclusive - 1
          \/ word'[k].exclusive = word[k].exclusive /\ word'[k].shared = word[k].shared - 1
      BY <1>0, <3>1, HolderChange, ZenonT(60)
    <3>. QED  BY <2>k, <3>2, SMTT(60) DEF Word
  <2>4. CASE CasAcquires(p)
    <3>1. /\ call[p].lock \in Lock /\ word[call[p].lock] = old[p] /\ LockFree(p)
          /\ word' = [word EXCEPT ![call[p].lock] = Acquired(p)]
          /\ call[p].mode \in LockMode
      BY <1>0, <2>4, SMTT(60) DEF CasAcquires, CallInv, TypeOK
    <3>2. CASE call[p].lock # k
      BY <1>0, <2>k, <3>1, <3>2, ZenonT(60) DEF TypeOK
    <3>3. CASE call[p].lock = k
      <4>1. word'[k] = Acquired(p) /\ old[p] = word[k]
        BY <1>0, <3>1, <3>3, ZenonT(60) DEF TypeOK
      <4>2. CASE call[p].mode = "RW_EXCLUSIVE"
        <5>1. word[k].shared = 0 /\ word[k].exclusive = 0
          BY <3>1, <4>1, <4>2, ZenonT(60) DEF LockFree
        <5>2. word'[k] = [word[k] EXCEPT !.exclusive = @ + 1, !.waiter = FALSE]
          BY <4>1, <4>2, ZenonT(60) DEF Acquired
        <5>. QED  BY <2>k, <5>1, <5>2, SMTT(60) DEF Word
      <4>3. CASE call[p].mode # "RW_EXCLUSIVE"
        <5>1. word[k].exclusive = 0
          BY <3>1, <4>1, <4>3, ZenonT(60) DEF LockFree
        <5>2. word'[k] = [word[k] EXCEPT !.shared = @ + 1]
          BY <4>1, <4>3, ZenonT(60) DEF Acquired
        <5>. QED  BY <2>k, <5>1, <5>2, ZenonT(60) DEF Word
      <4>. QED  BY <4>2, <4>3, ZenonT(60)
    <3>. QED  BY <3>2, <3>3, ZenonT(60)
  <2>5. CASE CasWaits(p)
    <3>1. /\ word' = [word EXCEPT ![call[p].lock] = NotAcquired(p)] /\ word[call[p].lock] = old[p]
          /\ NotAcquired(p) = [old[p] EXCEPT !.waiter = TRUE] \/ NotAcquired(p) = old[p]
      BY <2>5, ZenonT(60) DEF CasWaits, NotAcquired
    <3>2. word'[k].exclusive = word[k].exclusive /\ word'[k].shared = word[k].shared
      BY <1>0, <3>1, SMTT(60) DEF TypeOK, Word
    <3>. QED  BY <2>k, <3>2, ZenonT(60)
  <2>6. CASE Unref(p)
    <3>1. word' = [word EXCEPT ![call[p].lock].ref = @ - 1]
      BY <2>6, ZenonT(60) DEF Unref
    <3>2. word'[k].exclusive = word[k].exclusive /\ word'[k].shared = word[k].shared
      BY <1>0, <3>1, SMTT(60) DEF TypeOK, Word
    <3>. QED  BY <2>k, <3>2, ZenonT(60)
  <2>7. CASE Quiet(p)
    BY <2>k, <2>7, ZenonT(60) DEF Quiet, AttemptRead, CasFails, CommitEvent, AbortEvent, RollbackEvent,
                 ErrorCaught, ReleaseAllEnd
  <2>. QED  BY <2>1, <2>2, <2>3, <2>4, <2>5, <2>6, <2>7, ZenonT(60)
<1>. QED  BY <1>1, <1>2, ZenonT(60)

(* A step that sets no flag and ends no waiting.                             *)
LEMMA FlagKept ==
    ASSUME FlagHasWaiter, \A k \in Lock : word'[k].waiter => word[k].waiter,
           \A q \in Proc : /\ pc[q] \in {"read", "cas"} => /\ pc'[q] \in {"read", "cas"}
                                                          /\ call'[q] = call[q]
    PROVE  FlagHasWaiter'
BY ZenonT(60) DEF FlagHasWaiter, Waits

(* A flag stands for a waiter, action by action.                             *)
LEMMA FlagStep ==
    ASSUME IInv, [Next]_vars
    PROVE  FlagHasWaiter'
<1>0. TypeOK /\ CallInv /\ FlagHasWaiter
  BY ZenonT(60) DEF IInv
<1>1. CASE UNCHANGED vars
  BY <1>0, <1>1, FlagKept, ZenonT(60) DEF vars
<1>2. CASE Next
  <2>1. PICK p \in Proc :
             \/ \E l \in Lock : RWLockDeclare(p, l) \/ UndeclareStep(p, l)
             \/ \E l \in Lock, m \in LockMode : RWLockAcquire(p, l, m) \/ ReleaseStep(p, l, m)
             \/ CasAcquires(p) \/ CasWaits(p) \/ Unref(p) \/ Quiet(p)
    BY <1>2, NextCases, ZenonT(60)
  <2>2. ASSUME NEW l \in Lock, RWLockDeclare(p, l) \/ UndeclareStep(p, l) PROVE FlagHasWaiter'
    <3>1. word' = [word EXCEPT ![l].ref = @ + 1] \/ word' = [word EXCEPT ![l].ref = @ - 1]
      BY <2>2, ZenonT(60) DEF RWLockDeclare, UndeclareStep, Undeclare
    <3>2. \A k \in Lock : word'[k].waiter = word[k].waiter
      BY <1>0, <3>1, RefChange, ZenonT(60)
    <3>3. UNCHANGED <<pc, call>>
      BY <2>2, ZenonT(60) DEF RWLockDeclare, UndeclareStep, Undeclare
    <3>. QED  BY <1>0, <3>2, <3>3, FlagKept, ZenonT(60)
  <2>3. ASSUME NEW l \in Lock, NEW m \in LockMode, RWLockAcquire(p, l, m) \/ ReleaseStep(p, l, m)
        PROVE  FlagHasWaiter'
    <3>1. \/ word' = [word EXCEPT ![l].ref = @ + 1]
          \/ word' = [word EXCEPT ![l].exclusive = @ - 1] \/ word' = [word EXCEPT ![l].shared = @ - 1]
      BY <2>3, ZenonT(60) DEF RWLockAcquire, ReleaseStep, Release
    <3>2. \A k \in Lock : word'[k].waiter = word[k].waiter
      BY <1>0, <3>1, RefChange, HolderChange, ZenonT(60)
    <3>3. pc[p] = "idle" /\ \A q \in Proc \ {p} : pc'[q] = pc[q] /\ call'[q] = call[q]
      BY <1>0, <2>3, ZenonT(60) DEF RWLockAcquire, ReleaseStep, Release, Running, TypeOK
    <3>. QED  BY <1>0, <3>2, <3>3, FlagKept, ZenonT(60)
  <2>4. CASE CasAcquires(p)
    <3> DEFINE l == call[p].lock
    <3>1. /\ l \in Lock /\ word[l] = old[p] /\ LockFree(p) /\ word' = [word EXCEPT ![l] = Acquired(p)]
          /\ old[p] \in Word
      BY <1>0, <2>4, ZenonT(60) DEF CasAcquires, CallInv, TypeOK
    <3>2. ~word'[l].waiter /\ \A k \in Lock : k # l => word'[k] = word[k]
      <4>1. word'[l] = Acquired(p) /\ \A k \in Lock : k # l => word'[k] = word[k]
        BY <1>0, <3>1, ZenonT(60) DEF TypeOK
      <4>2. ~Acquired(p).waiter
        BY <3>1, ZenonT(60) DEF Acquired, LockFree, Word
      <4>. QED  BY <4>1, <4>2, ZenonT(60)
    <3>3. \A q \in Proc \ {p} : pc'[q] = pc[q] /\ call'[q] = call[q]
      BY <1>0, <2>4, ZenonT(60) DEF CasAcquires, Return, TypeOK
    <3>4. ASSUME NEW k \in Lock, word'[k].waiter
          PROVE  \E q \in Proc : pc'[q] \in {"read", "cas"} /\ call'[q] = [lock |-> k, mode |-> "RW_EXCLUSIVE"]
      <4>1. k # l /\ word[k].waiter
        BY <3>2, <3>4, ZenonT(60)
      <4>2. PICK q \in Proc : pc[q] \in {"read", "cas"} /\ call[q] = [lock |-> k, mode |-> "RW_EXCLUSIVE"]
        BY <1>0, <4>1, ZenonT(60) DEF FlagHasWaiter, Waits
      <4>3. q # p
        BY <4>1, <4>2, SMTT(60)
      <4>. QED  BY <3>3, <4>2, <4>3, ZenonT(60)
    <3>. QED  BY <3>4, ZenonT(60) DEF FlagHasWaiter, Waits
  <2>5. CASE CasWaits(p)
    <3> DEFINE l == call[p].lock
    <3>1. /\ l \in Lock /\ word[l] = old[p] /\ word' = [word EXCEPT ![l] = NotAcquired(p)]
          /\ pc' = [pc EXCEPT ![p] = "read"] /\ call' = call
      BY <1>0, <2>5, ZenonT(60) DEF CasWaits, CallInv, TypeOK
    <3>2. \A q \in Proc : pc[q] \in {"read", "cas"} => pc'[q] \in {"read", "cas"}
      BY <1>0, <3>1, ZenonT(60) DEF TypeOK
    <3>3. CASE call[p].mode # "RW_EXCLUSIVE"
      <4>1. NotAcquired(p) = word[l]
        BY <3>1, <3>3, ZenonT(60) DEF NotAcquired
      <4>2. \A k \in Lock : word'[k] = word[k]
        BY <1>0, <3>1, <4>1, ZenonT(60) DEF TypeOK
      <4>. QED  BY <1>0, <3>1, <3>2, <4>2, FlagKept, ZenonT(60)
    <3>4. CASE call[p].mode = "RW_EXCLUSIVE"
      <4>1. \A k \in Lock : k # l => word'[k] = word[k]
        BY <1>0, <3>1, ZenonT(60) DEF TypeOK
      <4>2. pc'[p] \in {"read", "cas"} /\ call'[p] = [lock |-> l, mode |-> "RW_EXCLUSIVE"]
        BY <1>0, <3>1, <3>4, ZenonT(60) DEF TypeOK
      <4> HIDE DEF l
      <4>3. ASSUME NEW k \in Lock, word'[k].waiter
            PROVE  \E q \in Proc : pc'[q] \in {"read", "cas"} /\ call'[q] = [lock |-> k, mode |-> "RW_EXCLUSIVE"]
        <5>1. CASE k = l
          BY <4>2, <5>1, ZenonT(60)
        <5>2. CASE k # l
          BY <1>0, <3>1, <3>2, <4>1, <4>3, <5>2, ZenonT(60) DEF FlagHasWaiter, Waits
        <5>. QED  BY <5>1, <5>2, ZenonT(60)
      <4>. QED  BY <4>3, ZenonT(60) DEF FlagHasWaiter, Waits
    <3>. QED  BY <3>3, <3>4, ZenonT(60)
  <2>6. CASE Unref(p)
    <3>1. word' = [word EXCEPT ![call[p].lock].ref = @ - 1]
      BY <2>6, ZenonT(60) DEF Unref
    <3>2. \A k \in Lock : word'[k].waiter = word[k].waiter
      BY <1>0, <3>1, SMTT(60) DEF TypeOK, Word
    <3>3. pc[p] = "unref" /\ \A q \in Proc \ {p} : pc'[q] = pc[q] /\ call'[q] = call[q]
      BY <1>0, <2>6, ZenonT(60) DEF Unref, Return, TypeOK
    <3>. QED  BY <1>0, <3>2, <3>3, FlagKept, ZenonT(60)
  <2>7. CASE Quiet(p)
    <3>1. word' = word /\ call' = call
      BY <2>7, ZenonT(60) DEF Quiet, AttemptRead, CasFails, CommitEvent, AbortEvent, RollbackEvent,
                 ErrorCaught, ReleaseAllEnd
    <3>2. \A q \in Proc : pc[q] \in {"read", "cas"} => pc'[q] \in {"read", "cas"}
      BY <1>0, <2>7, ZenonT(60) DEF Quiet, AttemptRead, CasFails, CommitEvent, AbortEvent, RollbackEvent,
                 ErrorCaught, ReleaseAllEnd, TypeOK
    <3>. QED  BY <1>0, <3>1, <3>2, FlagKept, ZenonT(60)
  <2>. QED  BY <2>1, <2>2, <2>3, <2>4, <2>5, <2>6, <2>7, ZenonT(60)
<1>. QED  BY <1>1, <1>2, ZenonT(60)

-----------------------------------------------------------------------------
(* The invariant holds at the start: no tokens, no calls.                    *)
LEMMA IInvInit == Init => IInv
<1> SUFFICES ASSUME Init PROVE IInv
  BY ZenonT(60)
<1>1. TypeOK
  BY MaxHeldAssumption, SMTT(60) DEF Init, TypeOK, Free, Word, NoCall, Mode
<1>2. CallInv /\ LockInv /\ HoldoffBalanced /\ FlagHasWaiter
  BY SMTT(60) DEF Init, CallInv, LockInv, HoldoffBalanced, FlagHasWaiter, Free, NoCall
<1>3. Tokens = {}
  <2>1. ASSUME NEW x \in Tokens PROVE FALSE
    <3>1. PICK p \in Proc, l \in Lock, m \in Mode : \E i \in 1 .. handles[p][l][m] : x = <<p, l, m, i>>
      BY TokenMember, x \in Tokens, SMTT(60) DEF Tokens
    <3>2. handles[p][l][m] = 0
      BY <3>1, ZenonT(60) DEF Init
    <3>. QED  BY <3>1, <3>2, SMTT(60)
  <2>. QED  BY <2>1, ZenonT(60)
<1>4. \A l \in Lock : Calling(l) = {}
  BY NoLockAssumption, ZenonT(60) DEF Init, Calling, NoCall
<1>5. /\ IsFiniteSet(Tokens)
      /\ \A x : OfProc(Tokens, x) = {} /\ OfLock(Tokens, x) = {}
      /\ \A x, y : OfMode(Tokens, x, y) = {}
      /\ Cardinality({}) = 0
  BY <1>3, FS_EmptySet, ZenonT(60) DEF OfProc, OfLock, OfMode
<1>6. CountInv
  <2>1. \A p \in Proc : numHeld[p] = Cardinality(OfProc(Tokens, p))
    BY <1>5, ZenonT(60) DEF Init
  <2>2. \A l \in Lock : word[l].shared = 0 /\ word[l].exclusive = 0 /\ word[l].ref = 0
    BY ZenonT(60) DEF Init, Free
  <2>3. \A l \in Lock : /\ Cardinality(OfMode(Tokens, l, "RW_SHARED")) = 0
                       /\ Cardinality(OfMode(Tokens, l, "RW_EXCLUSIVE")) = 0
                       /\ Cardinality(OfLock(Tokens, l)) = 0 /\ Cardinality(Calling(l)) = 0
    BY <1>4, <1>5, ZenonT(60)
  <2>. QED  BY <1>5, <2>1, <2>2, <2>3, SMTT(60) DEF CountInv
<1>. QED  BY <1>1, <1>2, <1>6, ZenonT(60) DEF IInv

(* Every step preserves it.                                                  *)
LEMMA IInvStep == IInv /\ [Next]_vars => IInv'
<1> SUFFICES ASSUME IInv, [Next]_vars PROVE IInv'
  BY ZenonT(60)
<1>1. TypeOK' /\ CountInv'
  <2>1. CASE UNCHANGED vars
    <3>1. TypeOK'
      BY <2>1, ZenonT(60) DEF IInv, TypeOK, vars
    <3>2. CountInv'
      BY <2>1, ZenonT(60) DEF IInv, CountInv, Tokens, Calling, vars
    <3>. QED  BY <3>1, <3>2, ZenonT(60)
  <2>2. CASE Next
    <3>1. PICK p \in Proc :
             \/ \E l \in Lock : RWLockDeclare(p, l) \/ UndeclareStep(p, l)
             \/ \E l \in Lock, m \in LockMode : RWLockAcquire(p, l, m) \/ ReleaseStep(p, l, m)
             \/ CasAcquires(p) \/ CasWaits(p) \/ Unref(p) \/ Quiet(p)
      BY <2>2, NextCases, ZenonT(60)
    <3>2. HoldoffInLoop(p) \in Int
      BY SMTT(60) DEF IInv, TypeOK, HoldoffInLoop
    <3>3. ASSUME NEW l \in Lock, RWLockDeclare(p, l) PROVE TypeOK' /\ CountInv'
      BY <3>3, DeclareCounts, ZenonT(60)
    <3>4. ASSUME NEW l \in Lock, UndeclareStep(p, l) PROVE TypeOK' /\ CountInv'
      BY <3>2, <3>4, UndeclareCounts, ZenonT(60) DEF UndeclareStep
    <3>5. ASSUME NEW l \in Lock, NEW m \in LockMode, RWLockAcquire(p, l, m) PROVE TypeOK' /\ CountInv'
      BY <3>5, AcquireCounts, ZenonT(60)
    <3>6. ASSUME NEW l \in Lock, NEW m \in LockMode, ReleaseStep(p, l, m) PROVE TypeOK' /\ CountInv'
      BY <3>2, <3>6, ReleaseCounts, ZenonT(60) DEF ReleaseStep
    <3>7. CASE CasAcquires(p)
      BY <3>7, CasAcquiresCounts, ZenonT(60)
    <3>8. CASE CasWaits(p)
      BY <3>8, CasWaitsCounts, ZenonT(60)
    <3>9. CASE Unref(p)
      BY <3>9, UnrefCounts, ZenonT(60)
    <3>10. CASE Quiet(p)
      BY <3>10, QuietCounts, ZenonT(60) DEF Quiet
    <3>. QED  BY <3>1, <3>3, <3>4, <3>5, <3>6, <3>7, <3>8, <3>9, <3>10, ZenonT(60)
  <2>. QED  BY <2>1, <2>2, ZenonT(60)
<1>. QED  BY <1>1, CallStep, LockStep, HoldoffStep, FlagStep, ZenonT(60) DEF IInv

(* A handle is a token, so a lock that counts nothing is not held.           *)
LEMMA HandleToken ==
    ASSUME TypeOK, NEW p \in Proc, NEW l \in Lock, NEW m \in Mode, NEW i \in 1 .. handles[p][l][m]
    PROVE  <<p, l, m, i>> \in Tokens
BY TokenMember, ZenonT(60) DEF Tokens

(* No two handles of a lock if one is exclusive.                             *)
LEMMA IInvExcludes == IInv => MutualExclusion
<1> SUFFICES ASSUME IInv, NEW p \in Proc, NEW l \in Lock, Holds(p, l, "RW_EXCLUSIVE")
             PROVE  /\ handles[p][l]["RW_EXCLUSIVE"] = 1 /\ ~Holds(p, l, "RW_SHARED")
                    /\ \A q \in Proc \ {p}, m \in LockMode : ~Holds(q, l, m)
  BY ZenonT(60) DEF MutualExclusion
<1> DEFINE E == OfMode(Tokens, l, "RW_EXCLUSIVE")
           S == OfMode(Tokens, l, "RW_SHARED")
<1>1. TypeOK /\ IsFiniteSet(E) /\ IsFiniteSet(S) /\ Cardinality(E) \in Nat
  BY FS_Subset, FS_CardinalityType, ZenonT(60) DEF IInv, CountInv, OfMode
<1>2. Cardinality(E) = 0 \/ (Cardinality(E) = 1 /\ Cardinality(S) = 0)
  BY ZenonT(60) DEF IInv, CountInv, LockInv
<1>3. ASSUME NEW q \in Proc, NEW m \in LockMode, NEW i \in 1 .. handles[q][l][m]
      PROVE  <<q, l, m, i>> \in OfMode(Tokens, l, m)
  <2>1. <<q, l, m, i>> \in Tokens
    BY <1>1, HandleToken, ZenonT(60) DEF Mode
  <2>. QED  BY <2>1, ZenonT(60) DEF OfMode
<1>4. handles[p][l]["RW_EXCLUSIVE"] \in Nat /\ handles[p][l]["RW_EXCLUSIVE"] > 0
  BY <1>1, SMTT(60) DEF TypeOK, Holds, Mode, LockMode
<1>5. <<p, l, "RW_EXCLUSIVE", 1>> \in E
  BY <1>3, <1>4, SMTT(60) DEF LockMode
<1> HIDE DEF E, S
<1>6. E # {} /\ Cardinality(E) # 0
  BY <1>1, <1>5, FS_EmptySet, ZenonT(60)
<1>7. Cardinality(E) = 1 /\ S = {}
  BY <1>1, <1>2, <1>6, FS_EmptySet, ZenonT(60)
<1>8. \A x \in E : x = <<p, l, "RW_EXCLUSIVE", 1>>
  BY <1>1, <1>5, <1>7, FS_Singleton, SMTT(60)
<1>9. ~Holds(p, l, "RW_SHARED") /\ \A q \in Proc : ~Holds(q, l, "RW_SHARED")
  <2>1. ASSUME NEW q \in Proc, Holds(q, l, "RW_SHARED") PROVE FALSE
    <3>1. 1 \in 1 .. handles[q][l]["RW_SHARED"]
      BY <1>1, <2>1, SMTT(60) DEF TypeOK, Holds, Mode, LockMode
    <3>2. <<q, l, "RW_SHARED", 1>> \in S
      BY <1>3, <3>1, ZenonT(60) DEF LockMode, S
    <3>. QED  BY <1>7, <3>2, ZenonT(60)
  <2>. QED  BY <2>1, ZenonT(60)
<1>10. handles[p][l]["RW_EXCLUSIVE"] = 1
  <2>1. handles[p][l]["RW_EXCLUSIVE"] \in 1 .. handles[p][l]["RW_EXCLUSIVE"]
    BY <1>4, SMTT(60)
  <2>2. <<p, l, "RW_EXCLUSIVE", handles[p][l]["RW_EXCLUSIVE"]>> \in E
    BY <1>3, <2>1, ZenonT(60) DEF LockMode, E
  <2>. QED  BY <1>8, <2>2, ZenonT(60)
<1>11. ASSUME NEW q \in Proc \ {p} PROVE ~Holds(q, l, "RW_EXCLUSIVE")
  <2>1. SUFFICES ASSUME Holds(q, l, "RW_EXCLUSIVE") PROVE FALSE
    BY ZenonT(60)
  <2>2. 1 \in 1 .. handles[q][l]["RW_EXCLUSIVE"]
    BY <1>1, <2>1, SMTT(60) DEF TypeOK, Holds, Mode, LockMode
  <2>3. <<q, l, "RW_EXCLUSIVE", 1>> \in E
    BY <1>3, <2>2, ZenonT(60) DEF LockMode, E
  <2>. QED  BY <1>8, <2>3, ZenonT(60)
<1>. QED  BY <1>9, <1>10, <1>11, ZenonT(60) DEF LockMode

(* No references: no handles and no calls.                                   *)
LEMMA IInvUnused == IInv => DestroyableIsUnused
<1> SUFFICES ASSUME IInv, NEW l \in Lock, RWLockCheckDestroyable(l), NEW p \in Proc
             PROVE  /\ \A m \in Mode : ~Holds(p, l, m)
                    /\ call[p].lock # l
  BY ZenonT(60) DEF DestroyableIsUnused
<1>1. /\ IsFiniteSet(OfLock(Tokens, l)) /\ IsFiniteSet(Calling(l))
      /\ Cardinality(OfLock(Tokens, l)) \in Nat /\ Cardinality(Calling(l)) \in Nat
  BY ProcAssumption, FS_Subset, FS_CardinalityType, ZenonT(60) DEF IInv, CountInv, OfLock, Calling
<1>2. Cardinality(OfLock(Tokens, l)) + Cardinality(Calling(l)) = 0
  BY ZenonT(60) DEF IInv, CountInv, RWLockCheckDestroyable
<1>3. OfLock(Tokens, l) = {} /\ Calling(l) = {}
  BY <1>1, <1>2, FS_EmptySet, SMTT(60)
<1>4. ASSUME NEW m \in Mode, Holds(p, l, m) PROVE FALSE
  <2>1. 1 \in 1 .. handles[p][l][m] /\ TypeOK
    BY <1>4, SMTT(60) DEF IInv, TypeOK, Holds
  <2>2. <<p, l, m, 1>> \in Tokens
    BY <2>1, HandleToken, ZenonT(60)
  <2>3. <<p, l, m, 1>> \in OfLock(Tokens, l)
    BY <2>2, ZenonT(60) DEF OfLock
  <2>. QED  BY <1>3, <2>3, ZenonT(60)
<1>. QED  BY <1>3, <1>4, ZenonT(60) DEF Calling

-----------------------------------------------------------------------------
(* The invariant is an invariant of every execution.                         *)
LEMMA AlwaysIInv == Spec => []IInv
BY IInvInit, IInvStep, PTL DEF Spec

(* No field of the word of a lock is ever negative, so none borrows from its *)
(* neighbour, and no process has more than MAX_SIMUL_RWLOCKS handles.        *)
THEOREM TypeCorrect == Spec => []TypeOK
<1>1. IInv => TypeOK
  BY ZenonT(60) DEF IInv
<1>. QED  BY <1>1, AlwaysIInv, PTL

(* The lock excludes, for any number of processes, locks and handles.        *)
THEOREM LockExcludes == Spec => []MutualExclusion
BY AlwaysIInv, IInvExcludes, PTL

(* An entry that RWLockCheckDestroyable lets go is not in use.               *)
THEOREM DestroyIsSafe == Spec => []DestroyableIsUnused
BY AlwaysIInv, IInvUnused, PTL

(* Interrupts are held off exactly as long as there are handles, unless a    *)
(* caught ERROR or a plain ROLLBACK has left the count wrong; the next ERROR *)
(* makes it right again.                                                     *)
THEOREM HoldoffIsBalanced == Spec => []HoldoffBalanced
<1>1. IInv => HoldoffBalanced
  BY ZenonT(60) DEF IInv
<1>. QED  BY <1>1, AlwaysIInv, PTL

(* No exclusive-waiter flag is left behind.                                  *)
THEOREM FlagIsNotLeftBehind == Spec => []FlagHasWaiter
<1>1. IInv => FlagHasWaiter
  BY ZenonT(60) DEF IInv
<1>. QED  BY <1>1, AlwaysIInv, PTL
=============================================================================
