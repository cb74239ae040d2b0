------------------------ MODULE EmbeddingCallsProofs ------------------------
(***************************************************************************)
(* The safety of the embedding calls, for any callers, workloads, limits   *)
(* and numbers of attempts. The splitters are recursive functions, so the  *)
(* first part is an induction over data: a set of naturals with 0 and the  *)
(* successors of its members has them all, a step from each value to the   *)
(* next defines a function, and what holds of its values follows.          *)
(***************************************************************************)
EXTENDS EmbeddingCalls, FiniteSetTheorems, SequenceTheorems, TLAPS

-----------------------------------------------------------------------------
(* Induction over data.                                                    *)

(* A set of naturals that is not empty has a least member.                 *)
LEMMA LeastMember ==
  ASSUME NEW T, T \subseteq Nat, T # {}
  PROVE  \E x \in T : \A y \in T : x <= y
<1> DEFINE R == {p \in Nat \X Nat : p[1] < p[2]}
<1>1. IsWellFoundedOn(OpToRel(<, Nat), Nat)
  BY NatLessThanWellFounded
<1>2. OpToRel(<, Nat) = R
  BY DEF OpToRel
<1>3. IsWellFoundedOn(R, Nat)
  BY <1>1, <1>2
<1>4. \A x, y \in Nat : <<y, x>> \in R <=> y < x
  OBVIOUS
<1> HIDE DEF R
<1>5. PICK x \in T : \A y \in T : ~ (<<y, x>> \in R)
  BY <1>3, WFMin
<1>6. ASSUME NEW y \in T
      PROVE  x <= y
  <2>1. x \in Nat /\ y \in Nat
    OBVIOUS
  <2>2. ~ (y < x)
    BY <1>4, <1>5, <2>1
  <2> QED
    BY <2>1, <2>2
<1> QED
  BY <1>6

(* Induction, over a set.                                                  *)
LEMMA Induction ==
  ASSUME NEW T, 0 \in T, \A n \in Nat : n \in T => n + 1 \in T
  PROVE  \A n \in Nat : n \in T
<1> SUFFICES ASSUME Nat \ T # {} PROVE FALSE
  OBVIOUS
<1>1. PICK x \in Nat \ T : \A y \in Nat \ T : x <= y
  BY LeastMember
<1>2. x - 1 \in Nat /\ x = (x - 1) + 1
  OBVIOUS
<1>3. x - 1 \in T
  BY <1>1, <1>2
<1> QED
  BY <1>2, <1>3

(* A step from one value to the next defines a function.                   *)
Defined(X, x0, m, step) ==
    \E f \in [0 .. m -> X] : f[0] = x0 /\ \A i \in 1 .. m : f[i] = step[i][f[i - 1]]

LEMMA StepsDefine ==
  ASSUME NEW X, NEW x0 \in X, NEW m \in Nat, NEW step \in [1 .. m -> [X -> X]]
  PROVE  Defined(X, x0, m, step)
<1> DEFINE Up(n, f) == f[0] = x0 /\ \A i \in 1 .. n : f[i] = step[i][f[i - 1]]
           T == {n \in Nat : n <= m => \E f \in [0 .. n -> X] : Up(n, f)}
<1>1. 0 \in T
  <2>1. [i \in 0 .. 0 |-> x0] \in [0 .. 0 -> X] /\ Up(0, [i \in 0 .. 0 |-> x0])
    OBVIOUS
  <2> QED
    BY <2>1
<1>2. ASSUME NEW n \in Nat, n \in T
      PROVE  n + 1 \in T
  <2> SUFFICES ASSUME n + 1 <= m PROVE \E f \in [0 .. n + 1 -> X] : Up(n + 1, f)
    OBVIOUS
  <2>1. PICK f \in [0 .. n -> X] : Up(n, f)
    BY <1>2
  <2>2. f[n] \in X /\ step[n + 1][f[n]] \in X
    OBVIOUS
  <2> DEFINE g == [i \in 0 .. n + 1 |-> IF i = n + 1 THEN step[n + 1][f[n]] ELSE f[i]]
  <2>3. g \in [0 .. n + 1 -> X]
    BY <2>2
  <2>4. g[0] = x0
    BY <2>1
  <2>5. ASSUME NEW i \in 1 .. n + 1
        PROVE  g[i] = step[i][g[i - 1]]
    <3>1. CASE i = n + 1
      BY <3>1
    <3>2. CASE i \in 1 .. n
      BY <2>1, <3>2
    <3> QED
      BY <3>1, <3>2
  <2> QED
    BY <2>3, <2>4, <2>5
<1> HIDE DEF T
<1>3. m \in T
  BY <1>1, <1>2, Induction
<1> QED
  BY <1>3 DEF T, Defined

-----------------------------------------------------------------------------
(* Tokens.                                                                 *)

(* The tokens of a batch are the last of its partial sums.                 *)
Sums(f, s) ==
    /\ f \in [0 .. Len(s) -> Nat]
    /\ f[0] = 0
    /\ \A i \in 1 .. Len(s) : f[i] = f[i - 1] + s[i]

LEMMA TokensAreSummed ==
  ASSUME NEW s \in Seq(Nat)
  PROVE  \E f : Sums(f, s) /\ TokensOf(s) = f[Len(s)]
<1>1. Len(s) \in Nat /\ \A i \in 1 .. Len(s) : s[i] \in Nat
  OBVIOUS
<1> DEFINE F(f) == [i \in 0 .. Len(s) |-> IF i = 0 THEN 0 ELSE f[i - 1] + s[i]]
           step == [i \in 1 .. Len(s) |-> [n \in Nat |-> n + s[i]]]
<1>2. step \in [1 .. Len(s) -> [Nat -> Nat]]
  BY <1>1
<1>4. \A i \in 1 .. Len(s) : \A n \in Nat : step[i][n] = n + s[i]
  OBVIOUS
<1> HIDE DEF step
<1>3. PICK f \in [0 .. Len(s) -> Nat] :
         f[0] = 0 /\ \A i \in 1 .. Len(s) : f[i] = step[i][f[i - 1]]
  <2>1. Defined(Nat, 0, Len(s), step)
    BY <1>1, <1>2, StepsDefine
  <2> QED
    BY <2>1 DEF Defined
<1>5. ASSUME NEW i \in 1 .. Len(s)
      PROVE  f[i] = f[i - 1] + s[i]
  <2>1. i - 1 \in 0 .. Len(s)
    BY <1>1
  <2>2. f[i - 1] \in Nat
    BY <2>1
  <2> QED
    BY <1>3, <1>4, <2>2
<1>6. f = F(f)
  BY <1>1, <1>3, <1>5
<1> DEFINE g == CHOOSE g : g = F(g)
<1>7. g = F(g)
  BY <1>6
<1>8. TokensOf(s) = g[Len(s)]
  BY DEF TokensOf
<1> HIDE DEF g
<1>9. g[0] = 0 /\ \A i \in 1 .. Len(s) : g[i] = g[i - 1] + s[i]
  BY <1>1, <1>7
<1> DEFINE T == {n \in Nat : n <= Len(s) => g[n] = f[n]}
<1>10. 0 \in T
  BY <1>3, <1>9
<1>11. ASSUME NEW n \in Nat, n \in T
       PROVE  n + 1 \in T
  BY <1>1, <1>5, <1>9, <1>11
<1> HIDE DEF T
<1>12. Len(s) \in T
  BY <1>1, <1>10, <1>11, Induction
<1>13. g[Len(s)] = f[Len(s)]
  BY <1>1, <1>12 DEF T
<1> QED
  BY <1>3, <1>5, <1>8, <1>13 DEF Sums

(* The sum of a stretch of a sequence is the difference of two sums of it. *)
IsStretch(t, s, d) ==
    d + Len(t) <= Len(s) /\ \A k \in 1 .. Len(t) : t[k] = s[d + k]

LEMMA StretchIsSummed ==
  ASSUME NEW s \in Seq(Nat), NEW t \in Seq(Nat), NEW f, NEW g, Sums(f, s), Sums(g, t),
         NEW d \in Nat, IsStretch(t, s, d)
  PROVE  g[Len(t)] + f[d] = f[d + Len(t)]
<1> DEFINE T == {n \in Nat : n <= Len(t) => g[n] + f[d] = f[d + n]}
<1>1. Len(s) \in Nat /\ Len(t) \in Nat /\ d \in 0 .. Len(s) /\ d + Len(t) <= Len(s)
  BY DEF IsStretch
<1>2. \A i \in 0 .. Len(s) : f[i] \in Nat
  BY <1>1 DEF Sums
<1>3. \A i \in 0 .. Len(t) : g[i] \in Nat
  BY <1>1 DEF Sums
<1>4. 0 \in T
  BY <1>1, <1>2 DEF Sums
<1>5. ASSUME NEW n \in Nat, n \in T
      PROVE  n + 1 \in T
  <2> SUFFICES ASSUME n + 1 <= Len(t) PROVE g[n + 1] + f[d] = f[d + (n + 1)]
    OBVIOUS
  <2>1. g[n] + f[d] = f[d + n]
    BY <1>1, <1>5
  <2>2. n + 1 \in 1 .. Len(t) /\ d + (n + 1) \in 1 .. Len(s)
        /\ (n + 1) - 1 = n /\ (d + (n + 1)) - 1 = d + n
    BY <1>1
  <2>3. g[n + 1] = g[n] + t[n + 1]
    BY <2>2 DEF Sums
  <2>4. f[d + (n + 1)] = f[d + n] + s[d + (n + 1)]
    BY <2>2 DEF Sums
  <2>5. t[n + 1] = s[d + (n + 1)] /\ t[n + 1] \in Nat
    BY <1>1, <2>2 DEF IsStretch
  <2>6. g[n] \in Nat /\ f[d] \in Nat /\ f[d + n] \in Nat
    BY <1>1, <1>2, <1>3, <2>2
  <2> DEFINE a == g[n]
             b == f[d]
             c == f[d + n]
             x == t[n + 1]
             y == g[n + 1]
             z == f[d + (n + 1)]
  <2>7. a + b = c /\ y = a + x /\ z = c + x
    BY <2>1, <2>3, <2>4, <2>5
  <2>8. a \in Nat /\ b \in Nat /\ c \in Nat /\ x \in Nat
    BY <2>5, <2>6
  <2> HIDE DEF a, b, c, x, y, z
  <2>9. y + b = z
    BY <2>7, <2>8
  <2> QED
    BY <2>9 DEF b, y, z
<1> HIDE DEF T
<1>6. Len(t) \in T
  BY <1>1, <1>4, <1>5, Induction
<1> QED
  BY <1>1, <1>6 DEF T

(* The tokens of a batch are a number.                                     *)
LEMMA TokensAreNatural == ASSUME NEW s \in Seq(Nat) PROVE TokensOf(s) \in Nat
<1>1. PICK f : Sums(f, s) /\ TokensOf(s) = f[Len(s)]
  BY TokensAreSummed
<1>2. Len(s) \in 0 .. Len(s)
  OBVIOUS
<1> QED
  BY <1>1, <1>2 DEF Sums

(* One more text adds its tokens.                                          *)
LEMMA TokensOfAppend ==
  ASSUME NEW s \in Seq(Nat), NEW n \in Nat
  PROVE  TokensOf(Append(s, n)) = TokensOf(s) + n
<1> DEFINE t == Append(s, n)
<1>1. /\ t \in Seq(Nat) /\ Len(t) = Len(s) + 1 /\ t[Len(s) + 1] = n
      /\ \A k \in 1 .. Len(s) : s[k] = t[k]
      /\ Len(s) \in Nat
  OBVIOUS
<1> HIDE DEF t
<1>2. PICK f : Sums(f, t) /\ TokensOf(t) = f[Len(t)]
  BY <1>1, TokensAreSummed
<1>3. PICK g : Sums(g, s) /\ TokensOf(s) = g[Len(s)]
  BY TokensAreSummed
<1>4. g[Len(s)] + f[0] = f[0 + Len(s)]
  <2>1. IsStretch(s, t, 0)
    BY <1>1 DEF IsStretch
  <2> QED
    BY <1>1, <1>2, <1>3, <2>1, StretchIsSummed
<1>5. f[0] = 0 /\ g[Len(s)] \in Nat
  <2>1. Len(s) \in 0 .. Len(s)
    BY <1>1
  <2> QED
    BY <1>2, <1>3, <2>1 DEF Sums
<1>6. f[Len(s) + 1] = f[Len(s)] + n
  <2>1. Len(s) + 1 \in 1 .. Len(t) /\ (Len(s) + 1) - 1 = Len(s)
    BY <1>1
  <2> QED
    BY <1>1, <1>2, <2>1 DEF Sums
<1>7. TokensOf(t) = TokensOf(s) + n
  BY <1>1, <1>2, <1>3, <1>4, <1>5, <1>6
<1> QED
  BY <1>7 DEF t

(* The end of a sequence has at most the tokens of the whole.              *)
LEMMA TokensOfSuffix ==
  ASSUME NEW s \in Seq(Nat), NEW i \in 1 .. Len(s)
  PROVE  TokensOf(SubSeq(s, i, Len(s))) <= TokensOf(s)
<1> DEFINE t == SubSeq(s, i, Len(s))
           d == i - 1
<1>1. /\ t \in Seq(Nat) /\ d + Len(t) = Len(s)
      /\ \A k \in 1 .. Len(t) : t[k] = s[d + k]
      /\ Len(s) \in Nat /\ d \in Nat
  OBVIOUS
<1> HIDE DEF t, d
<1>2. PICK f : Sums(f, s) /\ TokensOf(s) = f[Len(s)]
  BY TokensAreSummed
<1>3. PICK g : Sums(g, t) /\ TokensOf(t) = g[Len(t)]
  BY <1>1, TokensAreSummed
<1>4. g[Len(t)] + f[d] = f[d + Len(t)]
  <2>1. IsStretch(t, s, d)
    BY <1>1 DEF IsStretch
  <2> QED
    BY <1>1, <1>2, <1>3, <2>1, StretchIsSummed
<1>5. f[d] \in Nat /\ g[Len(t)] \in Nat
  <2>1. d \in 0 .. Len(s) /\ Len(t) \in 0 .. Len(t)
    BY <1>1
  <2> QED
    BY <1>2, <1>3, <2>1 DEF Sums
<1>6. f[Len(s)] \in Nat
  <2>1. Len(s) \in 0 .. Len(s)
    BY <1>1
  <2> QED
    BY <1>2, <2>1 DEF Sums
<1> DEFINE a == g[Len(t)]
           b == f[d]
           c == f[Len(s)]
<1>7. a + b = c /\ a \in Nat /\ b \in Nat /\ c \in Nat
  BY <1>1, <1>4, <1>5, <1>6
<1>8. TokensOf(t) = a /\ TokensOf(s) = c
  BY <1>2, <1>3
<1> HIDE DEF a, b, c
<1>9. TokensOf(t) <= TokensOf(s)
  BY <1>7, <1>8
<1> QED
  BY <1>9 DEF t

-----------------------------------------------------------------------------
(* The invariant.                                                          *)

Places == {"check", "rpm", "tpm", "slot", "enter", "limit", "calling", "backoff",
           "done", "raised", "stopped"}

(* Between a check for a cancel and the answer of the call after it.       *)
Committed == {"rpm", "tpm", "slot", "enter", "limit", "calling"}

Ended == {"done", "raised", "stopped"}

Request == [age : Nat, tokens : Nat]

Types ==
    /\ pc \in [Callers -> Places]
    /\ attempt \in [Callers -> Nat]
    /\ after \in [Callers -> Nat]
    /\ cancelled \in BOOLEAN
    /\ log \in Seq(Request)

(* The calls of a plan are its texts from cut to cut.                      *)
IsCut(cut, calls, texts) ==
    /\ cut \in [0 .. Len(calls) -> 0 .. Len(texts)]
    /\ cut[0] = 0 /\ cut[Len(calls)] = Len(texts)
    /\ \A k \in 1 .. Len(calls) :
         cut[k - 1] <= cut[k] /\ calls[k] = SubSeq(texts, cut[k - 1] + 1, cut[k])

Tiles(calls, texts) == calls \in Seq(Seq(Nat)) /\ \E cut : IsCut(cut, calls, texts)

(* What a caller has is its texts up to the cut of the call it is at.      *)
HasThoseBefore(c) ==
    /\ plan[c].texts \in Seq(Nat) /\ plan[c].calls \in Seq(Seq(Nat))
    /\ call[c] \in 1 .. Len(plan[c].calls) + 1
    /\ pc[c] \notin Ended => call[c] <= Len(plan[c].calls)
    /\ pc[c] = "done" => call[c] = Len(plan[c].calls) + 1
    /\ \E cut : /\ IsCut(cut, plan[c].calls, plan[c].texts)
                /\ embedded[c] = SubSeq(plan[c].texts, 1, cut[call[c] - 1])

OrderInv ==
    /\ call \in [Callers -> Nat] /\ DOMAIN embedded = Callers
    /\ embedded = [c \in Callers |-> embedded[c]]
    /\ \A c \in Callers : HasThoseBefore(c)

(* Since the cancel, a caller has made no call that it checked before, and *)
(* a SIE caller has made fewer than it is at.                              *)
StopInv ==
    \A c \in Callers :
      /\ ~cancelled => after[c] = 0
      /\ attempt[c] >= 1
      /\ plan[c].kind \notin {"query", "sie"} =>
           after[c] <= 1 /\ (pc[c] \in Committed => after[c] = 0)
      /\ plan[c].kind = "sie" =>
           /\ attempt[c] <= SieRetries /\ after[c] <= SieRetries
           /\ pc[c] \in Committed => after[c] < attempt[c]

(* What is saved is the number torch started with, and while it has        *)
(* another someone is there to restore it.                                 *)
ThreadInv ==
    /\ torch \in {TorchThreads, ThreadBudget}
    /\ previous \in [Callers -> {0, TorchThreads}]
    /\ \A c \in Callers : previous[c] # 0 => pc[c] \in {"limit", "calling"}
    /\ \A c \in Callers : pc[c] = "limit" => previous[c] # 0
    /\ torch # TorchThreads => \E c \in Callers : previous[c] # 0

YoungOf(requests) == {i \in DOMAIN requests : requests[i].age <= Window}

Sleepers == {c \in Callers : pc[c] = "tpm"}

(* Every thread that sleeps on the tokens is one request to come.          *)
RequestsInv == Cardinality(Young) + Cardinality(Sleepers) < Rpm + Cardinality(Callers)

Inv == Types /\ OrderInv /\ StopInv /\ ThreadInv /\ RequestsInv /\ TokensWithinLimit

-----------------------------------------------------------------------------
(* Callers and calls.                                                      *)

(* A step of one caller leaves the others where they were.                 *)
LEMMA StopThread ==
  ASSUME Types, StopInv, NEW c \in Callers, Thread(c)
  PROVE  StopInv'
<1>1. /\ cancelled' = cancelled /\ plan' = plan /\ SieRetries \in Nat \ {0}
      /\ \A o \in Callers : /\ pc[o] \in Places /\ attempt[o] \in Nat /\ after[o] \in Nat
      /\ c \in DOMAIN pc /\ c \in DOMAIN attempt /\ c \in DOMAIN after
  BY LimitsAssumption DEF Types, Thread, Check, WaitForRpm, WaitForTpm, PassTokens, TakeSlot,
     EnterPool, LimitThreads, CallOk, CallAgain, SieAgain, CallRaises, EndBackoff, Answered,
     Goto, data
<1>2. CASE Check(c)
  <2>1. UNCHANGED <<attempt, after>>
    BY <1>2 DEF Check
  <2>2. CASE cancelled /\ plan[c].kind # "query"
    <3>1. pc' = [pc EXCEPT ![c] = "stopped"]
      BY <1>2, <2>2 DEF Check, Goto
    <3> QED
      BY <1>1, <2>1, <3>1 DEF StopInv, Committed
  <2>3. CASE ~ (cancelled /\ plan[c].kind # "query")
    <3>1. \A o \in Callers \ {c} : pc'[o] = pc[o]
      BY <1>1, <1>2 DEF Check, Goto
    <3>2. plan[c].kind # "query" => after[c] = 0
      BY <2>3 DEF StopInv
    <3> QED
      BY <1>1, <2>1, <3>1, <3>2 DEF StopInv
  <2> QED
    BY <2>2, <2>3
<1>3. CASE WaitForRpm(c) \/ WaitForTpm(c)
  BY <1>1, <1>3 DEF WaitForRpm, WaitForTpm, PassTokens, Goto, StopInv, Committed, data, Types
<1>4. CASE TakeSlot(c) \/ EnterPool(c) \/ LimitThreads(c) \/ EndBackoff(c)
  BY <1>1, <1>4 DEF TakeSlot, EnterPool, LimitThreads, EndBackoff, Goto, StopInv, Committed,
     data, Types
<1>5. CASE CallOk(c)
  BY <1>1, <1>5 DEF CallOk, Answered, Goto, StopInv, Committed, Types
<1>6. CASE CallAgain(c)
  BY <1>1, <1>6 DEF CallAgain, Answered, Voyage, Goto, StopInv, Committed, Types
<1>7. CASE SieAgain(c)
  BY <1>1, <1>7 DEF SieAgain, Answered, Goto, StopInv, Committed, Types
<1>8. CASE CallRaises(c)
  BY <1>1, <1>8 DEF CallRaises, Answered, Goto, StopInv, Committed, Types
<1> QED
  BY <1>2, <1>3, <1>4, <1>5, <1>6, <1>7, <1>8 DEF Thread

(* The number of threads: saved by one, restored by it.                    *)
LEMMA ThreadsThread ==
  ASSUME Types, ThreadInv, NEW c \in Callers, Thread(c)
  PROVE  ThreadInv'
<1>1. /\ TorchThreads \in Nat \ {0} /\ ThreadBudget \in Nat
      /\ c \in DOMAIN pc /\ c \in DOMAIN previous
      /\ \A o \in Callers : previous[o] \in {0, TorchThreads}
  BY ThreadsAssumption DEF Types, ThreadInv
<1>2. CASE Check(c) \/ WaitForRpm(c) \/ WaitForTpm(c) \/ TakeSlot(c) \/ EndBackoff(c)
  BY <1>1, <1>2 DEF Check, WaitForRpm, WaitForTpm, PassTokens, TakeSlot, EndBackoff, Goto,
     ThreadInv, torchVars, Types
<1>3. CASE EnterPool(c)
  BY <1>1, <1>3 DEF EnterPool, Goto, ThreadInv, Types
<1>4. CASE LimitThreads(c)
  BY <1>1, <1>4 DEF LimitThreads, Goto, ThreadInv, Types
<1>5. CASE CallOk(c) \/ CallAgain(c) \/ SieAgain(c) \/ CallRaises(c)
  <2>1. /\ torch' = IF previous[c] > 0 THEN previous[c] ELSE torch
        /\ previous' = [previous EXCEPT ![c] = 0]
        /\ \E place \in Places \ {"limit"} : pc' = [pc EXCEPT ![c] = place]
    BY <1>5 DEF CallOk, CallAgain, SieAgain, CallRaises, Answered, Goto, Places
  <2> QED
    BY <1>1, <2>1 DEF ThreadInv, Types
<1> QED
  BY <1>2, <1>3, <1>4, <1>5 DEF Thread

-----------------------------------------------------------------------------
(* The limiter.                                                            *)

(* What is young stands somewhere in the log, and there are so many.       *)
LEMMA YoungIsFinite ==
  ASSUME NEW requests \in Seq(Request)
  PROVE  /\ YoungOf(requests) \subseteq 1 .. Len(requests)
         /\ IsFiniteSet(YoungOf(requests))
         /\ Cardinality(YoungOf(requests)) \in Nat
         /\ Cardinality(YoungOf(requests)) <= Len(requests)
<1>1. Len(requests) \in Nat /\ YoungOf(requests) \subseteq 1 .. Len(requests)
  BY DEF YoungOf
<1>2. /\ IsFiniteSet(1 .. Len(requests))
      /\ Cardinality(1 .. Len(requests)) = IF 1 > Len(requests) THEN 0 ELSE Len(requests) - 1 + 1
  <2>1. Len(requests) \in Int
    BY <1>1
  <2> QED
    BY <2>1, FS_Interval
<1>3. Cardinality(1 .. Len(requests)) = Len(requests)
  BY <1>1, <1>2
<1> QED
  BY <1>1, <1>2, <1>3, FS_Subset, FS_CardinalityType

(* The purged log is the log from some place on, or empty.                 *)
LEMMA PurgedIsTheEnd ==
  ASSUME log \in Seq(Request)
  PROVE  /\ Purged \in Seq(Request)
         /\ \/ Purged = <<>>
            \/ \E m \in 1 .. Len(log) : Purged = SubSeq(log, m, Len(log))
<1>1. CASE Young = {}
  BY <1>1 DEF Purged
<1>2. CASE Young # {}
  <2>1. Young \subseteq Nat /\ Young \subseteq 1 .. Len(log)
    BY DEF Young
  <2>2. \E x \in Young : \A y \in Young : x <= y
    BY <1>2, <2>1, LeastMember
  <2>3. Min(Young) \in Young
    BY <2>2 DEF Min
  <2>4. Purged = SubSeq(log, Min(Young), Len(log)) /\ Min(Young) \in 1 .. Len(log)
    BY <1>2, <2>1, <2>3 DEF Purged
  <2> HIDE DEF Purged
  <2>5. \A m \in 1 .. Len(log) : SubSeq(log, m, Len(log)) \in Seq(Request)
    OBVIOUS
  <2> QED
    BY <2>4, <2>5
<1> QED
  BY <1>1, <1>2

(* Purging makes no request young.                                         *)
LEMMA PurgedHasNoMoreYoung ==
  ASSUME log \in Seq(Request)
  PROVE  Cardinality(YoungOf(Purged)) <= Cardinality(Young)
<1>1. Young = YoungOf(log)
  BY DEF Young, YoungOf
<1>2. IsFiniteSet(Young) /\ Cardinality(Young) \in Nat
  BY <1>1, YoungIsFinite
<1>3. CASE Purged = <<>>
  <2>1. YoungOf(Purged) = {}
    BY <1>3 DEF YoungOf
  <2>2. Cardinality(YoungOf(Purged)) = 0
    BY <2>1, FS_EmptySet, Zenon
  <2> QED
    BY <1>2, <2>2
<1>4. ASSUME NEW m \in 1 .. Len(log), Purged = SubSeq(log, m, Len(log))
      PROVE  Cardinality(YoungOf(Purged)) <= Cardinality(Young)
  <2> DEFINE f == [i \in YoungOf(Purged) |-> (m - 1) + i]
  <2>1. /\ \A i \in 1 .. Len(Purged) : (m - 1) + i \in 1 .. Len(log) /\ Purged[i] = log[(m - 1) + i]
        /\ Purged \in Seq(Request)
    BY <1>4
  <2>2. \A i \in YoungOf(Purged) : i \in 1 .. Len(Purged) /\ (m - 1) + i \in Young
    BY <2>1 DEF YoungOf, Young
  <2>3. f \in [YoungOf(Purged) -> Young]
    BY <2>2
  <2>4. \A i, j \in YoungOf(Purged) : f[i] = f[j] => i = j
    BY <2>2
  <2>5. f \in Injection(YoungOf(Purged), Young)
    BY <2>3, <2>4, Zenon DEF Injection, IsInjective
  <2> HIDE DEF f
  <2> QED
    BY <1>2, <2>5, FS_Injection
<1> QED
  BY <1>3, <1>4, PurgedIsTheEnd

(* One more request is at most one more young one.                         *)
LEMMA AppendAddsOne ==
  ASSUME NEW requests \in Seq(Request), NEW r \in Request
  PROVE  Cardinality(YoungOf(Append(requests, r))) <= Cardinality(YoungOf(requests)) + 1
<1> DEFINE t == Append(requests, r)
           S == YoungOf(requests)
<1>1. /\ t \in Seq(Request) /\ DOMAIN t = 1 .. Len(requests) + 1
      /\ DOMAIN requests = 1 .. Len(requests) /\ Len(requests) \in Nat
      /\ \A k \in 1 .. Len(requests) : t[k] = requests[k]
  OBVIOUS
<1>2. IsFiniteSet(S) /\ Cardinality(S) \in Nat /\ Len(requests) + 1 \notin S
  BY <1>1, YoungIsFinite DEF YoungOf
<1> HIDE DEF t
<1>3. YoungOf(t) \subseteq S \cup {Len(requests) + 1}
  BY <1>1 DEF YoungOf
<1>4. /\ IsFiniteSet(S \cup {Len(requests) + 1})
      /\ Cardinality(S \cup {Len(requests) + 1}) = Cardinality(S) + 1
  BY <1>2, FS_AddElement
<1>5. Cardinality(YoungOf(t)) <= Cardinality(S \cup {Len(requests) + 1})
  BY <1>3, <1>4, FS_Subset
<1> QED
  BY <1>4, <1>5 DEF t

(* A caller that has not ended is at one of its calls.                     *)
LEMMA BatchIsTexts ==
  ASSUME OrderInv, NEW c \in Callers, pc[c] \notin Ended
  PROVE  /\ call[c] \in 1 .. Len(plan[c].calls)
         /\ Batch(c) \in Seq(Nat)
         /\ TokensOf(Batch(c)) \in Nat
<1>1. /\ plan[c].calls \in Seq(Seq(Nat))
      /\ call[c] \in 1 .. Len(plan[c].calls)
  BY DEF OrderInv, HasThoseBefore
<1>2. Batch(c) \in Seq(Nat)
  BY <1>1 DEF Batch
<1> QED
  BY <1>1, <1>2, TokensAreNatural

(* A request that passes the token limit is logged, one that does not goes *)
(* to sleep.                                                               *)
LEMMA PassedOrAsleep ==
  ASSUME Types, OrderInv, NEW c \in Callers, pc[c] \in {"rpm", "tpm"}, PassTokens(c, Purged)
  PROVE  \/ \E r \in Request :
              /\ r.tokens = TokensOf(Batch(c))
              /\ Tpm = 0 \/ Tokens(Purged) + r.tokens <= Tpm \/ Purged = <<>>
              /\ log' = Append(Purged, r)
              /\ pc' = [pc EXCEPT ![c] = "calling"]
         \/ log' = Purged /\ pc' = [pc EXCEPT ![c] = "tpm"]
<1>1. TokensOf(Batch(c)) \in Nat
  BY BatchIsTexts DEF Ended
<1> QED
  BY <1>1 DEF PassTokens, Goto, Request

(* The limiter's callers wait, sleep or call, and its log grows at its end.*)
LEMMA LimiterStep ==
  ASSUME Types, OrderInv, NEW c \in Callers, WaitForRpm(c) \/ WaitForTpm(c)
  PROVE  \/ \E r \in Request :
              /\ r.tokens = TokensOf(Batch(c))
              /\ Tpm = 0 \/ Tokens(Purged) + r.tokens <= Tpm \/ Purged = <<>>
              /\ log' = Append(Purged, r)
              /\ pc' = [pc EXCEPT ![c] = "calling"]
         \/ log' = Purged /\ pc' = [pc EXCEPT ![c] = "tpm"]
         \/ log' = Purged /\ pc' = pc
<1>1. CASE WaitForTpm(c)
  <2>1. pc[c] \in {"rpm", "tpm"} /\ PassTokens(c, Purged)
    BY <1>1 DEF WaitForTpm
  <2> QED
    BY <2>1, PassedOrAsleep
<1>2. CASE WaitForRpm(c) /\ Len(Purged) < Rpm
  <2>1. pc[c] \in {"rpm", "tpm"} /\ PassTokens(c, Purged)
    BY <1>2 DEF WaitForRpm
  <2> QED
    BY <2>1, PassedOrAsleep
<1>3. CASE WaitForRpm(c) /\ ~ (Len(Purged) < Rpm)
  BY <1>3 DEF WaitForRpm
<1> QED
  BY <1>1, <1>2, <1>3

(* The other steps of a caller leave the log and its sleepers alone.       *)
LEMMA OtherStep ==
  ASSUME Types, NEW c \in Callers, Thread(c), ~ WaitForRpm(c), ~ WaitForTpm(c)
  PROVE  /\ log' = log
         /\ pc[c] # "tpm"
         /\ \E place \in Places \ {"tpm"} : pc' = [pc EXCEPT ![c] = place]
<1>1. CASE Check(c)
  BY <1>1 DEF Check, Goto, Places
<1>2. CASE TakeSlot(c) \/ EnterPool(c) \/ LimitThreads(c) \/ EndBackoff(c)
  BY <1>2 DEF TakeSlot, EnterPool, LimitThreads, EndBackoff, Goto, Places
<1>3. CASE CallOk(c) \/ CallAgain(c) \/ SieAgain(c) \/ CallRaises(c)
  BY <1>3 DEF CallOk, CallAgain, SieAgain, CallRaises, Answered, Goto, Places
<1> QED
  BY <1>1, <1>2, <1>3 DEF Thread

(* The types of what a caller changes.                                     *)
LEMMA TypesThread ==
  ASSUME Types, OrderInv, NEW c \in Callers, Thread(c)
  PROVE  Types'
<1>1. /\ attempt' \in [Callers -> Nat]
      /\ after' \in [Callers -> Nat]
      /\ cancelled' \in BOOLEAN
  BY DEF Types, Thread, Check, WaitForRpm, WaitForTpm, PassTokens, TakeSlot, EnterPool,
     LimitThreads, CallOk, CallAgain, SieAgain, CallRaises, EndBackoff, Answered, data
<1>2. log' \in Seq(Request) /\ pc' \in [Callers -> Places]
  <2>1. CASE WaitForRpm(c) \/ WaitForTpm(c)
    <3>1. Purged \in Seq(Request)
      BY PurgedIsTheEnd DEF Types
    <3>2. \A r \in Request : Append(Purged, r) \in Seq(Request)
      BY <3>1
    <3> QED
      BY <2>1, <3>1, <3>2, LimiterStep DEF Types, Places
  <2>2. CASE ~ (WaitForRpm(c) \/ WaitForTpm(c))
    BY <2>2, OtherStep DEF Types
  <2> QED
    BY <2>1, <2>2
<1> QED
  BY <1>1, <1>2 DEF Types

(* Those who sleep on the tokens: some callers.                            *)
LEMMA SleepersAreCallers ==
  /\ IsFiniteSet(Callers) /\ Cardinality(Callers) \in Nat
  /\ IsFiniteSet(Sleepers) /\ Cardinality(Sleepers) \in Nat
  /\ Cardinality(Sleepers) <= Cardinality(Callers)
<1>1. IsFiniteSet(Callers) /\ Sleepers \subseteq Callers
  BY ThreadsAssumption DEF Sleepers
<1> QED
  BY <1>1, FS_Subset, FS_CardinalityType

(* The requests: a step of a caller.                                       *)
LEMMA RequestsThread ==
  ASSUME Types, OrderInv, RequestsInv, NEW c \in Callers, Thread(c)
  PROVE  RequestsInv'
<1> DEFINE y == Cardinality(Young)
           p == Cardinality(YoungOf(Purged))
           s == Cardinality(Sleepers)
           n == Cardinality(Callers)
<1>1. /\ log \in Seq(Request) /\ Purged \in Seq(Request) /\ log' \in Seq(Request)
      /\ Len(Purged) \in Nat /\ Rpm \in Nat /\ c \in DOMAIN pc
  BY TypesThread, PurgedIsTheEnd, LimitsAssumption DEF Types
<1>2. Young = YoungOf(log) /\ Young' = YoungOf(log')
  BY DEF Young, YoungOf
<1>3. y \in Nat /\ p \in Nat /\ p <= Len(Purged) /\ p <= y
  BY <1>1, <1>2, YoungIsFinite, PurgedHasNoMoreYoung
<1>4. /\ n \in Nat /\ s \in Nat /\ s <= n /\ y + s < Rpm + n
      /\ IsFiniteSet(Callers) /\ IsFiniteSet(Sleepers)
  BY SleepersAreCallers DEF RequestsInv
<1>5. Sleepers' = {o \in Callers : pc'[o] = "tpm"}
  BY DEF Sleepers
<1> HIDE DEF y, p, s, n
<1>6. CASE WaitForRpm(c) \/ WaitForTpm(c)
  <2>1. ASSUME NEW r \in Request, log' = Append(Purged, r), pc' = [pc EXCEPT ![c] = "calling"]
        PROVE  RequestsInv'
    <3>1. Cardinality(Young') <= p + 1 /\ Cardinality(Young') \in Nat
      BY <1>1, <1>2, <2>1, AppendAddsOne, YoungIsFinite DEF p
    <3>2. Sleepers' = Sleepers \ {c}
      BY <1>1, <1>5, <2>1 DEF Sleepers
    <3>3. /\ IsFiniteSet(Sleepers \ {c}) /\ Cardinality(Sleepers \ {c}) \in Nat
          /\ Cardinality(Sleepers \ {c}) = IF c \in Sleepers THEN s - 1 ELSE s
      BY <1>4, FS_RemoveElement, FS_CardinalityType DEF s
    <3>4. CASE WaitForTpm(c)
      <4>1. c \in Sleepers
        BY <3>4 DEF WaitForTpm, Sleepers
      <4> QED
        BY <1>1, <1>3, <1>4, <3>1, <3>2, <3>3, <4>1 DEF RequestsInv, n
    <3>5. CASE WaitForRpm(c)
      <4>1. p + 1 <= Rpm
        BY <1>1, <1>3, <2>1, <3>5 DEF WaitForRpm
      <4>2. c \notin Sleepers
        BY <3>5 DEF WaitForRpm, Sleepers
      <4>3. s + 1 <= n
        <5>1. /\ Sleepers \cup {c} \subseteq Callers
              /\ Cardinality(Sleepers \cup {c}) = s + 1
          BY <1>4, <4>2, FS_AddElement DEF Sleepers, s
        <5>2. Cardinality(Sleepers \cup {c}) <= n
          BY <1>4, <5>1, FS_Subset DEF n
        <5> QED
          BY <5>1, <5>2
      <4> QED
        BY <1>1, <1>3, <1>4, <3>1, <3>2, <3>3, <4>1, <4>2, <4>3 DEF RequestsInv, n
    <3> QED
      BY <1>6, <3>4, <3>5
  <2>2. ASSUME log' = Purged, pc' = [pc EXCEPT ![c] = "tpm"]
        PROVE  RequestsInv'
    <3>1. Cardinality(Young') = p
      BY <1>2, <2>2 DEF p
    <3>2. Sleepers' = Sleepers \cup {c}
      BY <1>1, <1>5, <2>2 DEF Sleepers
    <3>3. CASE WaitForTpm(c)
      <4>1. Sleepers' = Sleepers
        BY <3>2, <3>3 DEF WaitForTpm, Sleepers
      <4> QED
        BY <1>1, <1>3, <1>4, <3>1, <4>1 DEF RequestsInv, n, s
    <3>4. CASE WaitForRpm(c)
      <4>1. Len(Purged) < Rpm
        BY <1>1, <2>2, <3>4 DEF WaitForRpm
      <4>2. /\ Sleepers' \subseteq Callers
            /\ Cardinality(Sleepers') \in Nat
            /\ Cardinality(Sleepers') <= n
        BY <1>4, <1>5, FS_Subset, FS_CardinalityType DEF n
      <4> QED
        BY <1>1, <1>3, <1>4, <3>1, <4>1, <4>2 DEF RequestsInv, n
    <3> QED
      BY <1>6, <3>3, <3>4
  <2>3. ASSUME log' = Purged, pc' = pc
        PROVE  RequestsInv'
    <3>1. Cardinality(Young') = p /\ Sleepers' = Sleepers
      BY <1>2, <1>5, <2>3 DEF p, Sleepers
    <3> QED
      BY <1>1, <1>3, <1>4, <3>1 DEF RequestsInv, n, s
  <2> QED
    BY <1>6, <2>1, <2>2, <2>3, LimiterStep
<1>7. CASE ~ (WaitForRpm(c) \/ WaitForTpm(c))
  <2>1. /\ log' = log /\ pc[c] # "tpm"
        /\ \E place \in Places \ {"tpm"} : pc' = [pc EXCEPT ![c] = place]
    BY <1>7, OtherStep
  <2>2. Young' = Young /\ Sleepers' = Sleepers
    BY <1>1, <1>2, <1>5, <2>1 DEF Sleepers
  <2> QED
    BY <2>2 DEF RequestsInv
<1> QED
  BY <1>6, <1>7

-----------------------------------------------------------------------------
(* The tokens in the window.                                               *)

(* The tokens of each request.                                             *)
TokenSeq(requests) == [i \in DOMAIN requests |-> requests[i].tokens]

LEMMA TokenSeqs ==
  ASSUME NEW requests \in Seq(Request)
  PROVE  /\ TokenSeq(requests) \in Seq(Nat)
         /\ Len(TokenSeq(requests)) = Len(requests)
         /\ Tokens(requests) = TokensOf(TokenSeq(requests))
         /\ Tokens(requests) \in Nat
         /\ \A m \in 1 .. Len(requests) :
              TokenSeq(SubSeq(requests, m, Len(requests)))
                = SubSeq(TokenSeq(requests), m, Len(requests))
<1>1. \A i \in 1 .. Len(requests) : requests[i].tokens \in Nat
  <2>1. \A i \in 1 .. Len(requests) : requests[i] \in Request
    OBVIOUS
  <2> QED
    BY <2>1 DEF Request
<1>2. TokenSeq(requests) \in Seq(Nat) /\ Len(TokenSeq(requests)) = Len(requests)
  BY <1>1 DEF TokenSeq
<1>3. Tokens(requests) = TokensOf(TokenSeq(requests))
  BY DEF Tokens, TokenSeq
<1>4. Tokens(requests) \in Nat
  BY <1>2, <1>3, TokensAreNatural
<1>5. ASSUME NEW m \in 1 .. Len(requests)
      PROVE  TokenSeq(SubSeq(requests, m, Len(requests)))
               = SubSeq(TokenSeq(requests), m, Len(requests))
  BY <1>1, <1>2 DEF TokenSeq
<1> QED
  BY <1>2, <1>3, <1>4, <1>5

(* A request's tokens come on top.                                         *)
LEMMA TokensOfOneMore ==
  ASSUME NEW requests \in Seq(Request), NEW r \in Request
  PROVE  Tokens(Append(requests, r)) = Tokens(requests) + r.tokens
<1>1. r.tokens \in Nat /\ \A i \in 1 .. Len(requests) : requests[i].tokens \in Nat
  <2>1. \A i \in 1 .. Len(requests) : requests[i] \in Request
    OBVIOUS
  <2> QED
    BY <2>1 DEF Request
<1>2. TokenSeq(Append(requests, r)) = Append(TokenSeq(requests), r.tokens)
  BY <1>1 DEF TokenSeq
<1>3. Append(requests, r) \in Seq(Request)
  OBVIOUS
<1> QED
  BY <1>1, <1>2, <1>3, TokenSeqs, TokensOfAppend

(* The end of a log has at most the tokens of all of it.                   *)
LEMMA TokensOfTheEnd ==
  ASSUME NEW requests \in Seq(Request), NEW m \in 1 .. Len(requests)
  PROVE  Tokens(SubSeq(requests, m, Len(requests))) <= Tokens(requests)
<1>1. SubSeq(requests, m, Len(requests)) \in Seq(Request)
  OBVIOUS
<1>2. /\ Tokens(SubSeq(requests, m, Len(requests)))
           = TokensOf(TokenSeq(SubSeq(requests, m, Len(requests))))
      /\ Tokens(requests) = TokensOf(TokenSeq(requests))
      /\ TokenSeq(requests) \in Seq(Nat) /\ Len(TokenSeq(requests)) = Len(requests)
  BY <1>1, TokenSeqs
<1>3. TokenSeq(SubSeq(requests, m, Len(requests))) = SubSeq(TokenSeq(requests), m, Len(requests))
  BY TokenSeqs
<1> QED
  BY <1>2, <1>3, TokensOfSuffix

Within(requests) ==
    Tpm > 0 => \A i \in YoungOf(requests) :
                 \/ Tokens(SubSeq(requests, i, Len(requests))) <= Tpm
                 \/ i = Len(requests)

(* Purging keeps a log within the token limit.                             *)
LEMMA WithinPurged ==
  ASSUME log \in Seq(Request), Within(log)
  PROVE  Within(Purged)
<1>1. CASE Purged = <<>>
  BY <1>1 DEF Within, YoungOf
<1>2. ASSUME NEW m \in 1 .. Len(log), Purged = SubSeq(log, m, Len(log))
      PROVE  Within(Purged)
  <2>1. /\ \A i \in 1 .. Len(Purged) : (m - 1) + i \in 1 .. Len(log) /\ Purged[i] = log[(m - 1) + i]
        /\ Purged \in Seq(Request) /\ Len(Purged) = Len(log) - m + 1
    BY <1>2
  <2> SUFFICES ASSUME Tpm > 0, NEW i \in YoungOf(Purged)
               PROVE  \/ Tokens(SubSeq(Purged, i, Len(Purged))) <= Tpm
                      \/ i = Len(Purged)
    BY DEF Within
  <2>2. i \in 1 .. Len(Purged) /\ (m - 1) + i \in YoungOf(log)
    BY <2>1 DEF YoungOf
  <2>3. SubSeq(Purged, i, Len(Purged)) = SubSeq(log, (m - 1) + i, Len(log))
    <3> DEFINE a == SubSeq(Purged, i, Len(Purged))
               b == SubSeq(log, (m - 1) + i, Len(log))
    <3>1. /\ a \in Seq(Request) /\ Len(a) = Len(Purged) - i + 1
          /\ \A k \in 1 .. Len(a) : i + k - 1 \in 1 .. Len(Purged) /\ a[k] = Purged[i + k - 1]
      BY <2>1, <2>2
    <3>2. /\ b \in Seq(Request) /\ Len(b) = Len(log) - ((m - 1) + i) + 1
          /\ \A k \in 1 .. Len(b) : b[k] = log[(m - 1) + i + k - 1]
      BY <2>1, <2>2
    <3> HIDE DEF a, b
    <3>3. Len(a) = Len(b)
      BY <2>1, <2>2, <3>1, <3>2
    <3>4. ASSUME NEW k \in 1 .. Len(a)
          PROVE  a[k] = b[k]
      <4>1. (m - 1) + (i + k - 1) = (m - 1) + i + k - 1
        BY <2>2, <3>1
      <4> QED
        BY <2>1, <3>1, <3>2, <3>3, <4>1
    <3>5. a = b
      BY <3>1, <3>2, <3>3, <3>4, SeqEqual
    <3> QED
      BY <3>5 DEF a, b
  <2>4. \/ Tokens(SubSeq(log, (m - 1) + i, Len(log))) <= Tpm
        \/ (m - 1) + i = Len(log)
    BY <2>2 DEF Within
  <2>5. (m - 1) + i = Len(log) => i = Len(Purged)
    BY <2>1, <2>2
  <2> QED
    BY <2>3, <2>4, <2>5
<1> QED
  BY <1>1, <1>2, PurgedIsTheEnd

(* So does a request that passes.                                          *)
LEMMA WithinAppended ==
  ASSUME NEW requests \in Seq(Request), Within(requests), NEW r \in Request,
         Tpm = 0 \/ Tokens(requests) + r.tokens <= Tpm \/ requests = <<>>
  PROVE  Within(Append(requests, r))
<1> DEFINE t == Append(requests, r)
<1>1. /\ t \in Seq(Request) /\ Len(t) = Len(requests) + 1 /\ Len(requests) \in Nat
      /\ r.tokens \in Nat /\ Tpm \in Nat
  BY LimitsAssumption DEF Request
<1> SUFFICES ASSUME Tpm > 0, NEW i \in YoungOf(t), i # Len(t)
             PROVE  Tokens(SubSeq(t, i, Len(t))) <= Tpm
  BY DEF Within
<1>2. i \in 1 .. Len(requests)
  BY <1>1 DEF YoungOf
<1>3. SubSeq(t, i, Len(t)) = Append(SubSeq(requests, i, Len(requests)), r)
  BY <1>2
<1>4. SubSeq(requests, i, Len(requests)) \in Seq(Request)
  BY <1>2
<1>5. Tokens(SubSeq(t, i, Len(t))) = Tokens(SubSeq(requests, i, Len(requests))) + r.tokens
  BY <1>3, <1>4, TokensOfOneMore
<1>6. Tokens(SubSeq(requests, i, Len(requests))) <= Tokens(requests)
  BY <1>2, TokensOfTheEnd
<1>7. Tokens(SubSeq(requests, i, Len(requests))) \in Nat /\ Tokens(requests) \in Nat
  BY <1>4, TokenSeqs
<1>8. Tokens(requests) + r.tokens <= Tpm
  BY <1>1, <1>2
<1> QED
  BY <1>1, <1>5, <1>6, <1>7, <1>8

(* The tokens: a step of a caller.                                         *)
LEMMA TokensThread ==
  ASSUME Types, OrderInv, TokensWithinLimit, NEW c \in Callers, Thread(c)
  PROVE  TokensWithinLimit'
<1>1. log \in Seq(Request) /\ Purged \in Seq(Request)
  BY PurgedIsTheEnd DEF Types
<1>2. Within(log) /\ (TokensWithinLimit' <=> Within(log'))
  BY DEF TokensWithinLimit, Within, Young, YoungOf
<1>3. CASE WaitForRpm(c) \/ WaitForTpm(c)
  <2>1. \/ \E r \in Request :
              /\ Tpm = 0 \/ Tokens(Purged) + r.tokens <= Tpm \/ Purged = <<>>
              /\ log' = Append(Purged, r)
        \/ log' = Purged
    BY <1>3, LimiterStep
  <2>2. Within(Purged)
    BY <1>1, <1>2, WithinPurged
  <2>3. Within(log')
    BY <1>1, <2>1, <2>2, WithinAppended
  <2> QED
    BY <1>2, <2>3
<1>4. CASE ~ (WaitForRpm(c) \/ WaitForTpm(c))
  <2>1. log' = log
    BY <1>4, OtherStep
  <2> QED
    BY <1>2, <2>1
<1> QED
  BY <1>3, <1>4

-----------------------------------------------------------------------------
(* The order of the texts.                                                 *)

(* The answer to a call brings the vectors up to its cut.                  *)
LEMMA OrderOfAnswer ==
  ASSUME Types, OrderInv, NEW c \in Callers, CallOk(c)
  PROVE  HasThoseBefore(c)'
<1>1. /\ pc[c] = "calling" /\ plan' = plan
      /\ pc'[c] = (IF call[c] = Len(plan[c].calls) THEN "done" ELSE "check")
      /\ call'[c] = call[c] + 1 /\ embedded'[c] = embedded[c] \o Batch(c)
  BY DEF CallOk, Answered, Goto, OrderInv, Types
<1>2. /\ plan[c].texts \in Seq(Nat) /\ plan[c].calls \in Seq(Seq(Nat))
      /\ call[c] \in 1 .. Len(plan[c].calls) /\ Len(plan[c].calls) \in Nat
  <2>1. pc[c] \notin Ended
    BY <1>1 DEF Ended
  <2>2. plan[c].texts \in Seq(Nat) /\ plan[c].calls \in Seq(Seq(Nat))
    BY DEF OrderInv, HasThoseBefore
  <2> QED
    BY <2>1, <2>2, BatchIsTexts
<1>3. PICK cut : /\ IsCut(cut, plan[c].calls, plan[c].texts)
                 /\ embedded[c] = SubSeq(plan[c].texts, 1, cut[call[c] - 1])
  BY DEF OrderInv, HasThoseBefore
<1> DEFINE texts == plan[c].texts
           k == call[c]
           a == cut[k - 1]
           b == cut[k]
<1>4. /\ a \in 0 .. Len(texts) /\ b \in 0 .. Len(texts) /\ a <= b /\ Len(texts) \in Nat
      /\ Batch(c) = SubSeq(texts, a + 1, b)
  <2>1. k \in 0 .. Len(plan[c].calls) /\ k - 1 \in 0 .. Len(plan[c].calls)
    BY <1>2
  <2>2. a \in 0 .. Len(texts) /\ b \in 0 .. Len(texts)
    BY <1>3, <2>1 DEF IsCut
  <2>3. a <= b /\ plan[c].calls[k] = SubSeq(texts, a + 1, b)
    BY <1>2, <1>3 DEF IsCut
  <2> QED
    BY <1>2, <2>2, <2>3 DEF Batch
<1>5. embedded'[c] = SubSeq(texts, 1, b)
  <2>1. texts \in Seq(Nat) /\ embedded'[c] = SubSeq(texts, 1, a) \o SubSeq(texts, a + 1, b)
    BY <1>1, <1>2, <1>3, <1>4
  <2> HIDE DEF texts, a, b
  <2>2. 1 \in 1 .. Len(texts) + 1 /\ a \in 1 - 1 .. Len(texts) /\ b \in a .. Len(texts)
    BY <1>4
  <2> QED
    BY <2>1, <2>2, ConcatAdjacentSubSeq
<1>6. (call[c] + 1) - 1 = k
  BY <1>2
<1>7. /\ IsCut(cut, plan'[c].calls, plan'[c].texts)
      /\ embedded'[c] = SubSeq(plan'[c].texts, 1, cut[call'[c] - 1])
  BY <1>1, <1>3, <1>5, <1>6
<1> HIDE DEF texts, k, a, b
<1>8. /\ call'[c] \in 1 .. Len(plan'[c].calls) + 1
      /\ pc'[c] \notin Ended => call'[c] <= Len(plan'[c].calls)
      /\ pc'[c] = "done" => call'[c] = Len(plan'[c].calls) + 1
  <2>1. call[c] # Len(plan[c].calls) => call[c] + 1 <= Len(plan[c].calls)
    BY <1>2
  <2> QED
    BY <1>1, <1>2, <2>1 DEF Ended
<1>9. plan'[c].texts \in Seq(Nat) /\ plan'[c].calls \in Seq(Seq(Nat))
  BY <1>1, <1>2
<1> QED
  BY <1>7, <1>8, <1>9 DEF HasThoseBefore

(* The order: a step of a caller.                                          *)
LEMMA OrderThread ==
  ASSUME Types, OrderInv, NEW c \in Callers, Thread(c)
  PROVE  OrderInv'
<1>1. c \in DOMAIN pc /\ DOMAIN pc = Callers /\ plan' = plan
  BY DEF Types, Thread, Check, WaitForRpm, WaitForTpm, PassTokens, TakeSlot, EnterPool,
     LimitThreads, CallOk, CallAgain, SieAgain, CallRaises, EndBackoff, Answered, data
<1>2. CASE CallOk(c)
  <2>1. HasThoseBefore(c)'
    BY <1>2, OrderOfAnswer
  <2>2. ASSUME NEW o \in Callers \ {c}
        PROVE  HasThoseBefore(o)'
    <3>1. pc'[o] = pc[o] /\ call'[o] = call[o] /\ embedded'[o] = embedded[o]
      BY <1>1, <1>2 DEF CallOk, Goto, OrderInv
    <3>2. HasThoseBefore(o)
      BY DEF OrderInv
    <3> QED
      BY <1>1, <3>1, <3>2 DEF HasThoseBefore
  <2>3. call' \in [Callers -> Nat]
    BY <1>2 DEF CallOk, OrderInv
  <2>4. DOMAIN embedded' = Callers /\ embedded' = [o \in Callers |-> embedded'[o]]
    BY <1>2 DEF CallOk, OrderInv
  <2> QED
    BY <2>1, <2>2, <2>3, <2>4 DEF OrderInv
<1>3. CASE ~ CallOk(c)
  <2>1. call' = call /\ embedded' = embedded
    BY <1>3 DEF Thread, Check, WaitForRpm, WaitForTpm, TakeSlot, EnterPool, LimitThreads,
       CallAgain, SieAgain, CallRaises, EndBackoff, Answered, data
  <2>2. /\ pc[c] \notin Ended
        /\ \E place \in Places \ {"done"} : pc' = [pc EXCEPT ![c] = place]
    <3>1. CASE Check(c)
      BY <3>1 DEF Check, Goto, Places, Ended
    <3>2. CASE WaitForRpm(c) \/ WaitForTpm(c)
      <4>1. pc[c] \in {"rpm", "tpm"}
        BY <3>2 DEF WaitForRpm, WaitForTpm
      <4>2. pc' = [pc EXCEPT ![c] = pc[c]] \/ \E place \in {"calling", "tpm"} : pc' = [pc EXCEPT ![c] = place]
        BY <3>2, LimiterStep DEF Types
      <4> QED
        BY <4>1, <4>2 DEF Places, Ended
    <3>3. CASE TakeSlot(c) \/ EnterPool(c) \/ LimitThreads(c) \/ EndBackoff(c)
      BY <3>3 DEF TakeSlot, EnterPool, LimitThreads, EndBackoff, Goto, Places, Ended
    <3>4. CASE CallAgain(c) \/ SieAgain(c) \/ CallRaises(c)
      BY <3>4 DEF CallAgain, SieAgain, CallRaises, Answered, Goto, Places, Ended
    <3> QED
      BY <1>3, <3>1, <3>2, <3>3, <3>4 DEF Thread
  <2>3. ASSUME NEW o \in Callers
        PROVE  HasThoseBefore(o)'
    <3>1. HasThoseBefore(o)
      BY DEF OrderInv
    <3>2. (pc'[o] \notin Ended => pc[o] \notin Ended) /\ (pc'[o] = "done" => pc[o] = "done")
      BY <1>1, <2>2
    <3> QED
      BY <1>1, <2>1, <3>1, <3>2 DEF HasThoseBefore
  <2> QED
    BY <2>1, <2>3 DEF OrderInv
<1> QED
  BY <1>2, <1>3

(* What a caller has is a beginning of its texts.                          *)
LEMMA OrderHolds ==
  ASSUME OrderInv
  PROVE  EmbeddedInOrder
<1> SUFFICES ASSUME NEW c \in Callers
             PROVE  /\ IsPrefix(embedded[c], plan[c].texts)
                    /\ pc[c] = "done" => embedded[c] = plan[c].texts
  BY DEF EmbeddedInOrder
<1> DEFINE texts == plan[c].texts
           n == Len(plan[c].calls)
           k == call[c] - 1
<1>1. PICK cut : IsCut(cut, plan[c].calls, texts) /\ embedded[c] = SubSeq(texts, 1, cut[k])
  BY DEF OrderInv, HasThoseBefore
<1>2. /\ texts \in Seq(Nat) /\ Len(texts) \in Nat /\ k \in 0 .. n /\ n \in Nat
      /\ pc[c] = "done" => k = n
  BY DEF OrderInv, HasThoseBefore
<1>3. cut[k] \in 0 .. Len(texts) /\ cut[n] = Len(texts)
  BY <1>1, <1>2 DEF IsCut
<1> HIDE DEF texts, n, k
<1>4. \A m \in 0 .. Len(texts) :
         /\ Len(SubSeq(texts, 1, m)) = m
         /\ SubSeq(SubSeq(texts, 1, m), 1, m) = SubSeq(texts, 1, m)
  BY <1>2
<1>5. IsPrefix(embedded[c], texts)
  BY <1>1, <1>3, <1>4 DEF IsPrefix
<1>6. SubSeq(texts, 1, Len(texts)) = texts
  BY <1>2
<1> QED
  BY <1>1, <1>2, <1>3, <1>5, <1>6 DEF texts

-----------------------------------------------------------------------------
(* The splitters cut a list, and lose or move nothing.                     *)

(* The groups are the first j items from cut to cut.                       *)
CutsTo(cut, calls, items, j) ==
    /\ cut \in [0 .. Len(calls) -> 0 .. j]
    /\ cut[0] = 0 /\ cut[Len(calls)] = j
    /\ \A k \in 1 .. Len(calls) :
         cut[k - 1] <= cut[k] /\ calls[k] = SubSeq(items, cut[k - 1] + 1, cut[k])

(* The next items in a group of their own.                                 *)
LEMMA OneMoreCut ==
  ASSUME NEW S, NEW items \in Seq(S), NEW calls \in Seq(Seq(S)), NEW j \in 0 .. Len(items),
         NEW i \in j .. Len(items), NEW cut, CutsTo(cut, calls, items, j)
  PROVE  \E d : CutsTo(d, Append(calls, SubSeq(items, j + 1, i)), items, i)
<1> DEFINE n == Len(calls)
           longer == Append(calls, SubSeq(items, j + 1, i))
           d == [k \in 0 .. n + 1 |-> IF k = n + 1 THEN i ELSE cut[k]]
<1>1. n \in Nat /\ j \in Nat /\ i \in Nat /\ j <= i
  OBVIOUS
<1>2. /\ SubSeq(items, j + 1, i) \in Seq(S)
      /\ longer \in Seq(Seq(S)) /\ Len(longer) = n + 1
      /\ longer[n + 1] = SubSeq(items, j + 1, i)
      /\ \A k \in 1 .. n : longer[k] = calls[k]
  OBVIOUS
<1> HIDE DEF longer
<1>3. \A k \in 0 .. n : cut[k] \in 0 .. j
  BY DEF CutsTo
<1>4. d \in [0 .. n + 1 -> 0 .. i]
  BY <1>1, <1>3
<1>5. d[0] = 0 /\ d[n + 1] = i
  BY <1>1 DEF CutsTo
<1>6. ASSUME NEW k \in 1 .. n + 1
      PROVE  d[k - 1] <= d[k] /\ longer[k] = SubSeq(items, d[k - 1] + 1, d[k])
  <2>1. CASE k = n + 1
    <3>1. d[k - 1] = j /\ d[k] = i
      BY <1>1, <2>1 DEF CutsTo
    <3> QED
      BY <1>1, <1>2, <2>1, <3>1
  <2>2. CASE k \in 1 .. n
    <3>1. d[k - 1] = cut[k - 1] /\ d[k] = cut[k]
      BY <1>1, <2>2
    <3> QED
      BY <1>2, <2>2, <3>1 DEF CutsTo
  <2>3. k = n + 1 \/ k \in 1 .. n
    BY <1>1
  <2> QED
    BY <2>1, <2>2, <2>3
<1> HIDE DEF d
<1>7. CutsTo(d, longer, items, i)
  BY <1>2, <1>4, <1>5, <1>6 DEF CutsTo
<1> QED
  BY <1>7 DEF longer

(* What a splitter's loop does with an item.                               *)
Closes(was, item) ==
    [full |-> Append(was.full, was.current), current |-> <<item>>]

Takes(was, item) == [full |-> was.full, current |-> Append(was.current, item)]

Splits(split, items) ==
    /\ split[0] = [full |-> <<>>, current |-> <<>>]
    /\ \A i \in 1 .. Len(items) : split[i] \in {Takes(split[i - 1], items[i]),
                                                Closes(split[i - 1], items[i])}

SplitUpTo(split, items, S, i) ==
    /\ split[i].full \in Seq(Seq(S))
    /\ \E j \in 0 .. i :
         /\ split[i].current = SubSeq(items, j + 1, i)
         /\ \E cut : CutsTo(cut, split[i].full, items, j)

LEMMA SplitsAll ==
  ASSUME NEW S, NEW items \in Seq(S), NEW split, Splits(split, items)
  PROVE  SplitUpTo(split, items, S, Len(items))
<1> DEFINE T == {n \in Nat : n <= Len(items) => SplitUpTo(split, items, S, n)}
<1>1. 0 \in T
  <2>1. split[0].full = <<>> /\ split[0].current = <<>>
    BY DEF Splits
  <2>2. CutsTo([k \in 0 .. 0 |-> 0], <<>>, items, 0)
    BY DEF CutsTo
  <2>3. SubSeq(items, 0 + 1, 0) = <<>> /\ <<>> \in Seq(Seq(S)) /\ 0 \in 0 .. 0
    OBVIOUS
  <2> QED
    BY <2>1, <2>2, <2>3 DEF SplitUpTo
<1>2. ASSUME NEW n \in Nat, n \in T
      PROVE  n + 1 \in T
  <2> SUFFICES ASSUME n + 1 <= Len(items) PROVE SplitUpTo(split, items, S, n + 1)
    OBVIOUS
  <2> DEFINE full == split[n].full
             current == split[n].current
             item == items[n + 1]
  <2>1. n \in 0 .. Len(items) /\ n + 1 \in 1 .. Len(items) /\ Len(items) \in Nat /\ (n + 1) - 1 = n
    OBVIOUS
  <2>2. full \in Seq(Seq(S)) /\ item \in S
    BY <1>2, <2>1 DEF SplitUpTo
  <2>3. PICK j \in 0 .. n : /\ current = SubSeq(items, j + 1, n)
                            /\ \E cut : CutsTo(cut, full, items, j)
    BY <1>2, <2>1 DEF SplitUpTo
  <2>4. PICK cut : CutsTo(cut, full, items, j)
    BY <2>3
  <2>5. split[n + 1] \in {Takes(split[n], item), Closes(split[n], item)}
    BY <2>1 DEF Splits
  <2>6. CASE split[n + 1] = Takes(split[n], item)
    <3>1. split[n + 1].full = full /\ split[n + 1].current = Append(current, item)
      BY <2>6 DEF Takes
    <3> HIDE DEF full, current
    <3>2. Append(SubSeq(items, j + 1, n), items[n + 1]) = SubSeq(items, j + 1, n + 1)
      BY <2>1
    <3>3. j \in 0 .. n + 1
      BY <2>1
    <3> QED
      BY <2>2, <2>3, <2>4, <3>1, <3>2, <3>3 DEF SplitUpTo
  <2>7. CASE split[n + 1] = Closes(split[n], item)
    <3>1. split[n + 1].full = Append(full, current) /\ split[n + 1].current = <<item>>
      BY <2>7 DEF Closes
    <3> HIDE DEF full, current
    <3>2. SubSeq(items, n + 1, n + 1) = <<item>>
      <4>1. /\ SubSeq(items, n + 1, n + 1) \in Seq(S) /\ Len(SubSeq(items, n + 1, n + 1)) = 1
            /\ SubSeq(items, n + 1, n + 1)[1] = item
        BY <2>1, <2>2
      <4>2. <<item>> \in Seq(S) /\ Len(<<item>>) = 1 /\ <<item>>[1] = item
        BY <2>2
      <4> HIDE DEF item
      <4>3. \A i \in 1 .. Len(<<item>>) : SubSeq(items, n + 1, n + 1)[i] = <<item>>[i]
        BY <4>1, <4>2
      <4> QED
        BY <4>1, <4>2, <4>3, SeqEqual
    <3>3. current \in Seq(S)
      BY <2>1, <2>3
    <3>4. j \in 0 .. Len(items) /\ n \in j .. Len(items)
      BY <2>1
    <3>5. \E d : CutsTo(d, Append(full, current), items, n)
      BY <2>2, <2>3, <2>4, <3>4, OneMoreCut
    <3> QED
      <4>1. n \in 0 .. n + 1 /\ Append(full, current) \in Seq(Seq(S))
        BY <2>1, <2>2, <3>3
      <4> QED
        BY <3>1, <3>2, <3>5, <4>1 DEF SplitUpTo
  <2> QED
    BY <2>5, <2>6, <2>7
<1> HIDE DEF T
<1>3. Len(items) \in T /\ Len(items) \in Nat
  BY <1>1, <1>2, Induction
<1> QED
  BY <1>3 DEF T

(* The last group is added when there is one.                              *)
LEMMA SplitIsCut ==
  ASSUME NEW S, NEW items \in Seq(S), NEW split, Splits(split, items), NEW calls,
         calls = IF split[Len(items)].current = <<>> THEN split[Len(items)].full
                 ELSE Append(split[Len(items)].full, split[Len(items)].current)
  PROVE  calls \in Seq(Seq(S)) /\ \E cut : IsCut(cut, calls, items)
<1> DEFINE n == Len(items)
           full == split[n].full
           current == split[n].current
<1>1. /\ full \in Seq(Seq(S)) /\ n \in Nat
      /\ \E j \in 0 .. n : /\ current = SubSeq(items, j + 1, n)
                           /\ \E cut : CutsTo(cut, full, items, j)
  BY SplitsAll DEF SplitUpTo
<1>2. PICK j \in 0 .. n : /\ current = SubSeq(items, j + 1, n)
                          /\ \E cut : CutsTo(cut, full, items, j)
  BY <1>1
<1>3. PICK cut : CutsTo(cut, full, items, j)
  BY <1>2
<1>4. calls = IF current = <<>> THEN full ELSE Append(full, current)
  OBVIOUS
<1> HIDE DEF full, current
<1>5. \A d : CutsTo(d, calls, items, n) => IsCut(d, calls, items)
  BY DEF CutsTo, IsCut
<1>6. CASE current = <<>>
  <2>1. Len(SubSeq(items, j + 1, n)) = IF j + 1 <= n THEN n - j ELSE 0
    BY <1>1
  <2>2. j \in 0 .. n /\ n \in Nat /\ Len(SubSeq(items, j + 1, n)) = 0
    <3>1. SubSeq(items, j + 1, n) = <<>>
      BY <1>2, <1>6, Zenon
    <3>2. Len(SubSeq(items, j + 1, n)) = 0
      BY <3>1
    <3> QED
      BY <1>1, <3>2
  <2>3. j = n
    BY <2>1, <2>2
  <2> QED
    BY <1>1, <1>3, <1>4, <1>5, <1>6, <2>3
<1>7. CASE current # <<>>
  <2>1. current \in Seq(S) /\ n \in j .. n
    BY <1>1, <1>2
  <2>2. \E d : CutsTo(d, Append(full, current), items, n)
    BY <1>1, <1>2, <1>3, <2>1, OneMoreCut
  <2>3. calls = Append(full, current)
    BY <1>4, <1>7
  <2>4. calls \in Seq(Seq(S))
    <3>1. full \in Seq(Seq(S)) /\ current \in Seq(S)
      BY <1>1, <2>1
    <3>2. Append(full, current) \in Seq(Seq(S))
      BY <3>1
    <3> QED
      BY <2>3, <3>2
  <2> QED
    BY <1>5, <2>2, <2>3, <2>4
<1> QED
  BY <1>6, <1>7

(* The loop has an outcome, whatever fits.                                 *)
LoopState(S) == [full : Seq(Seq(S)), current : Seq(S)]

IsLoop(f, items, S, fits) ==
    /\ f \in [0 .. Len(items) -> LoopState(S)]
    /\ f[0] = [full |-> <<>>, current |-> <<>>]
    /\ \A i \in 1 .. Len(items) :
         f[i] = IF f[i - 1].current = <<>> \/ <<f[i - 1].current, items[i]>> \in fits
                THEN Takes(f[i - 1], items[i]) ELSE Closes(f[i - 1], items[i])

LEMMA LoopRuns ==
  ASSUME NEW S, NEW items \in Seq(S), NEW fits
  PROVE  \E f : IsLoop(f, items, S, fits)
<1> DEFINE n == Len(items)
           X == LoopState(S)
           x0 == [full |-> <<>>, current |-> <<>>]
           One(was, item) == IF was.current = <<>> \/ <<was.current, item>> \in fits
                             THEN Takes(was, item) ELSE Closes(was, item)
           step == [i \in 1 .. n |-> [was \in X |-> One(was, items[i])]]
<1>1. n \in Nat /\ x0 \in X
  BY DEF LoopState
<1>2. ASSUME NEW was \in X, NEW item \in S
      PROVE  One(was, item) \in X
  <2>1. was.full \in Seq(Seq(S)) /\ was.current \in Seq(S)
    BY DEF LoopState
  <2>2. /\ Append(was.current, item) \in Seq(S) /\ <<item>> \in Seq(S)
        /\ Append(was.full, was.current) \in Seq(Seq(S))
    BY <2>1
  <2>3. Takes(was, item) \in X
    BY <2>1, <2>2 DEF LoopState, Takes
  <2>4. Closes(was, item) \in X
    BY <2>1, <2>2 DEF LoopState, Closes
  <2> QED
    BY <2>3, <2>4
<1>3. \A i \in 1 .. n : items[i] \in S
  OBVIOUS
<1> HIDE DEF X, x0, One
<1>4. step \in [1 .. n -> [X -> X]]
  BY <1>2, <1>3
<1>5. \A i \in 1 .. n : \A was \in X : step[i][was] = One(was, items[i])
  OBVIOUS
<1> HIDE DEF step
<1>6. Defined(X, x0, n, step)
  BY <1>1, <1>4, StepsDefine
<1>7. PICK f \in [0 .. n -> X] : f[0] = x0 /\ \A i \in 1 .. n : f[i] = step[i][f[i - 1]]
  BY <1>6 DEF Defined
<1>8. ASSUME NEW i \in 1 .. n
      PROVE  f[i] = One(f[i - 1], items[i])
  <2>1. i - 1 \in 0 .. n
    BY <1>1
  <2> QED
    BY <1>5, <1>7, <2>1
<1> QED
  BY <1>7, <1>8 DEF IsLoop, One, X, x0

(* Batches are the texts.                                                  *)
LEMMA BatchesAreCut ==
  ASSUME NEW texts \in Seq(Nat), NEW budget
  PROVE  Tiles(SplitIntoBatches(texts, budget), texts)
<1> DEFINE n == Len(texts)
           fits == {p \in Seq(Nat) \X Nat : TokensOf(p[1]) + p[2] <= budget}
           F(g) == [i \in 0 .. n |->
             IF i = 0 THEN [full |-> <<>>, current |-> <<>>]
             ELSE IF g[i - 1].current = <<>> \/ TokensOf(g[i - 1].current) + texts[i] <= budget
             THEN [full |-> g[i - 1].full, current |-> Append(g[i - 1].current, texts[i])]
             ELSE [full |-> Append(g[i - 1].full, g[i - 1].current), current |-> <<texts[i]>>]]
<1>1. n \in Nat /\ \A i \in 1 .. n : texts[i] \in Nat
  OBVIOUS
<1>2. PICK f : IsLoop(f, texts, Nat, fits)
  BY LoopRuns
<1>3. f = F(f)
  <2>1. f \in [0 .. n -> LoopState(Nat)] /\ f[0] = [full |-> <<>>, current |-> <<>>]
    BY <1>2 DEF IsLoop
  <2>2. ASSUME NEW i \in 1 .. n
        PROVE  f[i] = F(f)[i]
    <3>1. i - 1 \in 0 .. n /\ i \in 0 .. n /\ i # 0
      BY <1>1
    <3>2. f[i - 1].current \in Seq(Nat)
      <4>1. f[i - 1] \in LoopState(Nat)
        BY <2>1, <3>1
      <4> QED
        BY <4>1 DEF LoopState
    <3>3. <<f[i - 1].current, texts[i]>> \in fits
            <=> TokensOf(f[i - 1].current) + texts[i] <= budget
      BY <1>1, <3>2
    <3> HIDE DEF fits
    <3>4. f[i] = IF f[i - 1].current = <<>> \/ TokensOf(f[i - 1].current) + texts[i] <= budget
                 THEN Takes(f[i - 1], texts[i]) ELSE Closes(f[i - 1], texts[i])
      BY <1>2, <3>3 DEF IsLoop
    <3> QED
      BY <3>1, <3>4 DEF Takes, Closes
  <2>3. f[0] = F(f)[0]
    BY <1>1, <2>1
  <2>4. \A i \in 0 .. n : i = 0 \/ i \in 1 .. n
    BY <1>1
  <2>5. \A i \in 0 .. n : f[i] = F(f)[i]
    BY <2>2, <2>3, <2>4
  <2>6. f = [i \in 0 .. n |-> f[i]] /\ F(f) = [i \in 0 .. n |-> F(f)[i]]
    BY <2>1
  <2> HIDE DEF F
  <2> QED
    BY <2>5, <2>6
<1> DEFINE g == CHOOSE g : g = F(g)
<1>4. g = F(g)
  BY <1>3
<1>5. SplitIntoBatches(texts, budget)
        = IF g[n].current = <<>> THEN g[n].full ELSE Append(g[n].full, g[n].current)
  BY DEF SplitIntoBatches, SplitInto
<1> HIDE DEF g
<1>6. Splits(g, texts)
  <2>1. g[0] = [full |-> <<>>, current |-> <<>>]
    BY <1>1, <1>4
  <2>2. ASSUME NEW i \in 1 .. n
        PROVE  g[i] \in {Takes(g[i - 1], texts[i]), Closes(g[i - 1], texts[i])}
    <3>1. i \in 0 .. n /\ i # 0
      BY <1>1
    <3>2. g[i] = IF g[i - 1].current = <<>> \/ TokensOf(g[i - 1].current) + texts[i] <= budget
                 THEN Takes(g[i - 1], texts[i]) ELSE Closes(g[i - 1], texts[i])
      BY <1>4, <3>1 DEF Takes, Closes
    <3> QED
      BY <3>2
  <2> QED
    BY <2>1, <2>2 DEF Splits
<1> QED
  BY <1>5, <1>6, SplitIsCut DEF Tiles

(* Requests of voyage-context-3 are the segments.                          *)
LEMMA RequestsAreCut ==
  ASSUME NEW segments \in Seq(Seq(Nat)), NEW cap, NEW most
  PROVE  /\ SplitContextRequests(segments, cap, most) \in Seq(Seq(Seq(Nat)))
         /\ \E cut : IsCut(cut, SplitContextRequests(segments, cap, most), segments)
<1> DEFINE n == Len(segments)
           Fit(request, segment) == /\ TokensOf(FlattenSeq(request)) + TokensOf(segment) <= cap
                                    /\ Len(request) < most
           fits == {p \in Seq(Seq(Nat)) \X Seq(Nat) : Fit(p[1], p[2])}
           F(g) == [i \in 0 .. n |->
             IF i = 0 THEN [full |-> <<>>, current |-> <<>>]
             ELSE IF g[i - 1].current = <<>> \/ Fit(g[i - 1].current, segments[i])
             THEN [full |-> g[i - 1].full, current |-> Append(g[i - 1].current, segments[i])]
             ELSE [full |-> Append(g[i - 1].full, g[i - 1].current), current |-> <<segments[i]>>]]
<1>1. n \in Nat /\ \A i \in 1 .. n : segments[i] \in Seq(Nat)
  OBVIOUS
<1>2. PICK f : IsLoop(f, segments, Seq(Nat), fits)
  BY LoopRuns
<1>3. f = F(f)
  <2>1. f \in [0 .. n -> LoopState(Seq(Nat))] /\ f[0] = [full |-> <<>>, current |-> <<>>]
    BY <1>2 DEF IsLoop
  <2>2. ASSUME NEW i \in 1 .. n
        PROVE  f[i] = F(f)[i]
    <3>1. i - 1 \in 0 .. n /\ i \in 0 .. n /\ i # 0
      BY <1>1
    <3>2. f[i - 1].current \in Seq(Seq(Nat))
      <4>1. f[i - 1] \in LoopState(Seq(Nat))
        BY <2>1, <3>1
      <4> QED
        BY <4>1 DEF LoopState
    <3>3. <<f[i - 1].current, segments[i]>> \in fits
            <=> Fit(f[i - 1].current, segments[i])
      BY <1>1, <3>2
    <3> HIDE DEF fits, Fit
    <3>4. f[i] = IF f[i - 1].current = <<>> \/ Fit(f[i - 1].current, segments[i])
                 THEN Takes(f[i - 1], segments[i]) ELSE Closes(f[i - 1], segments[i])
      BY <1>2, <3>3 DEF IsLoop
    <3> QED
      BY <3>1, <3>4 DEF Takes, Closes
  <2>3. f[0] = F(f)[0]
    BY <1>1, <2>1
  <2>4. \A i \in 0 .. n : i = 0 \/ i \in 1 .. n
    BY <1>1
  <2>5. \A i \in 0 .. n : f[i] = F(f)[i]
    BY <2>2, <2>3, <2>4
  <2>6. f = [i \in 0 .. n |-> f[i]] /\ F(f) = [i \in 0 .. n |-> F(f)[i]]
    BY <2>1
  <2> HIDE DEF F
  <2> QED
    BY <2>5, <2>6
<1> DEFINE g == CHOOSE g : g = F(g)
<1>4. g = F(g)
  BY <1>3
<1>5. SplitContextRequests(segments, cap, most)
        = IF g[n].current = <<>> THEN g[n].full ELSE Append(g[n].full, g[n].current)
  BY DEF SplitContextRequests, SplitInto
<1> HIDE DEF g
<1>6. Splits(g, segments)
  <2>1. g[0] = [full |-> <<>>, current |-> <<>>]
    BY <1>1, <1>4
  <2>2. ASSUME NEW i \in 1 .. n
        PROVE  g[i] \in {Takes(g[i - 1], segments[i]), Closes(g[i - 1], segments[i])}
    <3>1. i \in 0 .. n /\ i # 0
      BY <1>1
    <3>2. g[i] = IF g[i - 1].current = <<>> \/ Fit(g[i - 1].current, segments[i])
                 THEN Takes(g[i - 1], segments[i]) ELSE Closes(g[i - 1], segments[i])
      BY <1>4, <3>1 DEF Takes, Closes
    <3> QED
      BY <3>2
  <2> QED
    BY <2>1, <2>2 DEF Splits
<1> QED
  BY <1>5, <1>6, SplitIsCut

(* Cuts move forward.                                                      *)
LEMMA CutsAscend ==
  ASSUME NEW calls, NEW texts, NEW cut, IsCut(cut, calls, texts), Len(calls) \in Nat,
         Len(texts) \in Nat, NEW a \in 0 .. Len(calls), NEW b \in a .. Len(calls)
  PROVE  cut[a] <= cut[b]
<1> DEFINE T == {i \in Nat : a + i <= Len(calls) => cut[a] <= cut[a + i]}
<1>1. \A k \in 0 .. Len(calls) : cut[k] \in Nat
  <2>1. \A x \in 0 .. Len(texts) : x \in Nat
    OBVIOUS
  <2>2. \A k \in 0 .. Len(calls) : cut[k] \in 0 .. Len(texts)
    BY DEF IsCut
  <2> QED
    BY <2>1, <2>2, Zenon
<1>2. 0 \in T
  BY <1>1
<1>3. ASSUME NEW i \in Nat, i \in T
      PROVE  i + 1 \in T
  <2> SUFFICES ASSUME a + (i + 1) <= Len(calls) PROVE cut[a] <= cut[a + (i + 1)]
    OBVIOUS
  <2> DEFINE x == cut[a]
             y == cut[a + i]
             z == cut[a + (i + 1)]
  <2>1. /\ a + (i + 1) \in 1 .. Len(calls) /\ a + (i + 1) \in 0 .. Len(calls)
        /\ a + i \in 0 .. Len(calls) /\ a + i <= Len(calls) /\ (a + (i + 1)) - 1 = a + i
    OBVIOUS
  <2>2. x <= y
    BY <1>3, <2>1
  <2>3. cut[(a + (i + 1)) - 1] <= z
    BY <2>1 DEF IsCut
  <2>4. y <= z
    BY <2>1, <2>3, Zenon
  <2>5. x \in Nat /\ y \in Nat /\ z \in Nat
    BY <1>1, <2>1
  <2> HIDE DEF x, y, z
  <2>6. x <= z
    BY <2>2, <2>4, <2>5
  <2> QED
    BY <2>6 DEF x, z
<1> HIDE DEF T
<1>4. b - a \in T
  <2>1. \A i \in Nat : i \in T
    BY <1>2, <1>3, Induction
  <2> QED
    BY <2>1
<1>5. a + (b - a) = b
  OBVIOUS
<1> QED
  BY <1>4, <1>5 DEF T

(* A stretch of groups, flattened, is the stretch of items they came from. *)
LEMMA FlattenedStretch ==
  ASSUME NEW texts \in Seq(Nat), NEW segments \in Seq(Seq(Nat)), NEW cut,
         IsCut(cut, segments, texts),
         NEW a \in 0 .. Len(segments), NEW b \in a .. Len(segments)
  PROVE  FlattenSeq(SubSeq(segments, a + 1, b)) = SubSeq(texts, cut[a] + 1, cut[b])
<1> DEFINE m == b - a
           seqs == SubSeq(segments, a + 1, b)
           f == [i \in 1 .. m |-> SubSeq(texts, cut[a] + 1, cut[a + i])]
           F(g) == [i \in 1 .. m |-> IF i = 1 THEN seqs[i] ELSE g[i - 1] \o seqs[i]]
<1>1. /\ m \in Nat /\ Len(segments) \in Nat /\ a \in Nat /\ a + m = b /\ b <= Len(segments)
      /\ Len(texts) \in Nat
      /\ Len(seqs) = m /\ seqs \in Seq(Seq(Nat)) /\ \A i \in 1 .. m : seqs[i] = segments[a + i]
  OBVIOUS
<1> HIDE DEF seqs, m
<1>2. \A k \in 0 .. Len(segments) : cut[k] \in 0 .. Len(texts)
  BY DEF IsCut
<1>3. ASSUME NEW i \in 1 .. m
      PROVE  /\ a + i \in 1 .. Len(segments)
             /\ cut[(a + i) - 1] \in 0 .. Len(texts) /\ cut[a + i] \in 0 .. Len(texts)
             /\ cut[(a + i) - 1] <= cut[a + i]
             /\ seqs[i] = SubSeq(texts, cut[(a + i) - 1] + 1, cut[a + i])
  <2>1. a + i \in 1 .. Len(segments) /\ (a + i) - 1 \in 0 .. Len(segments)
        /\ a + i \in 0 .. Len(segments)
    BY <1>1
  <2> QED
    BY <1>1, <1>2, <2>1 DEF IsCut
<1>4. ASSUME NEW i \in Nat, i <= m
      PROVE  cut[a] <= cut[a + i]
  <2>1. a + i \in a .. Len(segments)
    BY <1>1, <1>4
  <2> QED
    BY <1>1, <2>1, CutsAscend
<1>5. CASE m = 0
  <2>1. seqs = <<>> /\ a = b
    BY <1>1, <1>5
  <2>2. FlattenSeq(seqs) = <<>>
    BY <2>1 DEF FlattenSeq
  <2>3. SubSeq(texts, cut[b] + 1, cut[b]) = <<>>
    BY <1>1, <1>2
  <2> QED
    BY <2>1, <2>2, <2>3 DEF seqs
<1>6. CASE m # 0
  <2>1. ASSUME NEW i \in 1 .. m
        PROVE  f[i] = F(f)[i]
    <3>1. CASE i = 1
      <4>1. (a + i) - 1 = a
        BY <1>1, <3>1
      <4> QED
        BY <1>3, <3>1, <4>1
    <3>2. CASE i # 1
      <4> DEFINE x == cut[a]
                 y == cut[a + (i - 1)]
                 z == cut[a + i]
      <4>1. i - 1 \in 1 .. m /\ (a + i) - 1 = a + (i - 1) /\ i - 1 \in Nat /\ i - 1 <= m
        BY <1>1, <3>2
      <4>2. x <= y
        BY <1>4, <4>1
      <4>3. y <= z /\ y \in 0 .. Len(texts) /\ z \in 0 .. Len(texts)
        BY <1>3, <4>1
      <4>4. x \in 0 .. Len(texts)
        BY <1>1, <1>2
      <4>5. seqs[i] = SubSeq(texts, y + 1, z)
        BY <1>3, <4>1
      <4>6. f[i - 1] = SubSeq(texts, x + 1, y) /\ f[i] = SubSeq(texts, x + 1, z)
        BY <4>1
      <4> HIDE DEF x, y, z, f
      <4>7. x + 1 \in 1 .. Len(texts) + 1 /\ y \in (x + 1) - 1 .. Len(texts) /\ z \in y .. Len(texts)
        BY <1>1, <4>2, <4>3, <4>4
      <4>8. SubSeq(texts, x + 1, y) \o SubSeq(texts, y + 1, z) = SubSeq(texts, x + 1, z)
        BY <4>7, ConcatAdjacentSubSeq
      <4>9. f[i] = f[i - 1] \o seqs[i]
        BY <4>5, <4>6, <4>8
      <4> QED
        BY <3>2, <4>9
    <3> QED
      BY <3>1, <3>2
  <2>2. f = F(f)
    <3>1. f = [i \in 1 .. m |-> f[i]]
      BY Zenon
    <3>2. F(f) = [i \in 1 .. m |-> F(f)[i]]
      <4> HIDE DEF f
      <4> QED
        OBVIOUS
    <3> HIDE DEF f, F
    <3> QED
      BY <2>1, <3>1, <3>2
  <2> DEFINE g == CHOOSE g : g = F(g)
  <2>3. g = F(g)
    BY <2>2
  <2>4. FlattenSeq(seqs) = g[m]
    BY <1>1, <1>6 DEF FlattenSeq
  <2> HIDE DEF g, f
  <2>5. \A i \in 1 .. m : i # 1 => g[i] = g[i - 1] \o seqs[i]
    BY <2>3
  <2>6. \A i \in 1 .. m : i # 1 => f[i] = f[i - 1] \o seqs[i]
    BY <2>2
  <2>7. 1 \in 1 .. m => g[1] = seqs[1] /\ f[1] = seqs[1]
    BY <2>2, <2>3
  <2> DEFINE T == {i \in Nat : i \in 1 .. m => g[i] = f[i]}
  <2>8. 0 \in T
    OBVIOUS
  <2>9. ASSUME NEW i \in Nat, i \in T
        PROVE  i + 1 \in T
    <3>1. CASE i = 0
      BY <2>7, <3>1
    <3>2. CASE i # 0
      <4> SUFFICES ASSUME i + 1 \in 1 .. m PROVE g[i + 1] = f[i + 1]
        OBVIOUS
      <4>1. i \in 1 .. m /\ i + 1 # 1 /\ (i + 1) - 1 = i
        BY <1>1, <3>2
      <4>2. g[i] = f[i]
        BY <2>9, <4>1
      <4>3. /\ g[i + 1] = g[(i + 1) - 1] \o seqs[i + 1]
            /\ f[i + 1] = f[(i + 1) - 1] \o seqs[i + 1]
        BY <2>5, <2>6, <4>1
      <4> QED
        BY <4>1, <4>2, <4>3
    <3> QED
      BY <3>1, <3>2
  <2> HIDE DEF T
  <2>10. m \in T
    BY <1>1, <2>8, <2>9, Induction
  <2>11. m \in 1 .. m
    BY <1>1, <1>6
  <2>12. g[m] = f[m]
    BY <2>10, <2>11 DEF T
  <2> QED
    BY <1>1, <2>4, <2>11, <2>12 DEF f, seqs
<1> QED
  BY <1>5, <1>6

(* The calls of voyage-context-3.                                          *)
LEMMA ContextCallsTile ==
  ASSUME NEW texts \in Seq(Nat)
  PROVE  Tiles(ContextCalls(texts), texts)
<1> DEFINE segments == SplitContextSegments(texts, SegmentBudget)
           requests == SplitContextRequests(segments, RequestCap, MaxInputs)
           calls == [k \in DOMAIN requests |-> FlattenSeq(requests[k])]
<1>1. ContextCalls(texts) = calls
  BY DEF ContextCalls
<1>2. Tiles(segments, texts)
  BY BatchesAreCut DEF SplitContextSegments
<1>3. segments \in Seq(Seq(Nat))
  BY <1>2 DEF Tiles
<1>4. PICK inner : IsCut(inner, segments, texts)
  BY <1>2 DEF Tiles
<1>5. requests \in Seq(Seq(Seq(Nat))) /\ \E cut : IsCut(cut, requests, segments)
  BY <1>3, RequestsAreCut
<1>6. PICK outer : IsCut(outer, requests, segments)
  BY <1>5
<1> HIDE DEF segments, requests
<1> DEFINE m == Len(requests)
           cut == [k \in 0 .. m |-> inner[outer[k]]]
<1>7. m \in Nat /\ DOMAIN requests = 1 .. m /\ Len(segments) \in Nat /\ Len(texts) \in Nat
  BY <1>3, <1>5
<1>8. \A k \in 0 .. m : outer[k] \in 0 .. Len(segments)
  BY <1>6 DEF IsCut
<1>9. \A k \in 0 .. m : cut[k] = inner[outer[k]] /\ cut[k] \in 0 .. Len(texts)
  BY <1>4, <1>8 DEF IsCut
<1>10. ASSUME NEW k \in 1 .. m
       PROVE  cut[k - 1] <= cut[k] /\ calls[k] = SubSeq(texts, cut[k - 1] + 1, cut[k])
  <2> DEFINE a == outer[k - 1]
             b == outer[k]
  <2>1. k - 1 \in 0 .. m /\ k \in 0 .. m
    BY <1>7
  <2>2. a \in 0 .. Len(segments) /\ b \in 0 .. Len(segments) /\ a <= b
    BY <1>6, <1>8, <2>1 DEF IsCut
  <2>3. requests[k] = SubSeq(segments, a + 1, b)
    BY <1>6 DEF IsCut
  <2>4. cut[k - 1] = inner[a] /\ cut[k] = inner[b]
    BY <2>1
  <2> HIDE DEF a, b, cut
  <2>5. b \in a .. Len(segments)
    BY <1>7, <2>2
  <2>6. inner[a] <= inner[b]
    BY <1>4, <1>7, <2>2, <2>5, CutsAscend
  <2>7. FlattenSeq(requests[k]) = SubSeq(texts, inner[a] + 1, inner[b])
    BY <1>3, <1>4, <2>2, <2>3, <2>5, FlattenedStretch
  <2>8. calls[k] = FlattenSeq(requests[k])
    BY <1>7
  <2> QED
    BY <2>4, <2>6, <2>7, <2>8
<1>11. cut[0] = 0 /\ cut[m] = Len(texts)
  <2>1. outer[0] = 0 /\ outer[m] = Len(segments) /\ inner[0] = 0 /\ inner[Len(segments)] = Len(texts)
    BY <1>4, <1>6 DEF IsCut
  <2> QED
    BY <1>7, <2>1
<1>12. cut \in [0 .. m -> 0 .. Len(texts)]
  BY <1>9
<1> HIDE DEF cut
<1>13. \A k \in 1 .. m : calls[k] \in Seq(Nat)
  <2>1. \A x, y \in 0 .. Len(texts) : SubSeq(texts, x + 1, y) \in Seq(Nat)
    BY <1>7
  <2> SUFFICES ASSUME NEW k \in 1 .. m PROVE calls[k] \in Seq(Nat)
    OBVIOUS
  <2>2. k - 1 \in 0 .. m /\ k \in 0 .. m
    BY <1>7
  <2>3. cut[k - 1] \in 0 .. Len(texts) /\ cut[k] \in 0 .. Len(texts)
    BY <1>12, <2>2
  <2> HIDE DEF calls
  <2> QED
    BY <1>10, <2>1, <2>3
<1>14. calls \in Seq(Seq(Nat)) /\ Len(calls) = m
  <2>1. calls = [k \in 1 .. m |-> calls[k]]
    BY <1>7
  <2> HIDE DEF calls
  <2>2. calls \in [1 .. m -> Seq(Nat)]
    BY <1>13, <2>1
  <2> QED
    BY <1>7, <2>2
<1>15. IsCut(cut, calls, texts)
  BY <1>10, <1>11, <1>12, <1>14 DEF IsCut
<1> QED
  BY <1>1, <1>14, <1>15 DEF Tiles

(* The slices of SIE.                                                      *)
LEMMA SlicesTile ==
  ASSUME NEW texts \in Seq(Nat), NEW size \in Nat \ {0}
  PROVE  Tiles(SliceInto(texts, size), texts)
<1> DEFINE n == Len(texts)
           m == (n + size - 1) \div size
           End(k) == IF k * size < n THEN k * size ELSE n
           calls == SliceInto(texts, size)
           cut == [k \in 0 .. m |-> End(k)]
<1>1. n \in Nat /\ m \in Nat /\ m * size <= n + size - 1 /\ n + size - 1 < (m + 1) * size
  OBVIOUS
<1>2. calls = [k \in 1 .. m |-> SubSeq(texts, (k - 1) * size + 1, End(k))]
  BY DEF SliceInto
<1> HIDE DEF calls
<1>3. n <= m * size
  BY <1>1
<1> HIDE DEF m
<1>4. \A k \in 0 .. m : k * size \in Nat
  BY <1>1
<1>5. ASSUME NEW k \in 1 .. m
      PROVE  (k - 1) * size < n /\ (k - 1) * size \in Nat /\ (k - 1) * size <= k * size
  <2>1. (k - 1) * size <= (m - 1) * size
    BY <1>1
  <2>2. (m - 1) * size = m * size - size
    BY <1>1
  <2>3. (k - 1) * size = k * size - size /\ k * size \in Nat /\ m * size \in Nat
    BY <1>1
  <2>4. (k - 1) * size \in Nat
    BY <1>1
  <2> DEFINE x == (k - 1) * size
             y == k * size
             z == m * size
  <2>5. x <= z - size /\ x = y - size /\ z <= n + size - 1
    BY <1>1, <2>1, <2>2, <2>3
  <2>6. x \in Nat /\ y \in Nat /\ z \in Nat
    BY <2>3, <2>4
  <2> HIDE DEF x, y, z
  <2>7. x < n /\ x \in Nat /\ x <= y
    BY <1>1, <2>5, <2>6
  <2> QED
    BY <2>7 DEF x, y
<1>6. \A k \in 0 .. m : End(k) \in 0 .. n
  BY <1>1, <1>4
<1>7. cut \in [0 .. m -> 0 .. n]
  BY <1>6
<1>8. cut[0] = 0 /\ cut[m] = n
  <2>1. End(0) = 0 /\ End(m) = n
    BY <1>1, <1>3
  <2> QED
    BY <1>1, <2>1
<1>9. ASSUME NEW k \in 1 .. m
      PROVE  /\ cut[k - 1] <= cut[k] /\ calls[k] = SubSeq(texts, cut[k - 1] + 1, cut[k])
             /\ calls[k] \in Seq(Nat)
  <2>1. k - 1 \in 0 .. m /\ k \in 0 .. m
    BY <1>1
  <2>2. End(k - 1) = (k - 1) * size /\ End(k - 1) <= End(k)
    BY <1>1, <1>5, <1>4
  <2>3. End(k - 1) \in 0 .. n /\ End(k) \in 0 .. n
    BY <1>6, <2>1
  <2>4. cut[k - 1] = End(k - 1) /\ cut[k] = End(k)
    BY <2>1
  <2>5. calls[k] = SubSeq(texts, (k - 1) * size + 1, End(k))
    BY <1>2
  <2> HIDE DEF End, cut
  <2>6. SubSeq(texts, End(k - 1) + 1, End(k)) \in Seq(Nat)
    BY <1>1, <2>3
  <2> QED
    BY <2>2, <2>4, <2>5, <2>6
<1> HIDE DEF cut
<1>10. calls \in Seq(Seq(Nat)) /\ Len(calls) = m
  <2>1. calls \in [1 .. m -> Seq(Nat)]
    BY <1>2, <1>9
  <2> QED
    BY <1>1, <2>1
<1>11. IsCut(cut, calls, texts)
  BY <1>7, <1>8, <1>9, <1>10 DEF IsCut
<1> QED
  BY <1>10, <1>11 DEF Tiles, calls

(* Whatever is embedded, the calls are its texts, and there is one.        *)
LEMMA CallsTile ==
  ASSUME NEW kind, NEW texts \in Seq(Nat)
  PROVE  Tiles(CallsFor(kind, texts), texts)
<1>1. CASE kind = "voyage"
  <2>1. CallsFor(kind, texts) = SplitIntoBatches(texts, Budget)
    BY <1>1 DEF CallsFor
  <2> QED
    BY <2>1, BatchesAreCut
<1>2. CASE kind = "context"
  <2>1. CallsFor(kind, texts) = ContextCalls(texts)
    BY <1>2 DEF CallsFor
  <2> QED
    BY <2>1, ContextCallsTile
<1>3. CASE kind = "sie"
  <2>1. CallsFor(kind, texts) = SliceInto(texts, SieBatch)
    BY <1>3 DEF CallsFor
  <2> QED
    BY <2>1, SlicesTile, LimitsAssumption
<1>4. CASE kind \notin {"voyage", "context", "sie"}
  <2>1. CallsFor(kind, texts) = <<texts>>
    BY <1>4 DEF CallsFor
  <2> DEFINE cut == [k \in 0 .. 1 |-> IF k = 0 THEN 0 ELSE Len(texts)]
  <2>2. /\ <<texts>> \in Seq(Seq(Nat)) /\ Len(<<texts>>) = 1 /\ <<texts>>[1] = texts
        /\ Len(texts) \in Nat /\ SubSeq(texts, 0 + 1, Len(texts)) = texts
    OBVIOUS
  <2>3. cut \in [0 .. 1 -> 0 .. Len(texts)] /\ cut[0] = 0 /\ cut[1] = Len(texts)
    BY <2>2
  <2> HIDE DEF cut
  <2>4. IsCut(cut, <<texts>>, texts)
    BY <2>2, <2>3 DEF IsCut
  <2> QED
    BY <2>1, <2>2, <2>4 DEF Tiles
<1> QED
  BY <1>1, <1>2, <1>3, <1>4

-----------------------------------------------------------------------------
(* The invariant holds.                                                    *)

(* What a caller starts with.                                              *)
LEMMA OrderInit ==
  ASSUME Init
  PROVE  OrderInv
<1>1. PICK work \in [Callers -> Workloads] :
         /\ plan = [c \in Callers |-> [kind  |-> work[c].kind,
                                       texts |-> work[c].texts,
                                       calls |-> CallsFor(work[c].kind, work[c].texts)]]
         /\ pc = [c \in Callers |-> IF TooLarge(work[c]) THEN "raised" ELSE "check"]
  BY DEF Init
<1>2. ASSUME NEW c \in Callers
      PROVE  HasThoseBefore(c)
  <2> DEFINE texts == work[c].texts
             calls == CallsFor(work[c].kind, texts)
  <2>1. texts \in Seq(Nat \ {0}) /\ texts # <<>>
    BY WorkloadsAssumption
  <2>2. plan[c].texts = texts /\ plan[c].calls = calls /\ pc[c] \in {"raised", "check"}
    BY <1>1
  <2>3. call[c] = 1 /\ embedded[c] = <<>>
    BY DEF Init
  <2> HIDE DEF texts
  <2>4. texts \in Seq(Nat) /\ Len(texts) \in Nat /\ Len(texts) > 0
    BY <2>1
  <2>5. Tiles(calls, texts)
    BY <2>4, CallsTile
  <2> HIDE DEF calls
  <2>6. calls \in Seq(Seq(Nat)) /\ Len(calls) \in Nat
    BY <2>5 DEF Tiles
  <2>7. PICK cut : IsCut(cut, calls, texts)
    BY <2>5 DEF Tiles
  <2>8. cut[0] = 0 /\ cut[Len(calls)] = Len(texts)
    BY <2>7 DEF IsCut
  <2>9. Len(calls) # 0
    BY <2>4, <2>8
  <2>10. embedded[c] = SubSeq(texts, 1, cut[call[c] - 1])
    <3>1. call[c] - 1 = 0 /\ SubSeq(texts, 1, 0) = <<>>
      BY <2>3, <2>4
    <3> QED
      BY <2>3, <2>8, <3>1
  <2>11. /\ plan[c].texts \in Seq(Nat) /\ plan[c].calls \in Seq(Seq(Nat))
         /\ call[c] \in 1 .. Len(plan[c].calls) + 1 /\ call[c] <= Len(plan[c].calls)
         /\ pc[c] # "done"
    BY <2>2, <2>3, <2>4, <2>6, <2>9
  <2>12. IsCut(cut, plan[c].calls, plan[c].texts)
         /\ embedded[c] = SubSeq(plan[c].texts, 1, cut[call[c] - 1])
    BY <2>2, <2>7, <2>10
  <2> QED
    BY <2>11, <2>12 DEF HasThoseBefore
<1>3. call \in [Callers -> Nat] /\ DOMAIN embedded = Callers
      /\ embedded = [c \in Callers |-> embedded[c]]
  BY DEF Init
<1> QED
  BY <1>2, <1>3 DEF OrderInv

LEMMA InvInit == Init => Inv
<1> SUFFICES ASSUME Init PROVE Inv
  OBVIOUS
<1>1. Types
  <2>1. pc \in [Callers -> Places]
    BY DEF Init, Places
  <2>2. attempt \in [Callers -> Nat] /\ after \in [Callers -> Nat] /\ cancelled \in BOOLEAN
    BY DEF Init
  <2>3. log \in Seq(Request)
    BY DEF Init
  <2> QED
    BY <2>1, <2>2, <2>3 DEF Types
<1>2. StopInv
  BY LimitsAssumption DEF Init, StopInv
<1>3. ThreadInv
  <2>1. \A c \in Callers : pc[c] # "limit"
    BY DEF Init
  <2> QED
    BY <2>1 DEF Init, ThreadInv
<1>4. log = <<>> /\ \A c \in Callers : pc[c] # "tpm"
  BY DEF Init
<1>5. Young = {} /\ Sleepers = {}
  BY <1>4 DEF Young, Sleepers
<1>6. RequestsInv
  <2>1. Cardinality(Young) = 0 /\ Cardinality(Sleepers) = 0
    BY <1>5, FS_EmptySet, Zenon
  <2> QED
    BY <2>1, SleepersAreCallers, LimitsAssumption DEF RequestsInv
<1>7. TokensWithinLimit
  BY <1>5 DEF TokensWithinLimit
<1> QED
  BY <1>1, <1>2, <1>3, <1>6, <1>7, OrderInit DEF Inv

(* Time only takes requests out of the window.                             *)
LEMMA TickStep ==
  ASSUME Inv, Tick
  PROVE  Inv'
<1>1. UNCHANGED <<plan, embedded, pc, call, attempt, torch, previous, cancelled, after>>
  BY DEF Tick, data, torchVars
<1>2. log \in Seq(Request) /\ Window \in Nat /\ Tpm \in Nat /\ Rpm \in Nat
  BY LimitsAssumption DEF Inv, Types
<1>3. /\ log' \in Seq(Request) /\ Len(log') = Len(log)
      /\ \A i \in 1 .. Len(log) : /\ log'[i].tokens = log[i].tokens
                                  /\ log'[i].age <= Window => log[i].age <= Window
  <2>1. log' = [i \in 1 .. Len(log) |-> [log[i] EXCEPT !.age = Older(@)]]
    BY <1>2 DEF Tick
  <2>2. \A i \in 1 .. Len(log) : log[i] \in Request
    BY <1>2
  <2>3. ASSUME NEW r \in Request
        PROVE  /\ [r EXCEPT !.age = Older(@)] \in Request
               /\ [r EXCEPT !.age = Older(@)].tokens = r.tokens
               /\ [r EXCEPT !.age = Older(@)].age <= Window => r.age <= Window
    BY <1>2 DEF Request, Older
  <2>4. \A i \in 1 .. Len(log) : log'[i] = [log[i] EXCEPT !.age = Older(@)]
    BY <2>1
  <2>5. \A i \in 1 .. Len(log) : log'[i] \in Request
    BY <2>2, <2>3, <2>4
  <2>6. log' \in [1 .. Len(log) -> Request] /\ Len(log) \in Nat
    BY <1>2, <2>1, <2>2, <2>3
  <2>7. log' \in Seq(Request) /\ Len(log') = Len(log)
    BY <2>6
  <2>8. \A i \in 1 .. Len(log) : /\ log'[i].tokens = log[i].tokens
                                 /\ log'[i].age <= Window => log[i].age <= Window
    BY <2>2, <2>3, <2>4
  <2> QED
    BY <2>7, <2>8
<1>4. Young' \subseteq Young
  BY <1>2, <1>3 DEF Young
<1>5. Types' /\ StopInv' /\ ThreadInv' /\ OrderInv'
  <2>1. Types'
    BY <1>1, <1>3 DEF Inv, Types
  <2>2. StopInv' /\ ThreadInv'
    BY <1>1 DEF Inv, StopInv, ThreadInv
  <2>3. OrderInv'
    BY <1>1 DEF Inv, OrderInv, HasThoseBefore
  <2> QED
    BY <2>1, <2>2, <2>3
<1>6. RequestsInv'
  <2>1. Young = YoungOf(log) /\ Young' = YoungOf(log')
    BY DEF Young, YoungOf
  <2>2. /\ IsFiniteSet(Young) /\ Cardinality(Young) \in Nat /\ Cardinality(Young') \in Nat
        /\ Cardinality(Young') <= Cardinality(Young)
    BY <1>2, <1>3, <1>4, <2>1, YoungIsFinite, FS_Subset
  <2>3. Sleepers' = Sleepers
    BY <1>1 DEF Sleepers
  <2> QED
    BY <1>2, <2>2, <2>3, SleepersAreCallers DEF Inv, RequestsInv
<1>7. TokensWithinLimit'
  <2>1. TokenSeq(log') = TokenSeq(log)
    BY <1>2, <1>3 DEF TokenSeq
  <2> SUFFICES ASSUME Tpm > 0, NEW i \in Young', i # Len(log')
               PROVE  Tokens(SubSeq(log', i, Len(log'))) <= Tpm
    BY DEF TokensWithinLimit
  <2>2. i \in Young /\ i # Len(log) /\ i \in 1 .. Len(log)
    BY <1>2, <1>3, <1>4 DEF Young
  <2>3. Tokens(SubSeq(log, i, Len(log))) <= Tpm
    BY <2>2 DEF Inv, TokensWithinLimit
  <2>4. ASSUME NEW requests \in Seq(Request), Len(requests) = Len(log)
        PROVE  Tokens(SubSeq(requests, i, Len(requests)))
                 = TokensOf(SubSeq(TokenSeq(requests), i, Len(requests)))
    <3>1. SubSeq(requests, i, Len(requests)) \in Seq(Request) /\ i \in 1 .. Len(requests)
      BY <2>2, <2>4
    <3>2. TokenSeq(SubSeq(requests, i, Len(requests)))
            = SubSeq(TokenSeq(requests), i, Len(requests))
      BY <3>1, TokenSeqs
    <3> QED
      BY <3>1, <3>2, TokenSeqs
  <2>5. /\ Tokens(SubSeq(log, i, Len(log))) = TokensOf(SubSeq(TokenSeq(log), i, Len(log)))
        /\ Tokens(SubSeq(log', i, Len(log'))) = TokensOf(SubSeq(TokenSeq(log'), i, Len(log')))
    BY <1>2, <1>3, <2>4
  <2> QED
    BY <1>3, <2>1, <2>3, <2>5
<1> QED
  BY <1>5, <1>6, <1>7 DEF Inv

(* A cancel finds no call since the cancel.                                *)
LEMMA CancelStep ==
  ASSUME Inv, Cancel
  PROVE  Inv'
<1>1. /\ ~cancelled /\ cancelled' = TRUE
      /\ UNCHANGED <<plan, embedded, pc, call, attempt, log, torch, previous, after>>
  BY DEF Cancel, data, torchVars
<1>2. Types' /\ OrderInv' /\ ThreadInv'
  <2>1. Types'
    BY <1>1 DEF Inv, Types
  <2>2. OrderInv'
    BY <1>1 DEF Inv, OrderInv, HasThoseBefore
  <2>3. ThreadInv'
    BY <1>1 DEF Inv, ThreadInv
  <2> QED
    BY <2>1, <2>2, <2>3
<1>3. StopInv'
  <2>1. \A c \in Callers : after[c] = 0 /\ attempt[c] \in Nat
    BY <1>1 DEF Inv, StopInv, Types
  <2> QED
    BY <1>1, <2>1, LimitsAssumption DEF Inv, StopInv
<1>4. RequestsInv' /\ TokensWithinLimit'
  BY <1>1 DEF Inv, RequestsInv, TokensWithinLimit, Young, Sleepers
<1> QED
  BY <1>2, <1>3, <1>4 DEF Inv

(* So does a step in which nothing changes.                                *)
LEMMA StutterStep ==
  ASSUME Inv, UNCHANGED vars
  PROVE  Inv'
<1>1. UNCHANGED <<plan, embedded, pc, call, attempt, log, torch, previous, cancelled, after>>
  BY DEF vars, data, torchVars
<1>2. Types' /\ StopInv' /\ ThreadInv'
  BY <1>1 DEF Inv, Types, StopInv, ThreadInv
<1>3. OrderInv'
  BY <1>1 DEF Inv, OrderInv, HasThoseBefore
<1>4. RequestsInv' /\ TokensWithinLimit'
  BY <1>1 DEF Inv, RequestsInv, TokensWithinLimit, Young, Sleepers
<1> QED
  BY <1>2, <1>3, <1>4 DEF Inv

LEMMA InvStep == Inv /\ [Next]_vars => Inv'
<1> SUFFICES ASSUME Inv, [Next]_vars PROVE Inv'
  OBVIOUS
<1>1. ASSUME NEW c \in Callers, Thread(c)
      PROVE  Inv'
  <2>1. /\ Types /\ OrderInv /\ StopInv /\ ThreadInv /\ RequestsInv /\ TokensWithinLimit
    BY DEF Inv
  <2> QED
    BY <1>1, <2>1, TypesThread, OrderThread, StopThread, ThreadsThread, RequestsThread,
       TokensThread DEF Inv
<1>2. CASE Tick
  BY <1>2, TickStep
<1>3. CASE Cancel
  BY <1>3, CancelStep
<1>4. CASE UNCHANGED vars
  BY <1>4, StutterStep
<1> QED
  BY <1>1, <1>2, <1>3, <1>4 DEF Next

LEMMA InvHolds == Spec => []Inv
<1> QED
  BY InvInit, InvStep, PTL DEF Spec

-----------------------------------------------------------------------------
(* A cancel of the sweep stops a caller that looks for it after one more   *)
(* Voyage call, or after the remaining attempts of one SIE call, whatever  *)
(* it is told to retry and however long it sleeps in the limiter.          *)
THEOREM CancelEndsCalls == Spec => []CancelStopsCalls
<1>1. Inv => CancelStopsCalls
  BY DEF Inv, StopInv, CancelStopsCalls
<1> QED
  BY <1>1, InvHolds, PTL

(* _limited_thread_pool leaves torch with the number of threads it started *)
(* with, in whatever order its callers read, set and restore that number.  *)
THEOREM PoolIsRestored == Spec => []ThreadsRestored
<1>1. Inv => ThreadsRestored
  BY DEF Inv, ThreadInv, ThreadsRestored
<1> QED
  BY <1>1, InvHolds, PTL

(* The requests of one window exceed the limiter's ceiling by no more than *)
(* one of each thread that slept on the tokens and does not look again.    *)
THEOREM RequestsAreLimited == Spec => []RequestsWithinLimit
<1>1. Inv => RequestsWithinLimit
  <2> SUFFICES ASSUME Inv PROVE RequestsWithinLimit
    OBVIOUS
  <2>1. Cardinality(Young) \in Nat
    <3>1. Young = YoungOf(log)
      BY DEF Young, YoungOf
    <3> QED
      BY <3>1, YoungIsFinite DEF Inv, Types
  <2> QED
    BY <2>1, SleepersAreCallers, LimitsAssumption DEF Inv, RequestsInv, RequestsWithinLimit
<1> QED
  BY <1>1, InvHolds, PTL

(* The tokens since any request of the window stay under the ceiling, but  *)
(* for a request that goes alone: wait_if_needed counts what it purged and *)
(* what it adds, and a sleeper counts again.                               *)
THEOREM TokensAreLimited == Spec => []TokensWithinLimit
<1>1. Inv => TokensWithinLimit
  BY DEF Inv
<1> QED
  BY <1>1, InvHolds, PTL

(* The vectors of a caller are those of its first texts in their order,    *)
(* and of all when it is done: the splitters lose, repeat and move no text *)
(* of any list, and a retry embeds the call it retries.                    *)
THEOREM VectorsAreInOrder == Spec => []EmbeddedInOrder
<1>1. Inv => EmbeddedInOrder
  BY OrderHolds DEF Inv
<1> QED
  BY <1>1, InvHolds, PTL
=============================================================================
