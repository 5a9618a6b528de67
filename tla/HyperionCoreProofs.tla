-------------------------- MODULE HyperionCoreProofs --------------------------
(***************************************************************************)
(* Which effects own a channel and which of them still speak, for every    *)
(* set of effect objects, priorities and times and whatever the muxer      *)
(* does.  The invariants need what the engine keeps true of its objects:   *)
(* each is in _activeEffects once, a signal that is not yet queued is the  *)
(* sender's own, and finished() is the last signal of its sender.          *)
(***************************************************************************)
EXTENDS HyperionCore, MuxerLemmas, SequenceTheorems

EffectType ==
  [id : Ids, chan : Priorities, timeout : Int, end : Int, interrupted : BOOLEAN,
   phase : {"starting", "running", "done"}, out : Seq(Signal)]

EffectSeq(S) == S \in Seq(EffectType)

Distinct(S) == \A i, j \in DOMAIN S : i # j => S[i].id # S[j].id

OwnWords(S) ==
  \A i \in DOMAIN S :
    /\ S[i].out # <<>> => S[i].phase = "running"
    /\ \A k \in DOMAIN S[i].out : /\ S[i].out[k].id = S[i].id
                                  /\ S[i].out[k].chan = S[i].chan
                                  /\ S[i].out[k].kind # "finished"

OnePerChannel(S) ==
  \A i, j \in DOMAIN S :
    i # j /\ S[i].chan = S[j].chan => S[i].interrupted \/ S[j].interrupted

LastWords(Q) ==
  \A k, l \in DOMAIN Q : k < l /\ Q[k].kind = "finished" => Q[l].id # Q[k].id

Sent(S, Q) ==
  \A k \in DOMAIN Q : \E i \in DOMAIN S :
    /\ S[i].id = Q[k].id /\ S[i].chan = Q[k].chan
    /\ Q[k].kind = "finished" => S[i].phase = "done"

(* S are the effects of the engine and Q the signals that wait. *)
Engine(S, Q) ==
  /\ EffectSeq(S) /\ Q \in Seq(Signal)
  /\ Distinct(S) /\ OwnWords(S) /\ OnePerChannel(S)
  /\ LastWords(Q) /\ Sent(S, Q)

-----------------------------------------------------------------------------
(* R is S, with some effects told to stop that had not been. *)
Told(S, R) ==
  /\ R \in Seq(EffectType)
  /\ DOMAIN R = DOMAIN S
  /\ \A i \in DOMAIN S :
       /\ R[i].id = S[i].id /\ R[i].chan = S[i].chan
       /\ R[i].timeout = S[i].timeout
       /\ R[i].phase = S[i].phase /\ R[i].out = S[i].out
       /\ S[i].interrupted => R[i].interrupted

LEMMA IsTold ==
  ASSUME NEW S \in Seq(EffectType), NEW R,
         NEW W, R = [i \in DOMAIN S |-> IF i \in W THEN [S[i] EXCEPT !.interrupted = TRUE]
                                                 ELSE S[i]]
  PROVE  Told(S, R) /\ \A i \in W \cap DOMAIN S : R[i].interrupted
<1>1. \A i \in DOMAIN S : S[i] \in EffectType
  OBVIOUS
<1>2. \A i \in DOMAIN S : [S[i] EXCEPT !.interrupted = TRUE] \in EffectType
  BY <1>1 DEF EffectType
<1>3. DOMAIN R = 1..Len(S) /\ Len(S) \in Nat
  OBVIOUS
<1>4. \A i \in DOMAIN S : R[i] \in EffectType
  BY <1>1, <1>2
<1>5. R \in Seq(EffectType)
  BY <1>3, <1>4
<1> QED
  BY <1>1, <1>5 DEF Told, EffectType

LEMMA ClearedTold ==
  ASSUME NEW S \in Seq(EffectType)
  PROVE  /\ Told(S, S)
         /\ \A p : /\ Told(S, ChannelCleared(S, p))
                   /\ \A i \in DOMAIN S : S[i].chan = p => ChannelCleared(S, p)[i].interrupted
         /\ Told(S, AllChannelsCleared(S))
         /\ Told(S, AllInterrupted(S))
         /\ \A i \in DOMAIN S : AllInterrupted(S)[i].interrupted
<1>1. Told(S, S)
  BY DEF Told
<1>2. ASSUME NEW p
      PROVE  /\ Told(S, ChannelCleared(S, p))
             /\ \A i \in DOMAIN S : S[i].chan = p => ChannelCleared(S, p)[i].interrupted
  <2> DEFINE W == {i \in DOMAIN S : S[i].chan = p}
  <2>1. ChannelCleared(S, p)
          = [i \in DOMAIN S |-> IF i \in W THEN [S[i] EXCEPT !.interrupted = TRUE] ELSE S[i]]
    BY DEF ChannelCleared, EndsOn
  <2> QED
    BY <2>1, IsTold
<1>3. Told(S, AllChannelsCleared(S))
  <2> DEFINE W == {i \in DOMAIN S : S[i].chan # BG_PRIORITY}
  <2>1. AllChannelsCleared(S)
          = [i \in DOMAIN S |-> IF i \in W THEN [S[i] EXCEPT !.interrupted = TRUE] ELSE S[i]]
    BY DEF AllChannelsCleared, EndsOn
  <2> QED
    BY <2>1, IsTold
<1>4. /\ Told(S, AllInterrupted(S))
      /\ \A i \in DOMAIN S : AllInterrupted(S)[i].interrupted
  <2> DEFINE W == DOMAIN S
  <2>1. AllInterrupted(S)
          = [i \in DOMAIN S |-> IF i \in W THEN [S[i] EXCEPT !.interrupted = TRUE] ELSE S[i]]
    BY DEF AllInterrupted, EndsOn
  <2> QED
    BY <2>1, IsTold
<1> QED
  BY <1>1, <1>2, <1>3, <1>4

LEMMA EffectSeqDomain ==
  ASSUME NEW S, EffectSeq(S)
  PROVE  /\ Len(S) \in Nat /\ DOMAIN S = 1..Len(S)
         /\ \A i \in DOMAIN S : S[i] \in EffectType
BY DEF EffectSeq

(* Telling effects to stop disturbs nothing. *)
LEMMA ToldEngine ==
  ASSUME NEW S, NEW Q, Engine(S, Q), NEW R, Told(S, R)
  PROVE  Engine(R, Q)
<1>1. EffectSeq(R)
  BY DEF Told, EffectSeq
<1>2. Distinct(R) /\ OwnWords(R) /\ OnePerChannel(R)
  BY DEF Engine, Told, Distinct, OwnWords, OnePerChannel
<1>3. Sent(R, Q)
  BY DEF Engine, Told, Sent
<1> QED
  BY <1>1, <1>2, <1>3 DEF Engine

LEMMA TailFacts ==
  ASSUME NEW Q \in Seq(Signal), Q # <<>>
  PROVE  /\ Tail(Q) \in Seq(Signal)
         /\ \A k \in DOMAIN Tail(Q) : /\ Tail(Q)[k] = Q[k+1] /\ k + 1 \in DOMAIN Q
                                      /\ k \in Int /\ k >= 1
         /\ Head(Q) = Q[1] /\ 1 \in DOMAIN Q
BY HeadTailProperties

(* Nor does the delivery of the first signal. *)
LEMMA DeliveredEngine ==
  ASSUME NEW S, NEW Q, Engine(S, Q), Q # <<>>
  PROVE  Engine(S, Tail(Q))
<1>0. Q \in Seq(Signal)
  BY DEF Engine
<1> DEFINE T == Tail(Q)
<1>1. /\ T \in Seq(Signal)
      /\ \A k \in DOMAIN T : T[k] = Q[k+1] /\ k + 1 \in DOMAIN Q /\ k \in Int
  BY <1>0, TailFacts
<1> HIDE DEF T
<1>2. LastWords(T)
  BY <1>1 DEF Engine, LastWords
<1>3. Sent(S, T)
  <2> SUFFICES ASSUME NEW k \in DOMAIN T
               PROVE  \E i \in DOMAIN S :
                        /\ S[i].id = T[k].id /\ S[i].chan = T[k].chan
                        /\ T[k].kind = "finished" => S[i].phase = "done"
    BY DEF Sent
  <2>1. k + 1 \in DOMAIN Q /\ T[k] = Q[k+1]
    BY <1>1
  <2> QED
    BY <2>1 DEF Engine, Sent
<1> QED
  BY <1>1, <1>2, <1>3 DEF Engine, T

(* A new effect takes a channel whose effects have been told to stop, and  *)
(* an object that no signal in the queue comes from.                       *)
LEMMA StartedEngine ==
  ASSUME NEW S, NEW Q, Engine(S, Q), NEW id \in Ids \ IdsOf(S),
         NEW p \in Priorities, NEW timeout \in Int,
         \A i \in DOMAIN S : S[i].chan = p => S[i].interrupted
  PROVE  Engine(Append(S, Effect(id, p, timeout)), Q)
<1> DEFINE e == Effect(id, p, timeout)
           n == Len(S)
           N == Append(S, e)
<1>1. e \in EffectType /\ e.id = id /\ e.chan = p /\ e.out = <<>>
  BY DEF Effect, EffectType
<1> HIDE DEF e
<1>2. S \in Seq(EffectType) /\ n \in Nat /\ DOMAIN S = 1..n
  BY DEF Engine, EffectSeq
<1>3. /\ N \in Seq(EffectType)
      /\ DOMAIN N = 1..(n+1)
      /\ \A i \in 1..n : N[i] = S[i]
      /\ N[n+1] = e
  BY <1>1, <1>2, AppendProperties
<1> HIDE DEF n, N
<1>4. \A i \in 1..n : S[i].id # id
  BY <1>2 DEF IdsOf
<1>5. Distinct(N)
  BY <1>1, <1>2, <1>3, <1>4 DEF Engine, Distinct
<1>6. OwnWords(N)
  BY <1>1, <1>2, <1>3 DEF Engine, OwnWords
<1>7. OnePerChannel(N)
  BY <1>1, <1>2, <1>3 DEF Engine, OnePerChannel
<1>8. Sent(N, Q)
  BY <1>2, <1>3 DEF Engine, Sent
<1> QED
  BY <1>3, <1>5, <1>6, <1>7, <1>8 DEF Engine, EffectSeq, N, e

(* What a restart starts, for the effects S: one each, under a new name.   *)
LEMMA SuccessorsFacts ==
  ASSUME NEW S \in Seq(EffectType), NEW fresh \in Injection(DOMAIN S, Ids \ IdsOf(S))
  PROVE  LET N == Successors(S, fresh)
         IN  /\ N \in Seq(EffectType)
             /\ DOMAIN N = DOMAIN S
             /\ \A i \in DOMAIN S :
                  /\ N[i].chan = S[i].chan
                  /\ N[i].out = <<>>
                  /\ \A j \in DOMAIN S : /\ S[j].id # N[i].id
                                         /\ i # j => N[j].id # N[i].id
                                         /\ j > i /\ S[j].chan = S[i].chan => N[i].interrupted
<1> DEFINE N == Successors(S, fresh)
           n == Len(S)
<1>1. n \in Nat /\ DOMAIN S = 1..n
  OBVIOUS
<1>2. fresh \in [DOMAIN S -> Ids \ IdsOf(S)] /\ IsInjective(fresh)
  BY DEF Injection
<1>3. \A i, j \in DOMAIN S : i # j => fresh[i] # fresh[j]
  BY <1>2 DEF IsInjective
<1>4. \A i \in DOMAIN S : fresh[i] \in Ids /\ fresh[i] \notin IdsOf(S)
  BY <1>2
<1>5. \A i \in DOMAIN S : S[i].id \in IdsOf(S)
  BY DEF IdsOf
<1>6. ASSUME NEW i \in DOMAIN S
      PROVE  /\ N[i] \in EffectType
             /\ N[i].id = fresh[i] /\ N[i].chan = S[i].chan /\ N[i].out = <<>>
             /\ \A j \in DOMAIN S : j > i /\ S[j].chan = S[i].chan => N[i].interrupted
  <2> DEFINE e == Effect(fresh[i], S[i].chan, S[i].timeout)
             b == \E j \in DOMAIN S : j > i /\ S[j].chan = S[i].chan
  <2>1. S[i] \in EffectType
    OBVIOUS
  <2>2. e \in EffectType /\ e.id = fresh[i] /\ e.chan = S[i].chan /\ e.out = <<>>
    BY <1>4, <2>1 DEF Effect, EffectType
  <2>3. N[i] = [e EXCEPT !.interrupted = b]
    BY DEF Successors
  <2> HIDE DEF e, N
  <2>4. b \in BOOLEAN
    OBVIOUS
  <2> HIDE DEF b
  <2>5. /\ N[i] \in EffectType
        /\ N[i].id = e.id /\ N[i].chan = e.chan /\ N[i].out = e.out
        /\ b => N[i].interrupted
    BY <2>2, <2>3, <2>4 DEF EffectType
  <2> QED
    BY <2>2, <2>5 DEF b
<1>7. DOMAIN N = DOMAIN S
  BY DEF Successors
<1>8. N = [i \in 1..n |-> N[i]]
  BY <1>1 DEF Successors
<1> HIDE DEF N, n
<1>9. N \in Seq(EffectType)
  <2>1. N \in [1..n -> EffectType]
    BY <1>1, <1>6, <1>8
  <2> QED
    BY <1>1, <2>1
<1> QED
  BY <1>3, <1>4, <1>5, <1>6, <1>7, <1>9 DEF N

LEMMA ConcatFacts ==
  ASSUME NEW s, EffectSeq(s), NEW t, EffectSeq(t),
         NEW n \in Nat, DOMAIN s = 1..n, DOMAIN t = 1..n, NEW r, r = s \o t
  PROVE  EffectSeq(r) /\ DOMAIN r = 1..(n+n)
<1>1. /\ s \in Seq(EffectType) /\ Len(s) = n
      /\ t \in Seq(EffectType) /\ Len(t) = n
  BY LenProperties DEF EffectSeq
<1>2. r \in Seq(EffectType) /\ Len(r) = n + n
  <2>1. s \o t \in Seq(EffectType) /\ Len(s \o t) = Len(s) + Len(t)
    BY <1>1, ConcatProperties
  <2> QED
    BY <1>1, <2>1
<1>3. DOMAIN r = 1..Len(r)
  BY <1>2, LenProperties
<1> QED
  BY <1>2, <1>3 DEF EffectSeq

LEMMA ConcatElements ==
  ASSUME NEW s, EffectSeq(s), NEW t, EffectSeq(t),
         NEW n \in Nat, DOMAIN s = 1..n, DOMAIN t = 1..n, NEW i \in 1..n
  PROVE  (s \o t)[i] = s[i] /\ (s \o t)[n+i] = t[i]
<1>1. /\ s \in Seq(EffectType) /\ Len(s) = n
      /\ t \in Seq(EffectType) /\ Len(t) = n
  BY LenProperties DEF EffectSeq
<1>2. /\ i \in 1..(Len(s) + Len(t)) /\ n+i \in 1..(Len(s) + Len(t))
      /\ i <= Len(s) /\ ~(n+i <= Len(s)) /\ (n+i) - Len(s) = i
  BY <1>1
<1> QED
  BY <1>1, <1>2, ConcatProperties

(* A restart has told every effect to stop and starts as many new ones.    *)
(* Of two new ones on a channel the later has told the earlier to stop.    *)
LEMMA RestartedEngine ==
  ASSUME NEW S, NEW Q, Engine(S, Q), \A i \in DOMAIN S : S[i].interrupted,
         NEW fresh \in Injection(DOMAIN S, Ids \ IdsOf(S))
  PROVE  Engine(S \o Successors(S, fresh), Q)
<1> DEFINE N == Successors(S, fresh)
           E == S \o N
           n == Len(S)
<1>1. EffectSeq(S) /\ n \in Nat /\ DOMAIN S = 1..n
  BY DEF Engine, EffectSeq
<1>2. EffectSeq(N) /\ DOMAIN N = 1..n
  BY <1>1, SuccessorsFacts DEF EffectSeq
<1>3. \A i \in 1..n :
        /\ N[i].chan = S[i].chan
        /\ N[i].out = <<>>
        /\ \A j \in 1..n : /\ S[j].id # N[i].id
                           /\ i # j => N[j].id # N[i].id
                           /\ j > i /\ S[j].chan = S[i].chan => N[i].interrupted
  BY <1>1, SuccessorsFacts DEF EffectSeq
<1> HIDE DEF N, n, E
<1>4. /\ EffectSeq(E)
      /\ DOMAIN E = 1..(n+n)
      /\ \A i \in 1..n : E[i] = S[i] /\ E[n+i] = N[i]
  <2>1. E = S \o N
    BY DEF E
  <2>2. EffectSeq(E) /\ DOMAIN E = 1..(n+n)
    BY <1>1, <1>2, <2>1, ConcatFacts
  <2>3. ASSUME NEW i \in 1..n PROVE E[i] = S[i] /\ E[n+i] = N[i]
    BY <1>1, <1>2, <2>1, ConcatElements
  <2> QED
    BY <2>2, <2>3
<1>5. \A i \in DOMAIN E : i \in 1..n \/ \E k \in 1..n : i = n + k
  <2> SUFFICES ASSUME NEW i \in 1..(n+n), i \notin 1..n PROVE \E k \in 1..n : i = n + k
    BY <1>4
  <2>1. i - n \in 1..n /\ i = n + (i - n)
    BY <1>1
  <2> QED
    BY <2>1
<1>6. Distinct(E)
  <2> SUFFICES ASSUME NEW i \in DOMAIN E, NEW j \in DOMAIN E, i # j
               PROVE  E[i].id # E[j].id
    BY DEF Distinct
  <2>1. CASE i \in 1..n /\ j \in 1..n
    BY <1>1, <1>4, <2>1 DEF Engine, Distinct
  <2>2. CASE i \in 1..n /\ \E k \in 1..n : j = n + k
    BY <1>3, <1>4, <2>2
  <2>3. CASE j \in 1..n /\ \E k \in 1..n : i = n + k
    BY <1>3, <1>4, <2>3
  <2>4. CASE (\E k \in 1..n : i = n + k) /\ (\E k \in 1..n : j = n + k)
    BY <1>3, <1>4, <2>4
  <2> QED
    BY <1>5, <2>1, <2>2, <2>3, <2>4
<1>7. OwnWords(E)
  <2> SUFFICES ASSUME NEW i \in DOMAIN E
               PROVE  /\ E[i].out # <<>> => E[i].phase = "running"
                      /\ \A k \in DOMAIN E[i].out : /\ E[i].out[k].id = E[i].id
                                                    /\ E[i].out[k].chan = E[i].chan
                                                    /\ E[i].out[k].kind # "finished"
    BY DEF OwnWords
  <2>1. CASE i \in 1..n
    BY <1>1, <1>4, <2>1 DEF Engine, OwnWords
  <2>2. CASE \E k \in 1..n : i = n + k
    <3>1. E[i].out = <<>>
      BY <1>3, <1>4, <2>2
    <3> QED
      BY <3>1
  <2> QED
    BY <1>5, <2>1, <2>2
<1>8. OnePerChannel(E)
  <2> SUFFICES ASSUME NEW i \in DOMAIN E, NEW j \in DOMAIN E, i # j,
                      E[i].chan = E[j].chan, ~E[i].interrupted, ~E[j].interrupted
               PROVE  FALSE
    BY DEF OnePerChannel
  <2>1. i \notin 1..n /\ j \notin 1..n
    BY <1>1, <1>4
  <2>2. PICK k \in 1..n : i = n + k
    BY <1>5, <2>1
  <2>3. PICK l \in 1..n : j = n + l
    BY <1>5, <2>1
  <2>4. S[k].chan = S[l].chan /\ ~N[k].interrupted /\ ~N[l].interrupted
    BY <1>3, <1>4, <2>2, <2>3
  <2>5. k > l \/ l > k
    BY <1>1, <2>2, <2>3
  <2> QED
    BY <1>3, <2>4, <2>5
<1>9. Sent(E, Q)
  <2>1. \A i \in 1..n : i \in DOMAIN E
    BY <1>1, <1>4
  <2> QED
    BY <1>1, <1>4, <2>1 DEF Engine, Sent
<1> QED
  BY <1>4, <1>6, <1>7, <1>8, <1>9 DEF Engine, E, N

-----------------------------------------------------------------------------
LEMMA RemoveAtFacts ==
  ASSUME NEW s, EffectSeq(s), NEW n \in Nat, DOMAIN s = 1..n, NEW i \in 1..n,
         NEW r, r = RemoveAt(s, i)
  PROVE  /\ EffectSeq(r)
         /\ DOMAIN r = 1..(n-1)
         /\ \A k \in 1..(n-1) : r[k] = IF k < i THEN s[k] ELSE s[k+1]
<1> DEFINE a == SubSeq(s, 1, i-1)
           b == SubSeq(s, i+1, Len(s))
<1>0. s \in Seq(EffectType) /\ Len(s) = n /\ i \in Nat
  BY LenProperties DEF EffectSeq
<1>1. /\ a \in Seq(EffectType) /\ Len(a) = i - 1
      /\ \A k \in 1..(i-1) : a[k] = s[k]
  BY <1>0, SubSeqProperties
<1>2. /\ b \in Seq(EffectType) /\ Len(b) = Len(s) - i
      /\ \A k \in 1..(Len(s) - i) : b[k] = s[i + k]
  BY <1>0, SubSeqProperties
<1> HIDE DEF a, b
<1>3. /\ a \o b \in Seq(EffectType) /\ Len(a \o b) = Len(s) - 1
      /\ \A k \in 1..(Len(s) - 1) : (a \o b)[k] = IF k <= Len(a) THEN a[k] ELSE b[k - Len(a)]
  BY <1>0, <1>1, <1>2, ConcatProperties
<1>4. \A k \in 1..(Len(s) - 1) : (a \o b)[k] = IF k < i THEN s[k] ELSE s[k+1]
  BY <1>0, <1>1, <1>2, <1>3
<1>5. RemoveAt(s, i) = a \o b
  BY DEF RemoveAt, a, b
<1>6. DOMAIN (a \o b) = 1..(Len(s) - 1)
  BY <1>0, <1>3, LenProperties
<1> QED
  BY <1>0, <1>3, <1>4, <1>5, <1>6 DEF EffectSeq

(* effectFinished() deletes the sender of a finished signal, the i-th      *)
(* effect, which has nothing else in the queue.                            *)
LEMMA FinishedEngine ==
  ASSUME NEW S, NEW Q, Engine(S, Q), Q # <<>>, Head(Q).kind = "finished",
         NEW s \in DOMAIN S, S[s].id = Head(Q).id
  PROVE  Engine(RemoveAt(S, s), Tail(Q))
<1> DEFINE n == Len(S)
           E == RemoveAt(S, s)
           T == Tail(Q)
           old(k) == IF k < s THEN k ELSE k + 1
<1>1. EffectSeq(S) /\ n \in Nat /\ DOMAIN S = 1..n
  BY DEF Engine, EffectSeq
<1> HIDE DEF n
<1>2. /\ T \in Seq(Signal)
      /\ \A k \in DOMAIN T : /\ T[k] = Q[k+1] /\ k + 1 \in DOMAIN Q
                             /\ k \in Int /\ k >= 1
      /\ Head(Q) = Q[1] /\ 1 \in DOMAIN Q
  BY TailFacts DEF Engine
<1> HIDE DEF T, E
<1>3. /\ EffectSeq(E)
      /\ DOMAIN E = 1..(n-1)
      /\ \A k \in 1..(n-1) : E[k] = S[old(k)]
  <2>1. E = RemoveAt(S, s)
    BY DEF E
  <2> QED
    BY <1>1, <2>1, RemoveAtFacts
<1>4. /\ \A k \in 1..(n-1) : old(k) \in 1..n
      /\ \A k, l \in 1..(n-1) : k # l => old(k) # old(l)
  BY <1>1
<1>5. ASSUME NEW i \in 1..n, i # s PROVE \E k \in 1..(n-1) : old(k) = i
  <2> DEFINE k == IF i < s THEN i ELSE i - 1
  <2>1. k \in 1..(n-1) /\ old(k) = i
    BY <1>1, <1>5
  <2> QED
    BY <2>1
<1> HIDE DEF old
<1>6. Distinct(E) /\ OwnWords(E) /\ OnePerChannel(E)
  <2>1. Distinct(E)
    BY <1>1, <1>3, <1>4 DEF Engine, Distinct
  <2>2. OwnWords(E)
    BY <1>1, <1>3, <1>4 DEF Engine, OwnWords
  <2>3. OnePerChannel(E)
    BY <1>1, <1>3, <1>4 DEF Engine, OnePerChannel
  <2> QED
    BY <2>1, <2>2, <2>3
<1>7. LastWords(T)
  BY <1>2 DEF Engine, LastWords
<1>8. Sent(E, T)
  <2> SUFFICES ASSUME NEW k \in DOMAIN T
               PROVE  \E i \in DOMAIN E :
                        /\ S[old(i)].id = Q[k+1].id /\ S[old(i)].chan = Q[k+1].chan
                        /\ Q[k+1].kind = "finished" => S[old(i)].phase = "done"
    BY <1>2, <1>3 DEF Sent
  <2>1. Q[k+1].id # Q[1].id
    BY <1>2 DEF Engine, LastWords
  <2>2. PICK i \in 1..n : /\ S[i].id = Q[k+1].id /\ S[i].chan = Q[k+1].chan
                          /\ Q[k+1].kind = "finished" => S[i].phase = "done"
    BY <1>1, <1>2 DEF Engine, Sent
  <2>3. i # s
    BY <1>2, <2>1, <2>2
  <2>4. PICK j \in 1..(n-1) : old(j) = i
    BY <1>5, <2>3
  <2> QED
    BY <1>3, <2>2, <2>4
<1> QED
  BY <1>2, <1>3, <1>6, <1>7, <1>8 DEF Engine, E, T

-----------------------------------------------------------------------------
(* A thread changes its own effect: it keeps the name and the channel,     *)
(* never takes back that it was told to stop, and has nothing to say but   *)
(* while the script runs.                                                  *)
LEMMA ThreadEngine ==
  ASSUME NEW S, NEW Q, Engine(S, Q), NEW i \in DOMAIN S, NEW e \in EffectType,
         e.id = S[i].id, e.chan = S[i].chan, S[i].interrupted => e.interrupted,
         S[i].phase = "done" => e.phase = "done",
         e.out # <<>> => e.phase = "running",
         \A k \in DOMAIN e.out : /\ e.out[k].id = e.id /\ e.out[k].chan = e.chan
                                 /\ e.out[k].kind # "finished"
  PROVE  Engine([S EXCEPT ![i] = e], Q)
<1> DEFINE E == [S EXCEPT ![i] = e]
<1>1. S \in Seq(EffectType)
  BY DEF Engine, EffectSeq
<1>2. /\ E \in Seq(EffectType) /\ DOMAIN E = DOMAIN S
      /\ E[i] = e /\ \A j \in DOMAIN S : j # i => E[j] = S[j]
  BY <1>1
<1> HIDE DEF E
<1>3. Distinct(E)
  BY <1>2 DEF Engine, Distinct
<1>4. OwnWords(E)
  BY <1>2 DEF Engine, OwnWords
<1>5. OnePerChannel(E)
  BY <1>2 DEF Engine, OnePerChannel
<1>6. Sent(E, Q)
  <2> SUFFICES ASSUME NEW k \in DOMAIN Q
               PROVE  \E j \in DOMAIN E :
                        /\ E[j].id = Q[k].id /\ E[j].chan = Q[k].chan
                        /\ Q[k].kind = "finished" => E[j].phase = "done"
    BY DEF Sent
  <2>1. PICK j \in DOMAIN S : /\ S[j].id = Q[k].id /\ S[j].chan = Q[k].chan
                              /\ Q[k].kind = "finished" => S[j].phase = "done"
    BY DEF Engine, Sent
  <2>2. j \in DOMAIN E /\ E[j].id = S[j].id /\ E[j].chan = S[j].chan
        /\ (S[j].phase = "done" => E[j].phase = "done")
    BY <1>2
  <2> QED
    BY <2>1, <2>2
<1> QED
  BY <1>2, <1>3, <1>4, <1>5, <1>6 DEF Engine, EffectSeq, E

(* As long as a script runs its thread has not finished. *)
LEMMA NotFinished ==
  ASSUME NEW S, NEW Q, Engine(S, Q), NEW i \in DOMAIN S, S[i].phase = "running",
         NEW k \in DOMAIN Q, Q[k].kind = "finished"
  PROVE  Q[k].id # S[i].id
<1>1. PICK j \in DOMAIN S : S[j].id = Q[k].id /\ S[j].phase = "done"
  BY DEF Engine, Sent
<1> QED
  BY <1>1 DEF Engine, Distinct

(* A signal joins the queue. *)
LEMMA QueuedEngine ==
  ASSUME NEW S, NEW Q, Engine(S, Q), NEW i \in DOMAIN S, NEW w \in Seq(Signal),
         \A k \in DOMAIN Q : Q[k].kind = "finished" => Q[k].id # S[i].id,
         \A k \in DOMAIN w : /\ w[k].id = S[i].id /\ w[k].chan = S[i].chan
                             /\ w[k].kind = "finished" => S[i].phase = "done" /\ k = Len(w)
  PROVE  Engine(S, Q \o w)
<1> DEFINE T == Q \o w
           n == Len(Q)
<1>1. Q \in Seq(Signal) /\ n \in Nat /\ DOMAIN Q = 1..n
  BY DEF Engine
<1>2. T \in Seq(Signal) /\ Len(T) = n + Len(w)
  BY <1>1, ConcatProperties
<1>3. \A k \in 1..(n + Len(w)) : T[k] = IF k <= n THEN Q[k] ELSE w[k-n]
  BY <1>1, ConcatProperties
<1>4. Len(w) \in Nat /\ DOMAIN w = 1..Len(w)
  BY LenProperties
<1>5. DOMAIN T = 1..(n + Len(w))
  BY <1>2, LenProperties
<1> HIDE DEF T, n
<1>6. ASSUME NEW k \in DOMAIN T
      PROVE  /\ k \in Int
             /\ \/ k <= n /\ k \in DOMAIN Q /\ T[k] = Q[k]
                \/ k > n /\ k - n \in DOMAIN w /\ T[k] = w[k-n]
  <2>1. k \in 1..(n + Len(w))
    BY <1>5
  <2>2. CASE k <= n
    BY <1>1, <1>3, <1>4, <2>1, <2>2
  <2>3. CASE ~(k <= n)
    BY <1>1, <1>3, <1>4, <2>1, <2>3
  <2> QED
    BY <2>1, <2>2, <2>3
<1>7. LastWords(T)
  <2> SUFFICES ASSUME NEW k \in DOMAIN T, NEW l \in DOMAIN T, k < l, T[k].kind = "finished"
               PROVE  T[l].id # T[k].id
    BY DEF LastWords
  <2>1. CASE k <= n /\ l <= n
    <3>1. k \in DOMAIN Q /\ T[k] = Q[k] /\ l \in DOMAIN Q /\ T[l] = Q[l]
      BY <1>1, <1>6, <2>1
    <3> QED
      BY <3>1 DEF Engine, LastWords
  <2>2. CASE k <= n /\ l > n
    <3>1. k \in DOMAIN Q /\ T[k] = Q[k] /\ l - n \in DOMAIN w /\ T[l] = w[l-n]
      BY <1>1, <1>6, <2>2
    <3> QED
      BY <3>1
  <2>3. CASE k > n
    <3>1. /\ k - n \in DOMAIN w /\ T[k] = w[k-n] /\ k \in Int
          /\ l - n \in DOMAIN w /\ l \in Int
      BY <1>1, <1>6, <2>3
    <3>2. k - n = Len(w)
      BY <3>1
    <3> QED
      BY <1>1, <1>4, <3>1, <3>2
  <2> QED
    BY <1>1, <1>6, <2>1, <2>2, <2>3
<1>8. Sent(S, T)
  <2> SUFFICES ASSUME NEW k \in DOMAIN T
               PROVE  \E j \in DOMAIN S :
                        /\ S[j].id = T[k].id /\ S[j].chan = T[k].chan
                        /\ T[k].kind = "finished" => S[j].phase = "done"
    BY DEF Sent
  <2>1. CASE k \in DOMAIN Q /\ T[k] = Q[k]
    BY <2>1 DEF Engine, Sent
  <2>2. CASE k - n \in DOMAIN w /\ T[k] = w[k-n]
    BY <2>2
  <2> QED
    BY <1>6, <2>1, <2>2
<1> QED
  BY <1>2, <1>7, <1>8 DEF Engine, T

-----------------------------------------------------------------------------
CoreInv == Engine(effects, events) /\ now \in Nat

LEMMA InitCoreInv == Init => CoreInv
<1> SUFFICES ASSUME Init PROVE CoreInv
  OBVIOUS
<1>1. effects = <<>> /\ events = <<>> /\ now = 0
  BY DEF Init
<1>2. <<>> \in Seq(EffectType) /\ <<>> \in Seq(Signal) /\ DOMAIN <<>> = {}
  OBVIOUS
<1> QED
  BY <1>1, <1>2
     DEF CoreInv, Engine, EffectSeq, Distinct, OwnWords, OnePerChannel, LastWords, Sent

LEMMA HandledCoreInv ==
  ASSUME CoreInv, NEW c, NEW updates, Handled(c, updates), Engine(c.effects, events')
  PROVE  CoreInv'
<1>1. effects' = c.effects /\ now' = now
  BY DEF Handled
<1> QED
  BY <1>1 DEF CoreInv

LEMMA OnlyMuxerCoreInv ==
  ASSUME CoreInv, NEW m, OnlyMuxer(m)
  PROVE  CoreInv'
<1>1. effects' = effects /\ events' = events /\ now' = now
  BY DEF OnlyMuxer, Handled, Core
<1> QED
  BY <1>1 DEF CoreInv

(* Hyperion::setInput() and clear() tell effects to stop, at most. *)
LEMMA HyperionEngine ==
  ASSUME NEW c, NEW Q, Engine(c.effects, Q), NEW p
  PROVE  /\ Engine(ChannelCleared(c.effects, p), Q)
         /\ \A i \in DOMAIN c.effects : c.effects[i].chan = p
               => ChannelCleared(c.effects, p)[i].interrupted
         /\ Engine(HyperionClear(c, p).effects, Q)
         /\ \A kind, frame, timeout, b :
              Engine(HyperionSetInput(c, kind, p, frame, timeout, b).effects, Q)
<1> DEFINE R == ChannelCleared(c.effects, p)
<1>1. c.effects \in Seq(EffectType)
  BY DEF Engine, EffectSeq
<1>2. /\ Told(c.effects, R)
      /\ \A i \in DOMAIN c.effects : c.effects[i].chan = p => R[i].interrupted
  BY <1>1, ClearedTold
<1> HIDE DEF R
<1>3. Engine(R, Q)
  BY <1>2, ToldEngine
<1>4. HyperionClear(c, p).effects = R
  BY DEF HyperionClear, R
<1>5. ASSUME NEW kind, NEW frame, NEW timeout, NEW b
      PROVE  HyperionSetInput(c, kind, p, frame, timeout, b).effects \in {c.effects, R}
  BY DEF HyperionSetInput, R
<1>6. ASSUME NEW kind, NEW frame, NEW timeout, NEW b
      PROVE  Engine(HyperionSetInput(c, kind, p, frame, timeout, b).effects, Q)
  <2>1. CASE HyperionSetInput(c, kind, p, frame, timeout, b).effects = c.effects
    BY <2>1
  <2>2. CASE HyperionSetInput(c, kind, p, frame, timeout, b).effects = R
    BY <1>3, <2>2
  <2> QED
    BY <1>5, <2>1, <2>2
<1> QED
  BY <1>2, <1>3, <1>4, <1>6 DEF R

(* A free name exists whenever the guard of SetEffect says so. *)
LEMMA FreshId ==
  ASSUME NEW S, Ids \ IdsOf(S) # {}
  PROVE  Least(Ids \ IdsOf(S)) \in Ids \ IdsOf(S)
<1> DEFINE F == Ids \ IdsOf(S)
<1>1. F \subseteq Nat /\ F # {}
  BY IdsAssumption
<1>2. PICK x \in F : \A y \in F : ~(<<y, x>> \in OpToRel(<, Nat))
  BY <1>1, NatLessThanWellFounded, WFMin
<1> HIDE DEF F
<1>3. \A y \in F : x <= y
  <2> SUFFICES ASSUME NEW y \in F PROVE x <= y
    OBVIOUS
  <2>1. ~(y < x)
    BY <1>1, <1>2 DEF OpToRel
  <2> QED
    BY <1>1, <2>1
<1>4. \E z \in F : \A y \in F : z <= y
  BY <1>3
<1> QED
  BY <1>4 DEF Least, F

LEMMA RequestCoreInv ==
  ASSUME CoreInv, NEW p \in Priorities, Request(p)
  PROVE  CoreInv'
<1>0. Core.effects = effects /\ Engine(Core.effects, events)
  BY DEF CoreInv, Core
<1>1. ASSUME NEW timeout \in Timeouts \ {INACTIVE}, SetEffect(p, timeout) PROVE CoreInv'
  <2> DEFINE R  == ChannelCleared(effects, p)
             id == Least(Ids \ IdsOf(effects))
             c  == RunEffectScript(Core, p, timeout)
  <2>1. Engine(R, events)
        /\ \A i \in DOMAIN effects : effects[i].chan = p => R[i].interrupted
    BY <1>0, HyperionEngine
  <2>2. Told(effects, R)
    BY <1>0, ClearedTold DEF Engine, EffectSeq
  <2> HIDE DEF R
  <2>3. IdsOf(R) = IdsOf(effects)
    BY <2>2 DEF Told, IdsOf
  <2>4. id \in Ids \ IdsOf(R)
    BY <1>1, <2>3, FreshId DEF SetEffect
  <2>5. \A i \in DOMAIN R : R[i].chan = p => R[i].interrupted
    BY <2>1, <2>2 DEF Told
  <2>6. timeout \in Int
    BY TimeoutsAssumption
  <2>7. c.effects = Append(R, Effect(id, p, timeout))
    BY DEF RunEffectScript, Core, R
  <2> HIDE DEF c, id
  <2>8. Engine(c.effects, events)
    BY <2>1, <2>4, <2>5, <2>6, <2>7, StartedEngine
  <2>9. Handled(c, FALSE) /\ events' = events
    BY <1>1 DEF SetEffect, c
  <2> QED
    BY <2>8, <2>9, HandledCoreInv
<1>2. ASSUME NEW timeout, SetColor(p, timeout) PROVE CoreInv'
  <2> DEFINE d == [Core EXCEPT !.effects = ChannelCleared(effects, p),
                               !.mux     = RegisterInput(mux, p, "COLOR")]
             c == HyperionSetInput(d, "colors", p, ClientFrame, timeout, TRUE)
  <2>1. d.effects = ChannelCleared(effects, p)
    BY DEF Core
  <2>2. Handled(c, c.mux.current = p) /\ events' = events
    BY <1>2 DEF SetColor
  <2> HIDE DEF d
  <2>3. Engine(d.effects, events)
    BY <1>0, <2>1, HyperionEngine
  <2>4. Engine(c.effects, events)
    BY <2>3, HyperionEngine
  <2> HIDE DEF c
  <2> QED
    BY <2>2, <2>4, HandledCoreInv
<1>3. ASSUME NEW kind, NEW timeout, ClientInput(kind, p, timeout) PROVE CoreInv'
  <2> DEFINE c == HyperionSetInput(Core, kind, p, ClientFrame, timeout, TRUE)
  <2>1. Engine(c.effects, events)
    BY <1>0, HyperionEngine
  <2>2. Handled(c, Has(mux, p) /\ c.mux.current = p) /\ events' = events
    BY <1>3 DEF ClientInput
  <2> HIDE DEF c
  <2> QED
    BY <2>1, <2>2, HandledCoreInv
<1>4. CASE ClientRegister(p) \/ ClientInactive(p) \/ SetCurrentSourcePriority(p)
  BY <1>4, OnlyMuxerCoreInv DEF ClientRegister, ClientInactive, SetCurrentSourcePriority
<1>5. CASE Clear(p)
  <2>1. Engine(HyperionClear(Core, p).effects, events)
    BY <1>0, HyperionEngine
  <2> QED
    BY <1>5, <2>1, HandledCoreInv DEF Clear
<1> QED
  BY <1>1, <1>2, <1>3, <1>4, <1>5 DEF Request

LEMMA MainThreadCoreInv ==
  ASSUME CoreInv,
         \/ ClearAll \/ (\E enable \in BOOLEAN : AutoSelect(enable)) \/ LayoutChanged
         \/ UpdateTimeout \/ Tick
  PROVE  CoreInv'
<1>0. Core.effects = effects /\ Engine(effects, events) /\ effects \in Seq(EffectType)
  BY DEF CoreInv, Core, Engine, EffectSeq
<1>1. CASE ClearAll
  <2> DEFINE c == [mux |-> MuxerClearAll(mux), effects |-> AllChannelsCleared(effects)]
  <2>1. Engine(AllChannelsCleared(effects), events)
    BY <1>0, ClearedTold, ToldEngine
  <2>2. c.effects = AllChannelsCleared(effects)
    OBVIOUS
  <2>3. Handled(c, FALSE) /\ events' = events
    BY <1>1 DEF ClearAll
  <2> HIDE DEF c
  <2> QED
    BY <2>1, <2>2, <2>3, HandledCoreInv
<1>2. ASSUME NEW enable \in BOOLEAN, AutoSelect(enable) PROVE CoreInv'
  <2>1. effects' = effects /\ events' = events /\ now' = now
    BY <1>2 DEF AutoSelect, Handled, Core
  <2> QED
    BY <2>1 DEF CoreInv
<1>3. CASE LayoutChanged
  <2>1. PICK fresh \in Injection(DOMAIN effects, Ids \ IdsOf(effects)) :
          Handled(RestartEffects(Core, fresh), TRUE) /\ events' = events
    BY <1>3 DEF LayoutChanged
  <2> DEFINE R == AllInterrupted(effects)
             c == RestartEffects(Core, fresh)
  <2>2. Told(effects, R) /\ \A i \in DOMAIN effects : R[i].interrupted
    BY <1>0, ClearedTold
  <2>3. c.effects = R \o Successors(effects, fresh)
    BY DEF RestartEffects, Core
  <2> HIDE DEF R
  <2>4. Engine(R, events)
    BY <1>0, <2>2, ToldEngine
  <2>5. DOMAIN R = DOMAIN effects /\ IdsOf(R) = IdsOf(effects)
    BY <2>2 DEF Told, IdsOf
  <2>6. Successors(R, fresh) = Successors(effects, fresh)
    <3>1. /\ DOMAIN R = DOMAIN effects
          /\ \A i \in DOMAIN effects : /\ R[i].chan = effects[i].chan
                                      /\ R[i].timeout = effects[i].timeout
      BY <2>2 DEF Told
    <3>2. \A i \in DOMAIN effects :
            (\E j \in DOMAIN effects : j > i /\ R[j].chan = R[i].chan)
              = (\E j \in DOMAIN effects : j > i /\ effects[j].chan = effects[i].chan)
      BY <3>1
    <3> DEFINE f == Successors(R, fresh)
               g == Successors(effects, fresh)
    <3>3. DOMAIN f = DOMAIN effects /\ DOMAIN g = DOMAIN effects
      BY <3>1 DEF Successors
    <3>4. ASSUME NEW i \in DOMAIN effects PROVE f[i] = g[i]
      BY <3>1, <3>2 DEF Successors
    <3>5. f = [i \in DOMAIN effects |-> f[i]] /\ g = [i \in DOMAIN effects |-> g[i]]
      BY <3>1 DEF Successors
    <3> HIDE DEF f, g
    <3>6. f = g
      BY <3>4, <3>5
    <3> QED
      BY <3>6 DEF f, g
  <2>7. fresh \in Injection(DOMAIN R, Ids \ IdsOf(R))
    BY <2>5
  <2>8. \A i \in DOMAIN R : R[i].interrupted
    BY <2>2, <2>5
  <2>9. Engine(R \o Successors(R, fresh), events)
    BY <2>4, <2>7, <2>8, RestartedEngine
  <2>10. Engine(c.effects, events)
    BY <2>3, <2>6, <2>9
  <2> HIDE DEF c
  <2> QED
    BY <2>1, <2>10, HandledCoreInv DEF c
<1>4. CASE UpdateTimeout
  BY <1>4, OnlyMuxerCoreInv DEF UpdateTimeout
<1>5. CASE Tick
  BY <1>5 DEF Tick, CoreInv
<1> QED
  BY <1>1, <1>2, <1>3, <1>4, <1>5

LEMMA DeliverCoreInv ==
  ASSUME CoreInv, DeliverFrame \/ DeliverFinished
  PROVE  CoreInv'
<1>0. Core.effects = effects /\ Engine(effects, events) /\ effects \in Seq(EffectType)
  BY DEF CoreInv, Core, Engine, EffectSeq
<1>1. CASE DeliverFrame
  <2> DEFINE ev == Head(events)
             c  == HyperionSetInput(Core, ev.kind, ev.chan, ev.id, ev.timeout, FALSE)
  <2>1. /\ events # <<>> /\ events' = Tail(events)
        /\ Handled(c, Has(mux, ev.chan) /\ c.mux.current = ev.chan)
    BY <1>1 DEF DeliverFrame
  <2>2. Engine(effects, Tail(events))
    BY <1>0, <2>1, DeliveredEngine
  <2>3. Engine(c.effects, Tail(events))
    BY <1>0, <2>2, HyperionEngine
  <2> HIDE DEF c
  <2> QED
    BY <2>1, <2>3, HandledCoreInv
<1>2. CASE DeliverFinished
  <2> DEFINE s == Sender
             c == IF effects[s].interrupted THEN Core ELSE HyperionClear(Core, effects[s].chan)
             d == [c EXCEPT !.effects = RemoveAt(c.effects, s)]
  <2>1. /\ events # <<>> /\ Head(events).kind = "finished" /\ events' = Tail(events)
        /\ Handled(d, FALSE)
    BY <1>2 DEF DeliverFinished
  <2>2. s \in DOMAIN effects /\ effects[s].id = Head(events).id
    <3>1. Head(events) = events[1] /\ 1 \in DOMAIN events
      BY <1>0, <2>1, TailFacts DEF Engine
    <3>2. \E i \in DOMAIN effects : effects[i].id = Head(events).id
      BY <1>0, <3>1 DEF Engine, Sent
    <3> QED
      BY <3>2 DEF Sender
  <2> HIDE DEF s
  <2> DEFINE R == ChannelCleared(effects, effects[s].chan)
  <2>3. Told(effects, R)
    BY <1>0, ClearedTold
  <2>4. c.effects \in {effects, R} /\ d.effects = RemoveAt(c.effects, s)
    BY DEF HyperionClear, Core
  <2> HIDE DEF c, d, R
  <2>5. CASE c.effects = effects
    <3>1. Engine(RemoveAt(effects, s), Tail(events))
      BY <1>0, <2>1, <2>2, FinishedEngine
    <3> QED
      BY <2>1, <2>4, <2>5, <3>1, HandledCoreInv
  <2>6. CASE c.effects = R
    <3>1. Engine(R, events)
      BY <1>0, <2>3, ToldEngine
    <3>2. s \in DOMAIN R /\ R[s].id = Head(events).id
      BY <2>2, <2>3 DEF Told
    <3>3. Engine(RemoveAt(R, s), Tail(events))
      BY <2>1, <3>1, <3>2, FinishedEngine
    <3> QED
      BY <2>1, <2>4, <2>6, <3>3, HandledCoreInv
  <2> QED
    BY <2>4, <2>5, <2>6
<1> QED
  BY <1>1, <1>2

LEMMA ThreadCoreInv ==
  ASSUME CoreInv, NEW i \in DOMAIN effects, EffectThread(i)
  PROVE  CoreInv'
<1> DEFINE e == effects[i]
<1>0. /\ Engine(effects, events) /\ e \in EffectType /\ now \in Nat
      /\ e.out # <<>> => e.phase = "running"
      /\ \A k \in DOMAIN e.out : /\ e.out[k].id = e.id /\ e.out[k].chan = e.chan
                                /\ e.out[k].kind # "finished"
  BY EffectSeqDomain DEF CoreInv, Engine, OwnWords
<1>1. ASSUME NEW x, Thread(i, x) PROVE effects' = [effects EXCEPT ![i] = x] /\ now' = now
  BY <1>1 DEF Thread
<1> HIDE DEF e
<1>2. CASE ScriptStart(i)
  <2> DEFINE end == IF e.timeout > 0 THEN now + e.timeout ELSE -1
             x   == [e EXCEPT !.phase = "running", !.end = end]
  <2>1. end \in Int
    BY <1>0 DEF EffectType
  <2>2. e.phase = "starting" /\ Thread(i, x) /\ events' = events
    BY <1>2 DEF ScriptStart, e
  <2> HIDE DEF end
  <2>3. /\ x \in EffectType /\ x.id = e.id /\ x.chan = e.chan /\ x.out = e.out
        /\ x.interrupted = e.interrupted /\ x.phase = "running"
    BY <1>0, <2>1 DEF EffectType
  <2> HIDE DEF x
  <2>4. Engine([effects EXCEPT ![i] = x], events)
    BY <1>0, <2>2, <2>3, ThreadEngine DEF e
  <2> QED
    BY <1>0, <1>1, <2>2, <2>4 DEF CoreInv
<1>3. ASSUME NEW kind \in {"colors", "image"}, Compose(i, kind) PROVE CoreInv'
  <2> DEFINE w == [kind |-> kind, id |-> e.id, chan |-> e.chan, timeout |-> Remaining(e)]
             x == [e EXCEPT !.out = <<w>>]
  <2>1. e.phase = "running" /\ Thread(i, x) /\ events' = events
    BY <1>3 DEF Compose, CanSend, e
  <2>2. Remaining(e) \in Int
    BY <1>0 DEF Remaining, EffectType
  <2>3. w \in Signal /\ w.id = e.id /\ w.chan = e.chan /\ w.kind # "finished"
    BY <1>0, <2>2 DEF Signal, EffectType
  <2> HIDE DEF w
  <2>4. <<w>> \in Seq(Signal) /\ \A k \in DOMAIN <<w>> : <<w>>[k] = w
    BY <2>3
  <2>5. /\ x \in EffectType /\ x.id = e.id /\ x.chan = e.chan /\ x.out = <<w>>
        /\ x.interrupted = e.interrupted /\ x.phase = "running"
    BY <1>0, <2>1, <2>4 DEF EffectType
  <2> HIDE DEF x
  <2>6. \A k \in DOMAIN x.out : /\ x.out[k].id = x.id /\ x.out[k].chan = x.chan
                                /\ x.out[k].kind # "finished"
    BY <2>3, <2>4, <2>5
  <2>7. Engine([effects EXCEPT ![i] = x], events)
    BY <1>0, <2>1, <2>5, <2>6, ThreadEngine DEF e
  <2> QED
    BY <1>0, <1>1, <2>1, <2>7 DEF CoreInv
<1>4. CASE Post(i)
  <2> DEFINE x == [e EXCEPT !.out = <<>>]
             E == [effects EXCEPT ![i] = x]
  <2>1. e.out # <<>> /\ events' = events \o e.out /\ Thread(i, x)
    BY <1>4 DEF Post, e
  <2>2. /\ x \in EffectType /\ x.id = e.id /\ x.chan = e.chan /\ x.out = <<>>
        /\ x.interrupted = e.interrupted /\ x.phase = e.phase /\ e.out \in Seq(Signal)
    <3>1. <<>> \in Seq(Signal)
      OBVIOUS
    <3> QED
      BY <1>0, <3>1 DEF EffectType
  <2>3. \A k \in DOMAIN events : events[k].kind = "finished" => events[k].id # e.id
    BY <1>0, <2>1, NotFinished DEF e
  <2> HIDE DEF x
  <2>4. \A k \in DOMAIN x.out : /\ x.out[k].id = x.id /\ x.out[k].chan = x.chan
                                /\ x.out[k].kind # "finished"
    BY <2>2
  <2>5. Engine(E, events)
    BY <1>0, <2>2, <2>4, ThreadEngine DEF e
  <2>6. i \in DOMAIN E /\ E[i].id = e.id /\ E[i].chan = e.chan
    BY <2>2
  <2> HIDE DEF E
  <2>7. Engine(E, events \o e.out)
    BY <1>0, <2>2, <2>3, <2>5, <2>6, QueuedEngine
  <2> QED
    BY <1>0, <1>1, <2>1, <2>7 DEF CoreInv, E
<1>5. CASE WrapAbort(i)
  <2> DEFINE x == [e EXCEPT !.interrupted = TRUE]
  <2>1. Thread(i, x) /\ events' = events
    BY <1>5 DEF WrapAbort, e
  <2>2. /\ x \in EffectType /\ x.id = e.id /\ x.chan = e.chan /\ x.out = e.out
        /\ x.interrupted /\ x.phase = e.phase
    BY <1>0 DEF EffectType
  <2> HIDE DEF x
  <2>3. Engine([effects EXCEPT ![i] = x], events)
    BY <1>0, <2>2, ThreadEngine DEF e
  <2> QED
    BY <1>0, <1>1, <2>1, <2>3 DEF CoreInv
<1>6. CASE ScriptEnd(i)
  <2> DEFINE w == [kind |-> "finished", id |-> e.id, chan |-> e.chan, timeout |-> 0]
             x == [e EXCEPT !.phase = "done"]
             E == [effects EXCEPT ![i] = x]
  <2>1. /\ e.phase = "running" /\ e.out = <<>>
        /\ events' = Append(events, w) /\ Thread(i, x)
    BY <1>6 DEF ScriptEnd, e
  <2>2. /\ x \in EffectType /\ x.id = e.id /\ x.chan = e.chan /\ x.out = <<>>
        /\ x.interrupted = e.interrupted /\ x.phase = "done"
    BY <1>0, <2>1 DEF EffectType
  <2>3. w \in Signal /\ w.id = e.id /\ w.chan = e.chan
    BY <1>0 DEF Signal, EffectType
  <2> HIDE DEF x, w
  <2>4. /\ <<w>> \in Seq(Signal) /\ Len(<<w>>) = 1
        /\ \A k \in DOMAIN <<w>> : <<w>>[k] = w /\ k = 1
    BY <2>3
  <2>5. \A k \in DOMAIN events : events[k].kind = "finished" => events[k].id # e.id
    BY <1>0, <2>1, NotFinished DEF e
  <2>6. \A k \in DOMAIN x.out : /\ x.out[k].id = x.id /\ x.out[k].chan = x.chan
                                /\ x.out[k].kind # "finished"
    BY <2>2
  <2>7. Engine(E, events)
    BY <1>0, <2>2, <2>6, ThreadEngine DEF e
  <2>8. i \in DOMAIN E /\ E[i].id = e.id /\ E[i].chan = e.chan /\ E[i].phase = "done"
    BY <2>2
  <2> HIDE DEF E
  <2>9. Engine(E, events \o <<w>>)
    BY <2>3, <2>4, <2>5, <2>7, <2>8, QueuedEngine
  <2>10. Append(events, w) = events \o <<w>>
    BY <1>0, <2>3, AppendIsConcat DEF Engine
  <2> QED
    BY <1>0, <1>1, <2>1, <2>9, <2>10 DEF CoreInv, E
<1> QED
  BY <1>2, <1>3, <1>4, <1>5, <1>6 DEF EffectThread, WrapSet, WrapImageShow

LEMMA NextCoreInv == ASSUME CoreInv, [Next]_vars PROVE CoreInv'
<1>1. CASE UNCHANGED vars
  BY <1>1 DEF vars, CoreInv
<1> QED
  BY <1>1, RequestCoreInv, MainThreadCoreInv, DeliverCoreInv, ThreadCoreInv DEF Next

LEMMA CoreInductive == Spec => []CoreInv
<1> QED
  BY InitCoreInv, NextCoreInv, PTL DEF Spec

(* However requests, restarts and the threads of dying effects interleave, *)
(* at most one effect per channel has not been told to stop.               *)
THEOREM ChannelHasOneOwner == Spec => []OneEffectPerChannel
<1>1. CoreInv => OneEffectPerChannel
  BY DEF CoreInv, Engine, OnePerChannel, OneEffectPerChannel
<1> QED
  BY <1>1, CoreInductive, PTL

(* effectFinished() never deletes an effect that still has a signal in the *)
(* queue: whatever is delivered comes from an effect in _activeEffects.    *)
THEOREM SignalsHaveSenders == Spec => []SenderAlive
<1>1. CoreInv => SenderAlive
  BY DEF CoreInv, Engine, Sent, SenderAlive
<1> QED
  BY <1>1, CoreInductive, PTL
-----------------------------------------------------------------------------
(* What the muxer of a running Hyperion always has: a visible input, and   *)
(* at the bottom the entry that never expires.                             *)
Bottom(m) ==
  /\ LOWEST_PRIORITY \in DOMAIN m.inputs
  /\ m.inputs[LOWEST_PRIORITY].timeout = ENDLESS

CoreMux(m) == MuxerType(m) /\ Bottom(m) /\ m.current \in DOMAIN m.inputs

(* r is m with nothing new: some inputs may be gone, and only that of p    *)
(* may have other data.                                                    *)
Touched(m, r, p) ==
  /\ CoreMux(r)
  /\ DOMAIN r.inputs \subseteq DOMAIN m.inputs
  /\ \A q \in DOMAIN r.inputs : /\ r.inputs[q].comp = m.inputs[q].comp
                                /\ q # p => r.inputs[q] = m.inputs[q]

Untouched(m, r) ==
  /\ CoreMux(r)
  /\ DOMAIN r.inputs \subseteq DOMAIN m.inputs
  /\ \A q \in DOMAIN r.inputs : r.inputs[q] = m.inputs[q]

(* r is m with the channels P registered for comp. *)
Grown(m, r, P, comp) ==
  /\ CoreMux(r)
  /\ r.current = m.current
  /\ DOMAIN r.inputs = DOMAIN m.inputs \union P
  /\ \A q \in DOMAIN m.inputs : /\ r.inputs[q].timeout = m.inputs[q].timeout
                                /\ r.inputs[q].colors  = m.inputs[q].colors
                                /\ r.inputs[q].image   = m.inputs[q].image
                                /\ q \notin P => r.inputs[q] = m.inputs[q]
  /\ \A p \in P : r.inputs[p].comp = comp

(* The JSON schemas ask for 1 .. 253, and the background effect has 254.    *)
(* Proto and boblight clients can send any int: clearInput() then takes     *)
(* another channel than they name, or a client owns LOWEST_PRIORITY.  What  *)
(* follows is about the others.                                             *)
OrdinaryChannels == Priorities \subseteq 0..BG_PRIORITY

LEMMA PrioritiesBelow ==
  ASSUME OrdinaryChannels
  PROVE  \A p \in Priorities : p # LOWEST_PRIORITY /\ ToUint8(p) = p /\ p \in Channels
BY DEF OrdinaryChannels, BG_PRIORITY, LOWEST_PRIORITY, ToUint8, Channels

LEMMA SameUntouched ==
  ASSUME NEW m, CoreMux(m), NEW r, MuxerType(r), SameSelection(m, r)
  PROVE  Untouched(m, r)
BY DEF CoreMux, Bottom, SameSelection, Untouched

LEMMA TimeUntouched ==
  ASSUME NEW m, MuxerType(m), Bottom(m), NEW t
  PROVE  Untouched(m, SetCurrentTime(m, t))
<1> DEFINE r == SetCurrentTime(m, t)
<1>1. /\ MuxerType(r)
      /\ DOMAIN r.inputs = {q \in DOMAIN m.inputs : ~Expired(m.inputs[q], t)}
      /\ \A q \in DOMAIN r.inputs : r.inputs[q] = m.inputs[q]
      /\ r.auto = (m.auto \/ m.manual \notin DOMAIN r.inputs)
      /\ r.manual = m.manual
      /\ r.auto => r.current = Best(r.inputs)
      /\ ~r.auto => r.current = r.manual
  BY SetCurrentTimeFacts
<1> HIDE DEF r
<1>2. Bottom(r)
  BY <1>1 DEF Bottom, Expired, ENDLESS
<1>3. r.current \in DOMAIN r.inputs
  <2>1. CASE r.auto
    BY <1>1, <1>2, <2>1, BestFacts DEF MuxerType, Bottom
  <2>2. CASE ~r.auto
    BY <1>1, <2>2
  <2> QED
    BY <2>1, <2>2
<1> QED
  BY <1>1, <1>2, <1>3 DEF Untouched, CoreMux, r

LEMMA UntouchedTwice ==
  ASSUME NEW m, NEW x, NEW r, Untouched(m, x), Untouched(x, r)
  PROVE  Untouched(m, r)
BY DEF Untouched

LEMMA SignalUntouched ==
  ASSUME NEW m, NEW r, Untouched(m, r)
  PROVE  Untouched(m, PrioritiesChanged(r))
<1>1. CoreMux(r)
  BY DEF Untouched
<1>2. Untouched(r, PrioritiesChanged(r))
  BY <1>1, SignalFacts, SameUntouched DEF CoreMux
<1> QED
  BY <1>2, UntouchedTwice

LEMMA AutoSelectUntouched ==
  ASSUME NEW m, CoreMux(m), NEW enable \in BOOLEAN, NEW t
  PROVE  Untouched(m, SetSourceAutoSelectEnabled(m, enable, t))
<1>1. CASE AutoSelectSucceeds(m, enable)
  <2> DEFINE x == [m EXCEPT !.auto = enable]
             r == SetCurrentTime(x, t)
  <2>1. MuxerType(x) /\ x.inputs = m.inputs
    BY DEF CoreMux, MuxerType
  <2>2. SetSourceAutoSelectEnabled(m, enable, t) = PrioritiesChanged(r)
    BY <1>1 DEF SetSourceAutoSelectEnabled
  <2> HIDE DEF x
  <2>3. Untouched(x, r)
    BY <2>1, TimeUntouched DEF CoreMux, Bottom
  <2> HIDE DEF r
  <2>4. Untouched(m, r)
    BY <2>1, <2>3 DEF Untouched
  <2> QED
    BY <2>2, <2>4, SignalUntouched
<1>2. CASE ~AutoSelectSucceeds(m, enable)
  BY <1>2 DEF SetSourceAutoSelectEnabled, Untouched
<1> QED
  BY <1>1, <1>2

LEMMA SetPriorityUntouched ==
  ASSUME OrdinaryChannels, NEW m, CoreMux(m), NEW p \in Priorities, NEW t
  PROVE  Untouched(m, SetPriority(m, p, t))
<1>1. CASE Has(m, ToUint8(p))
  <2> DEFINE x == [m EXCEPT !.manual = ToUint8(p)]
  <2>1. ToUint8(p) \in 0..NO_MANUAL
    BY PrioritiesBelow DEF OrdinaryChannels, BG_PRIORITY, NO_MANUAL
  <2>2. CoreMux(x) /\ SameSelection([x EXCEPT !.manual = m.manual], m)
    BY <2>1 DEF CoreMux, Bottom, MuxerType, SameSelection
  <2>3. x.inputs = m.inputs
    BY DEF CoreMux, MuxerType
  <2>4. SetPriority(m, p, t) = SetSourceAutoSelectEnabled(x, FALSE, t)
    BY <1>1 DEF SetPriority
  <2> HIDE DEF x
  <2>5. \A enable \in BOOLEAN : Untouched(x, SetSourceAutoSelectEnabled(x, enable, t))
    BY <2>2, AutoSelectUntouched
  <2>6. Untouched(x, SetSourceAutoSelectEnabled(x, FALSE, t))
    BY <2>5
  <2> QED
    BY <2>3, <2>4, <2>6 DEF Untouched
<1>2. CASE ~Has(m, ToUint8(p))
  BY <1>2 DEF SetPriority, Untouched
<1> QED
  BY <1>1, <1>2

(* What is cleared is above the bottom. *)
LEMMA WithoutUntouched ==
  ASSUME NEW m, CoreMux(m), NEW P, LOWEST_PRIORITY \notin P, NEW t
  PROVE  /\ Untouched(m, SetCurrentTime(Without(m, P), t))
         /\ P \cap DOMAIN SetCurrentTime(Without(m, P), t).inputs = {}
<1> DEFINE x == Without(m, P)
           r == SetCurrentTime(x, t)
<1>1. /\ DOMAIN x.inputs = DOMAIN m.inputs \ P
      /\ \A q \in DOMAIN x.inputs : x.inputs[q] = m.inputs[q]
      /\ MuxerType(x)
  BY DEF CoreMux, MuxerType, Without
<1> HIDE DEF x
<1>2. Bottom(x)
  BY <1>1 DEF CoreMux, Bottom
<1>3. Untouched(x, r)
  BY <1>1, <1>2, TimeUntouched
<1> HIDE DEF r
<1>4. Untouched(m, r) /\ P \cap DOMAIN r.inputs = {}
  BY <1>1, <1>3 DEF Untouched
<1> QED
  BY <1>4 DEF r, x

LEMMA ClearInputUntouched ==
  ASSUME NEW m, CoreMux(m), NEW p, NEW t
  PROVE  Untouched(m, ClearInput(m, p, t))
<1>1. CASE Clears(m, p)
  <2> DEFINE r == SetCurrentTime(Without(m, {ToUint8(p)}), t)
  <2>1. LOWEST_PRIORITY \notin {ToUint8(p)}
    BY <1>1 DEF Clears, LOWEST_PRIORITY
  <2>2. ClearInput(m, p, t) = PrioritiesChanged(r)
    BY <1>1 DEF ClearInput
  <2>3. Untouched(m, r)
    BY <2>1, WithoutUntouched
  <2> HIDE DEF r
  <2> QED
    BY <2>2, <2>3, SignalUntouched
<1>2. CASE ~Clears(m, p)
  BY <1>2 DEF ClearInput, Untouched
<1> QED
  BY <1>1, <1>2

LEMMA ClearAllUntouched ==
  ASSUME NEW m, CoreMux(m)
  PROVE  Untouched(m, MuxerClearAll(m))
<1> DEFINE P == {ToUint8(key) : key \in {k \in DOMAIN m.inputs : Clearable(m, k)}}
                  \intersect (DOMAIN m.inputs \ {LOWEST_PRIORITY})
           r == SetCurrentTime(Without(m, P), now)
<1>1. CASE P = {}
  BY <1>1 DEF MuxerClearAll, Untouched
<1>2. CASE P # {}
  <2>1. LOWEST_PRIORITY \notin P
    OBVIOUS
  <2>2. MuxerClearAll(m) = PrioritiesChanged(r)
    BY <1>2 DEF MuxerClearAll
  <2> HIDE DEF P
  <2>3. Untouched(m, r)
    BY <2>1, WithoutUntouched
  <2> HIDE DEF r
  <2> QED
    BY <2>2, <2>3, SignalUntouched
<1> QED
  BY <1>1, <1>2

(* New data for an input. *)
LEMMA ReplaceTouched ==
  ASSUME NEW m, CoreMux(m), NEW p, Has(m, p), p # LOWEST_PRIORITY,
         NEW input \in Input, input.comp = m.inputs[p].comp, NEW t
  PROVE  LET r == ReplaceInput(m, p, input, t)
         IN  Touched(m, r, p) /\ (p \in DOMAIN r.inputs => r.inputs[p] = input)
<1> DEFINE x == [m EXCEPT !.inputs[p] = input]
           s == SetCurrentTime(x, t)
<1>1. /\ DOMAIN x.inputs = DOMAIN m.inputs
      /\ x.inputs[p] = input
      /\ \A q \in DOMAIN m.inputs : q # p => x.inputs[q] = m.inputs[q]
      /\ MuxerType(x)
      /\ x.current = m.current
  BY DEF CoreMux, MuxerType, Has
<1>2. ReplaceInput(m, p, input, t) \in {s, x}
  BY DEF ReplaceInput
<1> HIDE DEF x
<1>3. CoreMux(x)
  BY <1>1 DEF CoreMux, Bottom
<1>4. Untouched(x, s)
  BY <1>3, TimeUntouched DEF CoreMux
<1> HIDE DEF s
<1>5. Touched(m, x, p) /\ Touched(m, s, p)
  BY <1>1, <1>3, <1>4 DEF Touched, Untouched
<1>6. p \in DOMAIN s.inputs => s.inputs[p] = input
  BY <1>1, <1>4 DEF Untouched
<1> QED
  BY <1>1, <1>2, <1>5, <1>6

LEMMA UntouchedTouched ==
  ASSUME NEW m, NEW r, Untouched(m, r), NEW p
  PROVE  Touched(m, r, p)
BY DEF Untouched, Touched

LEMMA SelfUntouched == ASSUME NEW m, CoreMux(m) PROVE Untouched(m, m)
BY DEF Untouched

LEMMA SetInputTouched ==
  ASSUME OrdinaryChannels, NEW m, CoreMux(m), NEW p \in Priorities, NEW frame \in Frames, NEW t \in Nat,
         NEW timeout, FinalTimeout(timeout, t) \in Int
  PROVE  /\ Touched(m, SetInput(m, p, frame, timeout, t), p)
         /\ Touched(m, SetInputImage(m, p, frame, timeout, t), p)
         /\ LET r == SetInputImage(m, p, frame, timeout, t)
            IN  p \in DOMAIN r.inputs => r.inputs[p].timeout = FinalTimeout(timeout, t)
<1> DEFINE final == FinalTimeout(timeout, t)
<1>1. CASE Has(m, p)
  <2> DEFINE i == [m.inputs[p] EXCEPT !.colors = frame, !.timeout = final]
             j == [m.inputs[p] EXCEPT !.image  = frame, !.timeout = final]
  <2>1. SetInput(m, p, frame, timeout, t) = ReplaceInput(m, p, i, t)
    BY <1>1 DEF SetInput
  <2>2. SetInputImage(m, p, frame, timeout, t) = ReplaceInput(m, p, j, t)
    BY <1>1 DEF SetInputImage
  <2>3. final \in Int /\ m.inputs[p] \in Input
    BY <1>1 DEF CoreMux, MuxerType, Has
  <2>4. p # LOWEST_PRIORITY
    BY PrioritiesBelow
  <2> HIDE DEF final
  <2>5. i \in Input /\ i.comp = m.inputs[p].comp /\ j \in Input /\ j.comp = m.inputs[p].comp
        /\ j.timeout = final
    BY <2>3 DEF Input
  <2> HIDE DEF i, j
  <2>6. Touched(m, ReplaceInput(m, p, i, t), p)
    BY <1>1, <2>4, <2>5, ReplaceTouched
  <2> DEFINE r == ReplaceInput(m, p, j, t)
  <2>7. Touched(m, r, p) /\ (p \in DOMAIN r.inputs => r.inputs[p] = j)
    BY <1>1, <2>4, <2>5, ReplaceTouched
  <2> HIDE DEF r
  <2> QED
    BY <2>1, <2>2, <2>5, <2>6, <2>7 DEF r, final
<1>2. CASE ~Has(m, p)
  <2>1. SetInput(m, p, frame, timeout, t) = m /\ SetInputImage(m, p, frame, timeout, t) = m
    BY <1>2 DEF SetInput, SetInputImage
  <2>2. p \notin DOMAIN m.inputs
    BY <1>2 DEF Has
  <2> QED
    BY <2>1, <2>2, SelfUntouched, UntouchedTouched
<1> QED
  BY <1>1, <1>2

LEMMA SetInputInactiveTouched ==
  ASSUME OrdinaryChannels, NEW m, CoreMux(m), NEW p \in Priorities, NEW t \in Nat
  PROVE  LET r == SetInputInactive(m, p, t)
         IN  /\ Touched(m, r, p)
             /\ p \in DOMAIN r.inputs => ~IsActive(r.inputs[p])
<1> DEFINE r == SetInputImage(m, p, NoFrame, INACTIVE, t)
<1>1. SetInputInactive(m, p, t) = r
  BY PrioritiesBelow DEF SetInputInactive
<1>2. FinalTimeout(INACTIVE, t) = INACTIVE /\ INACTIVE \in Int
  BY DEF FinalTimeout, INACTIVE
<1>3. /\ Touched(m, r, p)
      /\ p \in DOMAIN r.inputs => r.inputs[p].timeout = FinalTimeout(INACTIVE, t)
  BY <1>2, FramesAssumption, SetInputTouched
<1> HIDE DEF r
<1>4. ~(INACTIVE >= ENDLESS)
  BY DEF INACTIVE, ENDLESS
<1> QED
  BY <1>1, <1>2, <1>3, <1>4 DEF IsActive

LEMMA RegisterGrown ==
  ASSUME OrdinaryChannels, NEW m, CoreMux(m), NEW p \in Priorities,
         NEW comp \in Components \union {"COLOR"}
  PROVE  Grown(m, RegisterInput(m, p, comp), {p}, comp)
<1> DEFINE r == RegisterInput(m, p, comp)
<1>1. WithChannel(m, r, p, comp)
  BY RegisterInputFacts DEF CoreMux
<1> HIDE DEF r
<1>2. p # LOWEST_PRIORITY
  BY PrioritiesBelow
<1>3. CoreMux(r)
  BY <1>1, <1>2 DEF CoreMux, Bottom, WithChannel
<1> QED
  BY <1>1, <1>3 DEF WithChannel, Has, Grown, r

LEMMA RegisterAllGrown ==
  ASSUME OrdinaryChannels, NEW m, CoreMux(m), NEW P, P \subseteq Priorities
  PROVE  Grown(m, RegisterAll(m, P), P, "EFFECT")
<1> DEFINE new(p) == RegisterInput(m, p, "EFFECT").inputs[p]
           r == RegisterAll(m, P)
<1>1. \A p \in P : /\ new(p) \in Input /\ new(p).comp = "EFFECT"
                   /\ p # LOWEST_PRIORITY /\ p \in Channels
                   /\ p \in DOMAIN m.inputs =>
                        /\ new(p).timeout = m.inputs[p].timeout
                        /\ new(p).colors  = m.inputs[p].colors
                        /\ new(p).image   = m.inputs[p].image
  <2> SUFFICES ASSUME NEW p \in P
               PROVE  /\ new(p) \in Input /\ new(p).comp = "EFFECT"
                      /\ p \in DOMAIN m.inputs =>
                           /\ new(p).timeout = m.inputs[p].timeout
                           /\ new(p).colors  = m.inputs[p].colors
                           /\ new(p).image   = m.inputs[p].image
    BY PrioritiesBelow
  <2> DEFINE x == RegisterInput(m, p, "EFFECT")
  <2>1. Grown(m, x, {p}, "EFFECT")
    BY KindsAssumption, RegisterGrown
  <2> HIDE DEF x
  <2>2. x.inputs[p] \in Input
    BY <2>1 DEF Grown, CoreMux, MuxerType
  <2> QED
    BY <2>1, <2>2 DEF Grown, x
<1> DEFINE all == [q \in DOMAIN m.inputs \union P |-> IF q \in P THEN new(q) ELSE m.inputs[q]]
<1>2. r = [m EXCEPT !.inputs = all]
  BY DEF RegisterAll
<1>3. /\ DOMAIN all = DOMAIN m.inputs \union P
      /\ \A q \in P : all[q] = new(q)
      /\ \A q \in DOMAIN m.inputs : q \notin P => all[q] = m.inputs[q]
  OBVIOUS
<1>4. all \in [DOMAIN m.inputs \union P -> Input]
  BY <1>1 DEF CoreMux, MuxerType
<1> HIDE DEF new, all, r
<1>5. MuxerType(r) /\ r.inputs = all /\ r.current = m.current
  <2>1. DOMAIN all \subseteq Channels
    BY <1>1, <1>3 DEF CoreMux, MuxerType
  <2> QED
    BY <1>2, <1>3, <1>4, <2>1 DEF CoreMux, MuxerType
<1>6. CoreMux(r)
  BY <1>1, <1>3, <1>5 DEF CoreMux, Bottom
<1> QED
  BY <1>1, <1>3, <1>5, <1>6 DEF Grown, r

-----------------------------------------------------------------------------
(* A channel that shows a colour is no running effect's. *)
ColorsFree(m, S) ==
  \A p \in DOMAIN m.inputs :
    m.inputs[p].comp = "COLOR" => \A i \in DOMAIN S : S[i].chan = p => S[i].interrupted

DrawnInv == CoreInv /\ CoreMux(mux) /\ LedsFollow /\ ColorsFree(mux, effects)

(* The effects R are effects of S, some of them told to stop since. *)
Heirs(S, R) ==
  \A i \in DOMAIN R : \E j \in DOMAIN S :
    R[i].chan = S[j].chan /\ (S[j].interrupted => R[i].interrupted)

LEMMA HeirsFree ==
  ASSUME NEW m, NEW S, ColorsFree(m, S), NEW R, Heirs(S, R), NEW r,
         DOMAIN r.inputs \subseteq DOMAIN m.inputs,
         \A q \in DOMAIN r.inputs : r.inputs[q].comp = m.inputs[q].comp
  PROVE  ColorsFree(r, R)
BY DEF ColorsFree, Heirs

LEMMA HeirsTwice ==
  ASSUME NEW S, NEW R, NEW T, Heirs(S, R), Heirs(R, T)
  PROVE  Heirs(S, T)
BY DEF Heirs

LEMMA ToldHeirs ==
  ASSUME NEW S, NEW R, Told(S, R)
  PROVE  Heirs(S, R)
BY DEF Told, Heirs

LEMMA RemovedHeirs ==
  ASSUME NEW S, EffectSeq(S), NEW s \in DOMAIN S
  PROVE  Heirs(S, RemoveAt(S, s))
<1> DEFINE n == Len(S)
           E == RemoveAt(S, s)
<1>1. n \in Nat /\ DOMAIN S = 1..n
  BY EffectSeqDomain
<1> HIDE DEF n
<1>2. /\ DOMAIN E = 1..(n-1)
      /\ \A k \in 1..(n-1) : E[k] = IF k < s THEN S[k] ELSE S[k+1]
  BY <1>1, RemoveAtFacts
<1> HIDE DEF E
<1>3. \A k \in 1..(n-1) : k \in 1..n /\ k + 1 \in 1..n
  BY <1>1
<1>4. \A k \in 1..(n-1) : \E j \in DOMAIN S : E[k] = S[j]
  BY <1>1, <1>2, <1>3
<1> QED
  BY <1>2, <1>4 DEF Heirs, E

Pixels(input) == IF input.image # NoFrame THEN input.image ELSE input.colors

LEMMA CoreContent ==
  ASSUME NEW m, CoreMux(m)
  PROVE  /\ GetInputInfo(m, m.current) = m.inputs[m.current]
         /\ Content(m) = Pixels(m.inputs[m.current])
<1>1. GetInputInfo(m, m.current) = m.inputs[m.current]
  BY DEF GetInputInfo, Has, CoreMux
<1> QED
  BY <1>1 DEF Content, Pixels

(* Hyperion writes the leds whenever another input becomes visible, so     *)
(* they follow if it also does so when new data reaches the visible one.   *)
LEMMA HandledFollows ==
  ASSUME CoreMux(mux), LedsFollow, NEW c, NEW updates, Handled(c, updates), CoreMux(c.mux),
         LET k == c.mux.current
         IN  k = mux.current /\ ~updates
               => \/ ~IsActive(c.mux.inputs[k])
                  \/ /\ c.mux.inputs[k].timeout = mux.inputs[k].timeout
                     /\ c.mux.inputs[k].colors  = mux.inputs[k].colors
                     /\ c.mux.inputs[k].image   = mux.inputs[k].image
  PROVE  CoreMux(mux)' /\ LedsFollow' /\ mux'.inputs = c.mux.inputs
<1> DEFINE k == c.mux.current
           m == c.mux
<1>1. /\ mux'.inputs = m.inputs /\ mux'.current = k
      /\ CoreMux(mux')
  <2> DEFINE list == Listing(m)
  <2>1. mux' = [m EXCEPT !.blocked = FALSE, !.pending = FALSE, !.listed = list]
    BY DEF Handled, Unheard
  <2> HIDE DEF list
  <2>2. mux' = [inputs |-> m.inputs, current |-> m.current, manual |-> m.manual,
                auto |-> m.auto, blocked |-> FALSE, pending |-> FALSE, shown |-> m.shown,
                listed |-> list]
    BY <2>1 DEF CoreMux, MuxerType
  <2> QED
    BY <2>2 DEF CoreMux, MuxerType, Bottom
<1>2. leds' = IF updates \/ k # mux.current THEN Content(m) ELSE leds
  BY DEF Handled
<1>3. /\ Content(m) = Pixels(m.inputs[k])
      /\ Content(mux) = Pixels(mux.inputs[mux.current])
      /\ Content(mux') = Pixels(m.inputs[k])
      /\ GetInputInfo(mux, mux.current) = mux.inputs[mux.current]
      /\ GetInputInfo(mux', mux'.current) = m.inputs[k]
  BY <1>1, CoreContent
<1>4. leds = Pixels(mux.inputs[mux.current]) \/ ~IsActive(mux.inputs[mux.current])
  BY <1>3 DEF LedsFollow
<1>5. leds' = Pixels(m.inputs[k]) \/ ~IsActive(m.inputs[k])
  <2>1. CASE updates \/ k # mux.current
    BY <1>2, <1>3, <2>1
  <2>2. CASE ~updates /\ k = mux.current /\ IsActive(m.inputs[k])
    <3>1. /\ m.inputs[k].timeout = mux.inputs[k].timeout
          /\ m.inputs[k].colors  = mux.inputs[k].colors
          /\ m.inputs[k].image   = mux.inputs[k].image
      BY <2>2
    <3>2. leds' = leds
      BY <1>2, <2>2
    <3> QED
      BY <1>4, <2>2, <3>1, <3>2 DEF Pixels, IsActive
  <2> QED
    BY <2>1, <2>2
<1> QED
  BY <1>1, <1>3, <1>5 DEF LedsFollow

(* A handler that only changes the data of p. *)
LEMMA TouchedDrawn ==
  ASSUME DrawnInv, NEW c, NEW updates, Handled(c, updates), NEW p,
         Touched(mux, c.mux, p), Heirs(effects, c.effects),
         c.mux.current = p => updates \/ ~IsActive(c.mux.inputs[p])
  PROVE  (CoreMux(mux) /\ LedsFollow /\ ColorsFree(mux, effects))'
<1>1. CoreMux(c.mux)
  BY DEF Touched
<1>2. CoreMux(mux)' /\ LedsFollow' /\ mux'.inputs = c.mux.inputs
  <2> DEFINE k == c.mux.current
  <2>1. k = mux.current /\ ~updates
          => ~IsActive(c.mux.inputs[k]) \/ c.mux.inputs[k] = mux.inputs[k]
    BY DEF Touched, CoreMux
  <2> QED
    BY <1>1, <2>1, HandledFollows DEF DrawnInv
<1>3. effects' = c.effects
  BY DEF Handled
<1>4. ColorsFree(mux', c.effects)
  BY <1>2, HeirsFree DEF Touched, DrawnInv
<1> QED
  BY <1>2, <1>3, <1>4

(* A handler that registers channels for anything but colours, and starts  *)
(* effects on them only.                                                   *)
LEMMA GrownDrawn ==
  ASSUME DrawnInv, NEW c, NEW updates, Handled(c, updates), NEW P, NEW comp,
         Grown(mux, c.mux, P, comp), ColorsFree(c.mux, c.effects)
  PROVE  (CoreMux(mux) /\ LedsFollow /\ ColorsFree(mux, effects))'
<1>1. CoreMux(c.mux)
  BY DEF Grown
<1>2. CoreMux(mux)' /\ LedsFollow' /\ mux'.inputs = c.mux.inputs
  <2>1. mux.current \in DOMAIN mux.inputs
    BY DEF DrawnInv, CoreMux
  <2> QED
    BY <1>1, <2>1, HandledFollows DEF DrawnInv, Grown
<1>3. effects' = c.effects
  BY DEF Handled
<1> QED
  BY <1>2, <1>3 DEF ColorsFree

(* A handler that leaves all data alone. *)
LEMMA UntouchedDrawn ==
  ASSUME DrawnInv, NEW c, NEW updates, Handled(c, updates),
         Untouched(mux, c.mux), Heirs(effects, c.effects)
  PROVE  (CoreMux(mux) /\ LedsFollow /\ ColorsFree(mux, effects))'
<1>1. CoreMux(c.mux)
  BY DEF Untouched
<1>2. CoreMux(mux)' /\ LedsFollow' /\ mux'.inputs = c.mux.inputs
  <2>1. c.mux.inputs[c.mux.current] = mux.inputs[c.mux.current]
    BY <1>1 DEF Untouched, CoreMux
  <2> QED
    BY <1>1, <2>1, HandledFollows DEF DrawnInv
<1>3. effects' = c.effects
  BY DEF Handled
<1>4. ColorsFree(mux', c.effects)
  BY <1>2, HeirsFree DEF Untouched, DrawnInv
<1> QED
  BY <1>2, <1>3, <1>4

LEMMA CoreSeq ==
  ASSUME DrawnInv
  PROVE  /\ effects \in Seq(EffectType) /\ Told(effects, effects)
         /\ Heirs(effects, effects)
         /\ \A p : /\ Told(effects, ChannelCleared(effects, p))
                   /\ Heirs(effects, ChannelCleared(effects, p))
         /\ now \in Nat /\ CoreMux(mux)
<1>1. effects \in Seq(EffectType) /\ now \in Nat /\ CoreMux(mux)
  BY DEF DrawnInv, CoreInv, Engine, EffectSeq
<1> QED
  BY <1>1, ClearedTold, ToldHeirs

LEMMA OnlyMuxerHandled ==
  ASSUME NEW m, OnlyMuxer(m)
  PROVE  /\ Handled([mux |-> m, effects |-> effects], FALSE)
         /\ [mux |-> m, effects |-> effects].mux = m
         /\ [mux |-> m, effects |-> effects].effects = effects
<1>1. [Core EXCEPT !.mux = m] = [mux |-> m, effects |-> effects]
  BY DEF Core
<1> QED
  BY <1>1 DEF OnlyMuxer

LEMMA OnlyMuxerDrawn ==
  ASSUME DrawnInv, NEW m, OnlyMuxer(m), Untouched(mux, m)
  PROVE  (CoreMux(mux) /\ LedsFollow /\ ColorsFree(mux, effects))'
BY OnlyMuxerHandled, CoreSeq, UntouchedDrawn

(* Hyperion::setInput() and setInputImage() *)
LEMMA HyperionSetInputTouched ==
  ASSUME OrdinaryChannels, NEW c, CoreMux(c.mux), c.effects \in Seq(EffectType), now \in Nat,
         NEW kind, NEW p \in Priorities, NEW frame \in Frames, NEW timeout \in Int,
         NEW b \in BOOLEAN
  PROVE  LET d == HyperionSetInput(c, kind, p, frame, timeout, b)
         IN  Touched(c.mux, d.mux, p) /\ Told(c.effects, d.effects)
<1>1. FinalTimeout(timeout, now) \in Int
  BY DEF FinalTimeout
<1>2. CASE Has(c.mux, p)
  <2> DEFINE d == HyperionSetInput(c, kind, p, frame, timeout, b)
  <2>1. d.mux = IF kind = "image" THEN SetInputImage(c.mux, p, frame, timeout, now)
                                  ELSE SetInput(c.mux, p, frame, timeout, now)
    BY <1>2 DEF HyperionSetInput
  <2>2. d.effects = IF b THEN ChannelCleared(c.effects, p) ELSE c.effects
    BY <1>2 DEF HyperionSetInput
  <2> HIDE DEF d
  <2>3. Touched(c.mux, d.mux, p)
    <3>1. /\ Touched(c.mux, SetInput(c.mux, p, frame, timeout, now), p)
          /\ Touched(c.mux, SetInputImage(c.mux, p, frame, timeout, now), p)
      BY <1>1, SetInputTouched
    <3> QED
      BY <2>1, <3>1
  <2>4. Told(c.effects, d.effects)
    BY <2>2, ClearedTold
  <2> QED
    BY <2>3, <2>4 DEF d
<1>3. CASE ~Has(c.mux, p)
  <2>1. HyperionSetInput(c, kind, p, frame, timeout, b) = c
    BY <1>3 DEF HyperionSetInput
  <2> QED
    BY <2>1, SelfUntouched, UntouchedTouched, ClearedTold
<1> QED
  BY <1>2, <1>3

LEMMA SetEffectDrawn ==
  ASSUME OrdinaryChannels, DrawnInv, NEW p \in Priorities, NEW timeout \in Int, SetEffect(p, timeout)
  PROVE  (CoreMux(mux) /\ LedsFollow /\ ColorsFree(mux, effects))'
<1> DEFINE R == ChannelCleared(effects, p)
           e == Effect(Least(Ids \ IdsOf(effects)), p, timeout)
           c == RunEffectScript(Core, p, timeout)
<1>1. Handled(c, FALSE) /\ c.mux = RegisterInput(mux, p, "EFFECT") /\ c.effects = Append(R, e)
  BY DEF SetEffect, RunEffectScript, Core
<1>2. e \in EffectType /\ e.chan = p
  BY FreshId DEF SetEffect, Effect, EffectType
<1> HIDE DEF c, R, e
<1>3. Grown(mux, c.mux, {p}, "EFFECT")
  BY <1>1, KindsAssumption, RegisterGrown, CoreSeq
<1>4. R \in Seq(EffectType) /\ Heirs(effects, R)
  BY CoreSeq DEF R, Told
<1>5. \A i \in DOMAIN c.effects : c.effects[i] = e \/ (i \in DOMAIN R /\ c.effects[i] = R[i])
  <2> DEFINE n == Len(R)
  <2>1. DOMAIN c.effects = 1..(n+1) /\ DOMAIN R = 1..n /\ n \in Nat
    BY <1>1, <1>2, <1>4, AppendProperties
  <2>2. c.effects[n+1] = e /\ \A i \in 1..n : c.effects[i] = R[i]
    BY <1>1, <1>2, <1>4, AppendProperties
  <2> HIDE DEF n
  <2>3. \A i \in 1..(n+1) : i = n + 1 \/ i \in 1..n
    BY <2>1
  <2> QED
    BY <2>1, <2>2, <2>3
<1>6. ColorsFree(c.mux, c.effects)
  <2> SUFFICES ASSUME NEW q \in DOMAIN c.mux.inputs, c.mux.inputs[q].comp = "COLOR",
                      NEW i \in DOMAIN c.effects, c.effects[i].chan = q
               PROVE  c.effects[i].interrupted
    BY DEF ColorsFree
  <2>1. q # p
    BY <1>3 DEF Grown
  <2>2. q \in DOMAIN mux.inputs /\ mux.inputs[q].comp = "COLOR"
    BY <1>3, <2>1 DEF Grown
  <2>3. i \in DOMAIN R /\ c.effects[i] = R[i]
    BY <1>1, <1>2, <1>5, <2>1
  <2> QED
    BY <1>4, <2>2, <2>3 DEF DrawnInv, ColorsFree, Heirs
<1> QED
  BY <1>1, <1>3, <1>6, GrownDrawn

LEMMA SetColorDrawn ==
  ASSUME OrdinaryChannels, DrawnInv, NEW p \in Priorities, NEW timeout \in Int, SetColor(p, timeout)
  PROVE  (CoreMux(mux) /\ LedsFollow /\ ColorsFree(mux, effects))'
<1> DEFINE R == ChannelCleared(effects, p)
           x == RegisterInput(mux, p, "COLOR")
           d == [Core EXCEPT !.effects = R, !.mux = x]
           c == HyperionSetInput(d, "colors", p, ClientFrame, timeout, TRUE)
<1>1. Handled(c, c.mux.current = p)
  BY DEF SetColor
<1>2. d.effects = R /\ d.mux = x
  BY DEF Core
<1> HIDE DEF d
<1>3. /\ Told(effects, R) /\ R \in Seq(EffectType)
      /\ \A i \in DOMAIN effects : effects[i].chan = p => R[i].interrupted
  BY CoreSeq, ClearedTold DEF Told
<1> HIDE DEF R
<1>4. Grown(mux, x, {p}, "COLOR")
  BY RegisterGrown, CoreSeq
<1> HIDE DEF x
<1>5. CoreMux(x)
  BY <1>4 DEF Grown
<1>6. Touched(x, c.mux, p) /\ Told(R, c.effects)
  <2>1. ClientFrame \in Frames
    BY ClientAssumption
  <2>2. \A b \in BOOLEAN :
          LET r == HyperionSetInput(d, "colors", p, ClientFrame, timeout, b)
          IN  Touched(d.mux, r.mux, p) /\ Told(d.effects, r.effects)
    BY <1>2, <1>3, <1>5, <2>1, CoreSeq, HyperionSetInputTouched
  <2>3. TRUE \in BOOLEAN
    OBVIOUS
  <2>4. Touched(d.mux, c.mux, p) /\ Told(d.effects, c.effects)
    BY <2>2, <2>3, Zenon
  <2> QED
    BY <1>2, <2>4
<1> HIDE DEF c
<1>7. CoreMux(c.mux)
  BY <1>6 DEF Touched
<1>8. CoreMux(mux)' /\ LedsFollow' /\ mux'.inputs = c.mux.inputs
  <2> DEFINE k == c.mux.current
  <2>1. ASSUME k = mux.current, ~(k = p) PROVE c.mux.inputs[k] = mux.inputs[k]
    <3>1. k \in DOMAIN c.mux.inputs /\ k \in DOMAIN mux.inputs
      BY <1>7, <2>1, CoreSeq DEF CoreMux
    <3> QED
      BY <1>4, <1>6, <2>1, <3>1 DEF Touched, Grown
  <2> QED
    BY <1>1, <1>7, <2>1, HandledFollows DEF DrawnInv
<1>9. effects' = c.effects
  BY <1>1 DEF Handled
<1>10. ColorsFree(c.mux, c.effects)
  <2> SUFFICES ASSUME NEW q \in DOMAIN c.mux.inputs, c.mux.inputs[q].comp = "COLOR",
                      NEW i \in DOMAIN c.effects, c.effects[i].chan = q
               PROVE  c.effects[i].interrupted
    BY DEF ColorsFree
  <2>1. /\ i \in DOMAIN effects /\ effects[i].chan = q
        /\ R[i].interrupted => c.effects[i].interrupted
        /\ effects[i].interrupted => R[i].interrupted
    BY <1>3, <1>6 DEF Told
  <2>2. CASE q = p
    BY <1>3, <2>1, <2>2
  <2>3. CASE q # p
    <3>1. q \in DOMAIN mux.inputs /\ mux.inputs[q].comp = "COLOR"
      BY <1>4, <1>6, <2>3 DEF Touched, Grown
    <3> QED
      BY <2>1, <3>1 DEF DrawnInv, ColorsFree
  <2> QED
    BY <2>2, <2>3
<1> QED
  BY <1>8, <1>9, <1>10 DEF ColorsFree

LEMMA RequestDrawn ==
  ASSUME OrdinaryChannels, DrawnInv, NEW p \in Priorities, Request(p)
  PROVE  (CoreMux(mux) /\ LedsFollow /\ ColorsFree(mux, effects))'
<1> USE CoreSeq
<1>1. ASSUME NEW timeout \in Timeouts \ {INACTIVE}, SetEffect(p, timeout) \/ SetColor(p, timeout)
      PROVE  (CoreMux(mux) /\ LedsFollow /\ ColorsFree(mux, effects))'
  <2>1. timeout \in Int
    BY TimeoutsAssumption
  <2> QED
    BY <1>1, <2>1, SetEffectDrawn, SetColorDrawn
<1>2. ASSUME NEW timeout \in Timeouts \ {INACTIVE}, NEW kind \in {"colors", "image"},
             ClientInput(kind, p, timeout)
      PROVE  (CoreMux(mux) /\ LedsFollow /\ ColorsFree(mux, effects))'
  <2> DEFINE c == HyperionSetInput(Core, kind, p, ClientFrame, timeout, TRUE)
  <2>1. timeout \in Int /\ ClientFrame \in Frames
    BY TimeoutsAssumption, ClientAssumption
  <2>2. Core.mux = mux /\ Core.effects = effects
    BY DEF Core
  <2>3. \A b \in BOOLEAN :
          LET r == HyperionSetInput(Core, kind, p, ClientFrame, timeout, b)
          IN  Touched(Core.mux, r.mux, p) /\ Told(Core.effects, r.effects)
    BY <2>1, <2>2, HyperionSetInputTouched
  <2>4. TRUE \in BOOLEAN
    OBVIOUS
  <2>5. Touched(Core.mux, c.mux, p) /\ Told(Core.effects, c.effects)
    BY <2>3, <2>4, Zenon
  <2>6. Handled(c, Has(mux, p) /\ c.mux.current = p)
    BY <1>2 DEF ClientInput
  <2> HIDE DEF c
  <2>7. Touched(mux, c.mux, p) /\ Heirs(effects, c.effects)
    BY <2>2, <2>5, ToldHeirs
  <2>8. c.mux.current = p => Has(mux, p) /\ c.mux.current = p
    BY <2>7 DEF Touched, CoreMux, Has
  <2> QED
    BY <2>6, <2>7, <2>8, TouchedDrawn
<1>3. CASE ClientRegister(p)
  <2> DEFINE m == RegisterInput(mux, p, "OTHER")
             c == [mux |-> m, effects |-> effects]
  <2>1. Grown(mux, m, {p}, "OTHER")
    BY KindsAssumption, RegisterGrown
  <2>2. Handled(c, FALSE) /\ c.mux = m /\ c.effects = effects
    BY <1>3, OnlyMuxerHandled DEF ClientRegister
  <2> HIDE DEF m, c
  <2>3. ColorsFree(c.mux, c.effects)
    BY <2>1, <2>2 DEF DrawnInv, ColorsFree, Grown
  <2> QED
    BY <2>1, <2>2, <2>3, GrownDrawn
<1>4. CASE ClientInactive(p)
  <2> DEFINE m == SetInputInactive(mux, p, now)
             c == [mux |-> m, effects |-> effects]
  <2>1. Touched(mux, m, p) /\ (p \in DOMAIN m.inputs => ~IsActive(m.inputs[p]))
    BY SetInputInactiveTouched
  <2>2. Handled(c, FALSE) /\ c.mux = m /\ c.effects = effects
    BY <1>4, OnlyMuxerHandled DEF ClientInactive
  <2> HIDE DEF m, c
  <2>3. c.mux.current = p => ~IsActive(c.mux.inputs[p])
    BY <2>1, <2>2 DEF Touched, CoreMux
  <2> QED
    BY <2>1, <2>2, <2>3, TouchedDrawn
<1>5. CASE Clear(p)
  <2> DEFINE c == HyperionClear(Core, p)
  <2>1. c.mux = ClearInput(mux, p, now) /\ c.effects = ChannelCleared(effects, p)
    BY DEF HyperionClear, Core
  <2>2. Handled(c, FALSE)
    BY <1>5 DEF Clear
  <2> HIDE DEF c
  <2> QED
    BY <2>1, <2>2, ClearInputUntouched, UntouchedDrawn
<1>6. CASE SetCurrentSourcePriority(p)
  BY <1>6, SetPriorityUntouched, OnlyMuxerDrawn DEF SetCurrentSourcePriority
<1> QED
  BY <1>1, <1>2, <1>3, <1>4, <1>5, <1>6 DEF Request

LEMMA RestartDrawn ==
  ASSUME OrdinaryChannels, DrawnInv, LayoutChanged
  PROVE  (CoreMux(mux) /\ LedsFollow /\ ColorsFree(mux, effects))'
<1>1. PICK fresh \in Injection(DOMAIN effects, Ids \ IdsOf(effects)) :
        Handled(RestartEffects(Core, fresh), TRUE)
  BY DEF LayoutChanged
<1> DEFINE P == {effects[i].chan : i \in DOMAIN effects}
           R == AllInterrupted(effects)
           N == Successors(effects, fresh)
           c == RestartEffects(Core, fresh)
           n == Len(effects)
<1>2. c.mux = RegisterAll(mux, P) /\ c.effects = R \o N
  BY DEF RestartEffects, Core
<1>3. effects \in Seq(EffectType) /\ n \in Nat /\ DOMAIN effects = 1..n /\ CoreMux(mux)
  BY CoreSeq
<1>4. EffectSeq(R) /\ DOMAIN R = 1..n /\ \A i \in 1..n : R[i].chan = effects[i].chan
  BY <1>3, ClearedTold DEF Told, EffectSeq
<1>5. EffectSeq(N) /\ DOMAIN N = 1..n /\ \A i \in 1..n : N[i].chan = effects[i].chan
  BY <1>3, SuccessorsFacts DEF EffectSeq
<1>6. P \subseteq Priorities
  <2>1. \A i \in DOMAIN effects : effects[i] \in EffectType
    BY <1>3
  <2> QED
    BY <2>1 DEF EffectType
<1>7. \A i \in 1..n : effects[i].chan \in P
  BY <1>3
<1> HIDE DEF c, R, N, n, P
<1>8. Grown(mux, c.mux, P, "EFFECT")
  BY <1>2, <1>3, <1>6, RegisterAllGrown
<1>9. DOMAIN c.effects = 1..(n+n) /\ \A i \in 1..n : c.effects[i] = R[i] /\ c.effects[n+i] = N[i]
  <2> DEFINE E == R \o N
  <2>0. E = R \o N
    OBVIOUS
  <2> HIDE DEF E
  <2>1. EffectSeq(E) /\ DOMAIN E = 1..(n+n)
    <3>1. EffectSeq(R) /\ EffectSeq(N) /\ n \in Nat /\ DOMAIN R = 1..n /\ DOMAIN N = 1..n
      BY <1>3, <1>4, <1>5
    <3> QED
      BY <2>0, <3>1, ConcatFacts
  <2>2. ASSUME NEW i \in 1..n PROVE c.effects[i] = R[i] /\ c.effects[n+i] = N[i]
    BY <1>2, <1>3, <1>4, <1>5, ConcatElements
  <2> QED
    BY <1>2, <2>0, <2>1, <2>2
<1>10. \A i \in 1..(n+n) : i \in 1..n \/ (i - n \in 1..n /\ n + (i - n) = i)
  BY <1>3
<1>11. \A i \in DOMAIN c.effects : c.effects[i].chan \in P
  <2> SUFFICES ASSUME NEW i \in 1..(n+n) PROVE c.effects[i].chan \in P
    BY <1>9
  <2>1. CASE i \in 1..n
    BY <1>4, <1>7, <1>9, <2>1
  <2>2. CASE i - n \in 1..n /\ n + (i - n) = i
    <3>1. c.effects[n + (i - n)] = N[i - n]
      BY <1>9, <2>2
    <3> QED
      BY <1>5, <1>7, <2>2, <3>1
  <2> QED
    BY <1>10, <2>1, <2>2
<1>12. ColorsFree(c.mux, c.effects)
  BY <1>8, <1>11 DEF ColorsFree, Grown
<1>13. Handled(c, TRUE)
  BY <1>1 DEF c
<1> QED
  BY <1>8, <1>12, <1>13, GrownDrawn

LEMMA MainThreadDrawn ==
  ASSUME OrdinaryChannels, DrawnInv,
         \/ ClearAll \/ (\E enable \in BOOLEAN : AutoSelect(enable)) \/ LayoutChanged
         \/ UpdateTimeout \/ Tick
  PROVE  (CoreMux(mux) /\ LedsFollow /\ ColorsFree(mux, effects))'
<1> USE CoreSeq
<1>1. CASE ClearAll
  <2> DEFINE R == AllChannelsCleared(effects)
             m == MuxerClearAll(mux)
             c == [mux |-> m, effects |-> R]
  <2>1. Handled(c, FALSE) /\ c.mux = m /\ c.effects = R
    BY <1>1 DEF ClearAll
  <2>2. Heirs(effects, R)
    BY ClearedTold, ToldHeirs
  <2>3. Untouched(mux, m)
    BY ClearAllUntouched
  <2> HIDE DEF m, R, c
  <2> QED
    BY <2>1, <2>2, <2>3, UntouchedDrawn
<1>2. ASSUME NEW enable \in BOOLEAN, AutoSelect(enable)
      PROVE  (CoreMux(mux) /\ LedsFollow /\ ColorsFree(mux, effects))'
  <2> DEFINE m == SetSourceAutoSelectEnabled(mux, enable, now)
             b == AutoSelectSucceeds(mux, enable)
             c == [Core EXCEPT !.mux = m]
  <2>1. Handled(c, b) /\ c.mux = m /\ c.effects = effects
    BY <1>2 DEF AutoSelect, Core
  <2>2. Untouched(mux, m)
    BY AutoSelectUntouched
  <2> HIDE DEF m, b, c
  <2> QED
    BY <2>1, <2>2, UntouchedDrawn
<1>3. CASE LayoutChanged
  BY <1>3, RestartDrawn
<1>4. CASE UpdateTimeout
  <2>1. Untouched(mux, SetCurrentTime(mux, now))
    BY TimeUntouched DEF CoreMux
  <2> QED
    BY <1>4, <2>1, OnlyMuxerDrawn DEF UpdateTimeout
<1>5. CASE Tick
  BY <1>5 DEF Tick, DrawnInv, CoreMux, Bottom, MuxerType, LedsFollow, ColorsFree
<1> QED
  BY <1>1, <1>2, <1>3, <1>4, <1>5

(* A signal in the queue is its sender's, and has a type. *)
LEMMA NextSignal ==
  ASSUME CoreInv, events # <<>>
  PROVE  /\ Head(events) \in Signal
         /\ Sender \in DOMAIN effects
         /\ effects[Sender].id = Head(events).id
         /\ effects[Sender].chan = Head(events).chan
<1>1. Engine(effects, events) /\ events \in Seq(Signal)
  BY DEF CoreInv, Engine
<1>2. Head(events) = events[1] /\ 1 \in DOMAIN events
  BY <1>1, TailFacts
<1>3. Head(events) \in Signal
  BY <1>1, <1>2
<1>4. PICK i \in DOMAIN effects : /\ effects[i].id = Head(events).id
                                  /\ effects[i].chan = Head(events).chan
  BY <1>1, <1>2 DEF Engine, Sent
<1>5. Sender \in DOMAIN effects /\ effects[Sender].id = Head(events).id
  BY <1>4 DEF Sender
<1>6. Sender = i
  BY <1>1, <1>4, <1>5 DEF Engine, Distinct
<1> QED
  BY <1>3, <1>4, <1>5, <1>6

LEMMA FrameTouched ==
  ASSUME OrdinaryChannels, DrawnInv, DeliverFrame
  PROVE  LET ev == Head(events)
             c  == HyperionSetInput(Core, ev.kind, ev.chan, ev.id, ev.timeout, FALSE)
         IN  /\ Handled(c, Has(mux, ev.chan) /\ c.mux.current = ev.chan)
             /\ Touched(mux, c.mux, ev.chan)
             /\ Heirs(effects, c.effects)
<1> DEFINE ev == Head(events)
           c  == HyperionSetInput(Core, ev.kind, ev.chan, ev.id, ev.timeout, FALSE)
<1>1. Handled(c, Has(mux, ev.chan) /\ c.mux.current = ev.chan) /\ events # <<>>
  BY DEF DeliverFrame
<1>2. ev \in Signal
  BY <1>1, NextSignal DEF DrawnInv
<1>3. ev.chan \in Priorities /\ ev.id \in Frames /\ ev.timeout \in Int
  BY <1>2, IdsAssumption DEF Signal
<1> HIDE DEF ev
<1>4. Core.mux = mux /\ Core.effects = effects
  BY DEF Core
<1>5. \A b \in BOOLEAN :
        LET r == HyperionSetInput(Core, ev.kind, ev.chan, ev.id, ev.timeout, b)
        IN  Touched(Core.mux, r.mux, ev.chan) /\ Told(Core.effects, r.effects)
  BY <1>3, <1>4, CoreSeq, HyperionSetInputTouched
<1>6. FALSE \in BOOLEAN
  OBVIOUS
<1>7. Touched(Core.mux, c.mux, ev.chan) /\ Told(Core.effects, c.effects)
  BY <1>5, <1>6, Zenon
<1> HIDE DEF c
<1>8. Heirs(effects, c.effects)
  BY <1>4, <1>7, ToldHeirs
<1> QED
  BY <1>1, <1>4, <1>7, <1>8 DEF ev, c

(* What a finished effect leaves. *)
LEMMA FinishedUntouched ==
  ASSUME DrawnInv, DeliverFinished
  PROVE  LET e == effects[Sender]
             c == IF e.interrupted THEN Core ELSE HyperionClear(Core, e.chan)
             d == [c EXCEPT !.effects = RemoveAt(c.effects, Sender)]
         IN  /\ Handled(d, FALSE)
             /\ Untouched(mux, d.mux)
             /\ Heirs(effects, d.effects)
             /\ d.mux = IF e.interrupted THEN mux ELSE ClearInput(mux, e.chan, now)
<1> DEFINE s == Sender
           e == effects[s]
           c == IF e.interrupted THEN Core ELSE HyperionClear(Core, e.chan)
           d == [c EXCEPT !.effects = RemoveAt(c.effects, s)]
<1>1. Handled(d, FALSE) /\ events # <<>>
  BY DEF DeliverFinished
<1>2. s \in DOMAIN effects
  BY <1>1, NextSignal DEF DrawnInv
<1>3. /\ d.mux = c.mux /\ d.effects = RemoveAt(c.effects, s)
      /\ c.mux = IF e.interrupted THEN mux ELSE ClearInput(mux, e.chan, now)
      /\ c.effects = IF e.interrupted THEN effects ELSE ChannelCleared(effects, e.chan)
  BY DEF HyperionClear, Core
<1> HIDE DEF s, e, c, d
<1>4. Told(effects, c.effects)
  BY <1>3, CoreSeq
<1>5. Heirs(effects, d.effects)
  <2>1. EffectSeq(c.effects) /\ s \in DOMAIN c.effects
    BY <1>2, <1>4 DEF Told, EffectSeq
  <2>2. Heirs(c.effects, RemoveAt(c.effects, s))
    BY <2>1, RemovedHeirs
  <2> QED
    BY <1>3, <1>4, <2>2, ToldHeirs, HeirsTwice
<1>6. Untouched(mux, d.mux)
  BY <1>3, CoreSeq, ClearInputUntouched, SelfUntouched
<1> QED
  BY <1>1, <1>3, <1>5, <1>6 DEF s, e, c, d

LEMMA DeliverDrawn ==
  ASSUME OrdinaryChannels, DrawnInv, DeliverFrame \/ DeliverFinished
  PROVE  (CoreMux(mux) /\ LedsFollow /\ ColorsFree(mux, effects))'
<1>1. CASE DeliverFrame
  <2> DEFINE p == Head(events).chan
             c == HyperionSetInput(Core, Head(events).kind, p, Head(events).id,
                                   Head(events).timeout, FALSE)
  <2>1. /\ Handled(c, Has(mux, p) /\ c.mux.current = p)
        /\ Touched(mux, c.mux, p)
        /\ Heirs(effects, c.effects)
    BY <1>1, FrameTouched
  <2> HIDE DEF c, p
  <2>2. c.mux.current = p => Has(mux, p) /\ c.mux.current = p
    BY <2>1 DEF Touched, CoreMux, Has
  <2> QED
    BY <2>1, <2>2, TouchedDrawn
<1>2. CASE DeliverFinished
  BY <1>2, FinishedUntouched, UntouchedDrawn
<1> QED
  BY <1>1, <1>2

LEMMA ThreadDrawn ==
  ASSUME DrawnInv, NEW i \in DOMAIN effects, EffectThread(i)
  PROVE  (CoreMux(mux) /\ LedsFollow /\ ColorsFree(mux, effects))'
<1>0. \A j \in DOMAIN effects : effects[j] \in EffectType
  BY CoreSeq
<1>1. mux' = mux /\ leds' = leds
  BY DEF EffectThread, ScriptStart, WrapSet, WrapImageShow, Compose, Post, WrapAbort,
         ScriptEnd, Thread
<1> DEFINE x == effects[i]
           Same(e) == effects' = [effects EXCEPT ![i] = e]
                      /\ e.chan = x.chan /\ (x.interrupted => e.interrupted)
<1>2. \E e : Same(e)
  <2>0. x \in EffectType
    BY <1>0
  <2>1. CASE ScriptStart(i)
    <3> DEFINE end == IF x.timeout > 0 THEN now + x.timeout ELSE -1
               e   == [x EXCEPT !.phase = "running", !.end = end]
    <3>1. effects' = [effects EXCEPT ![i] = e]
      BY <2>1 DEF ScriptStart, Thread
    <3> HIDE DEF x, end
    <3>2. e.chan = x.chan /\ e.interrupted = x.interrupted
      BY <2>0 DEF EffectType
    <3> QED
      BY <3>1, <3>2 DEF x
  <2>2. ASSUME NEW kind, Compose(i, kind) PROVE \E e : Same(e)
    <3> DEFINE w == <<[kind |-> kind, id |-> x.id, chan |-> x.chan, timeout |-> Remaining(x)]>>
               e == [x EXCEPT !.out = w]
    <3>1. effects' = [effects EXCEPT ![i] = e]
      BY <2>2 DEF Compose, Thread
    <3> HIDE DEF x, w
    <3>2. e.chan = x.chan /\ e.interrupted = x.interrupted
      BY <2>0 DEF EffectType
    <3> QED
      BY <3>1, <3>2 DEF x
  <2>3. CASE Post(i)
    <3> DEFINE e == [x EXCEPT !.out = <<>>]
    <3>1. effects' = [effects EXCEPT ![i] = e]
      BY <2>3 DEF Post, Thread
    <3> HIDE DEF x
    <3>2. e.chan = x.chan /\ e.interrupted = x.interrupted
      BY <2>0 DEF EffectType
    <3> QED
      BY <3>1, <3>2 DEF x
  <2>4. CASE WrapAbort(i)
    <3> DEFINE e == [x EXCEPT !.interrupted = TRUE]
    <3>1. effects' = [effects EXCEPT ![i] = e]
      BY <2>4 DEF WrapAbort, Thread
    <3> HIDE DEF x
    <3>2. e.chan = x.chan /\ e.interrupted
      BY <2>0 DEF EffectType
    <3> QED
      BY <3>1, <3>2 DEF x
  <2>5. CASE ScriptEnd(i)
    <3> DEFINE e == [x EXCEPT !.phase = "done"]
    <3>1. effects' = [effects EXCEPT ![i] = e]
      BY <2>5 DEF ScriptEnd, Thread
    <3> HIDE DEF x
    <3>2. e.chan = x.chan /\ e.interrupted = x.interrupted
      BY <2>0 DEF EffectType
    <3> QED
      BY <3>1, <3>2 DEF x
  <2> QED
    BY <2>1, <2>2, <2>3, <2>4, <2>5 DEF EffectThread, WrapSet, WrapImageShow
<1>3. Heirs(effects, effects')
  BY <1>2 DEF Heirs
<1>4. ColorsFree(mux', effects')
  BY <1>1, <1>3, HeirsFree DEF DrawnInv
<1>5. CoreMux(mux') /\ LedsFollow'
  BY <1>1 DEF DrawnInv, LedsFollow
<1> QED
  BY <1>4, <1>5

LEMMA InitDrawn == Init => DrawnInv
<1> SUFFICES ASSUME Init PROVE DrawnInv
  OBVIOUS
<1>1. mux = NewMuxer /\ effects = <<>> /\ leds = NoFrame
  BY DEF Init
<1>2. CoreMux(mux)
  BY <1>1, FramesAssumption
     DEF CoreMux, MuxerType, Bottom, NewMuxer, LowestPriorityInfo, Input, Channels,
         LOWEST_PRIORITY, NO_MANUAL, ENDLESS
<1>3. Content(mux) = NoFrame
  <2>1. mux.inputs[mux.current] = LowestPriorityInfo
    BY <1>1 DEF NewMuxer
  <2> QED
    BY <1>2, <2>1, CoreContent DEF Pixels, LowestPriorityInfo
<1> QED
  BY <1>1, <1>2, <1>3, InitCoreInv DEF DrawnInv, LedsFollow, ColorsFree

LEMMA NextDrawn == ASSUME OrdinaryChannels, DrawnInv, [Next]_vars PROVE DrawnInv'
<1>1. CoreInv'
  BY NextCoreInv DEF DrawnInv
<1>2. (CoreMux(mux) /\ LedsFollow /\ ColorsFree(mux, effects))'
  <2>1. CASE UNCHANGED vars
    BY <2>1 DEF vars, DrawnInv, LedsFollow, ColorsFree, CoreMux, Bottom, MuxerType
  <2> QED
    BY <2>1, RequestDrawn, MainThreadDrawn, DeliverDrawn, ThreadDrawn DEF Next
<1> QED
  BY <1>1, <1>2 DEF DrawnInv

LEMMA DrawnInductive == ASSUME OrdinaryChannels PROVE Spec => []DrawnInv
<1> QED
  BY InitDrawn, NextDrawn, PTL DEF Spec

(* Whatever is requested, restarted or delivered late, the leds show the   *)
(* visible input, unless that has gone inactive while selected by hand:    *)
(* Hyperion::update() misses no change of what the muxer shows.            *)
THEOREM LedsShowTheVisible == ASSUME OrdinaryChannels PROVE Spec => []LedsFollow
<1>1. DrawnInv => LedsFollow
  BY DEF DrawnInv
<1> QED
  BY <1>1, DrawnInductive, PTL

LEMMA HandledInputs ==
  ASSUME NEW c, NEW updates, Handled(c, updates), CoreMux(c.mux)
  PROVE  mux'.inputs = c.mux.inputs
BY DEF Handled, Unheard, CoreMux, MuxerType

LEMMA DeliverShrinks ==
  ASSUME OrdinaryChannels, DrawnInv, DeliverFrame \/ DeliverFinished \/ UpdateTimeout
  PROVE  DOMAIN mux'.inputs \subseteq DOMAIN mux.inputs
<1>1. CASE DeliverFrame
  <2> DEFINE p == Head(events).chan
             c == HyperionSetInput(Core, Head(events).kind, p, Head(events).id,
                                   Head(events).timeout, FALSE)
  <2>1. /\ Handled(c, Has(mux, p) /\ c.mux.current = p)
        /\ Touched(mux, c.mux, p)
    BY <1>1, FrameTouched
  <2> HIDE DEF c, p
  <2> QED
    BY <2>1, HandledInputs DEF Touched
<1>2. CASE DeliverFinished
  <2>1. PICK d : Handled(d, FALSE) /\ Untouched(mux, d.mux)
    BY <1>2, FinishedUntouched
  <2> QED
    BY <2>1, HandledInputs DEF Untouched
<1>3. CASE UpdateTimeout
  <2> DEFINE m == SetCurrentTime(mux, now)
             c == [mux |-> m, effects |-> effects]
  <2>1. Untouched(mux, m)
    BY CoreSeq, TimeUntouched DEF CoreMux
  <2>2. Handled(c, FALSE) /\ c.mux = m
    BY <1>3, OnlyMuxerHandled DEF UpdateTimeout
  <2> HIDE DEF m, c
  <2> QED
    BY <2>1, <2>2, HandledInputs DEF Untouched
<1> QED
  BY <1>1, <1>2, <1>3

(* The frames of an effect that has lost its channel, the end of one, and  *)
(* the passing of time never bring a channel back into the muxer.          *)
THEOREM LateFramesAreDropped == ASSUME OrdinaryChannels PROVE Spec => NoResurrection
<1>1. DrawnInv /\ [Next]_vars
        => [DeliverFrame \/ DeliverFinished \/ UpdateTimeout
              => DOMAIN mux'.inputs \subseteq DOMAIN mux.inputs]_vars
  BY DeliverShrinks
<1> QED
  BY <1>1, DrawnInductive, PTL DEF Spec, NoResurrection

(* clearInput() removes its channel, and what has expired. *)
LEMMA ClearInputRemoves ==
  ASSUME NEW m, CoreMux(m), NEW p, NEW t,
         NEW q \in DOMAIN m.inputs, q \notin DOMAIN ClearInput(m, p, t).inputs
  PROVE  Expired(m.inputs[q], t) \/ q = ToUint8(p)
<1>1. CASE Clears(m, p)
  <2> DEFINE x == Without(m, {ToUint8(p)})
             r == SetCurrentTime(x, t)
  <2>1. /\ DOMAIN x.inputs = DOMAIN m.inputs \ {ToUint8(p)}
        /\ \A k \in DOMAIN x.inputs : x.inputs[k] = m.inputs[k]
        /\ MuxerType(x)
    BY DEF CoreMux, MuxerType, Without
  <2>2. ClearInput(m, p, t) = PrioritiesChanged(r)
    BY <1>1 DEF ClearInput
  <2> HIDE DEF x
  <2>3. MuxerType(r) /\ DOMAIN r.inputs = {k \in DOMAIN x.inputs : ~Expired(x.inputs[k], t)}
    BY <2>1, SetCurrentTimeFacts
  <2> HIDE DEF r
  <2>4. PrioritiesChanged(r).inputs = r.inputs
    BY <2>3, SignalFacts DEF SameSelection
  <2> QED
    BY <2>1, <2>2, <2>3, <2>4
<1>2. CASE ~Clears(m, p)
  BY <1>2 DEF ClearInput
<1> QED
  BY <1>1, <1>2

LEMMA FinishedClears ==
  ASSUME OrdinaryChannels, DrawnInv, DeliverFinished,
         NEW p \in DOMAIN mux.inputs \ DOMAIN mux'.inputs, ~Expired(mux.inputs[p], now)
  PROVE  /\ p = Head(events).chan
         /\ mux.inputs[p].comp # "COLOR"
         /\ \A i \in DOMAIN effects :
              effects[i].chan = p /\ ~effects[i].interrupted
                => effects[i].id = Head(events).id
<1> DEFINE s == Sender
           e == effects[s]
<1>1. /\ s \in DOMAIN effects /\ e.id = Head(events).id /\ e.chan = Head(events).chan
  BY NextSignal DEF DrawnInv, DeliverFinished
<1>2. PICK d : /\ Handled(d, FALSE) /\ Untouched(mux, d.mux)
               /\ d.mux = IF e.interrupted THEN mux ELSE ClearInput(mux, e.chan, now)
  BY FinishedUntouched
<1>3. mux'.inputs = d.mux.inputs
  BY <1>2, HandledInputs DEF Untouched
<1>4. ~e.interrupted
  BY <1>2, <1>3
<1>5. e.chan \in Priorities
  <2>1. e \in EffectType
    BY <1>1, CoreSeq
  <2> QED
    BY <2>1 DEF EffectType
<1> HIDE DEF e, s
<1>6. p = ToUint8(e.chan)
  BY <1>2, <1>3, <1>4, CoreSeq, ClearInputRemoves
<1>7. p = e.chan
  BY <1>5, <1>6, PrioritiesBelow
<1>8. mux.inputs[p].comp # "COLOR"
  BY <1>1, <1>4, <1>7 DEF DrawnInv, ColorsFree, e
<1>9. \A i \in DOMAIN effects : effects[i].chan = p /\ ~effects[i].interrupted => i = s
  BY <1>1, <1>4, <1>7 DEF DrawnInv, CoreInv, Engine, OnePerChannel, e
<1> QED
  BY <1>1, <1>7, <1>8, <1>9 DEF e

(* When the finished signal of an effect is handled, a channel disappears  *)
(* only if it is that effect's own, shows no colour, and has not been      *)
(* taken by an effect that was started there in the meantime.              *)
THEOREM EndClearsOwnChannel == ASSUME OrdinaryChannels PROVE Spec => FinishedClearsOwn
<1>1. DrawnInv /\ [Next]_vars
        => [DeliverFinished =>
              \A p \in DOMAIN mux.inputs \ DOMAIN mux'.inputs :
                \/ Expired(mux.inputs[p], now)
                \/ /\ p = Head(events).chan
                   /\ mux.inputs[p].comp # "COLOR"
                   /\ \A i \in DOMAIN effects :
                        effects[i].chan = p /\ ~effects[i].interrupted
                          => effects[i].id = Head(events).id]_vars
  BY FinishedClears
<1> QED
  BY <1>1, DrawnInductive, PTL DEF Spec, FinishedClearsOwn
=============================================================================
