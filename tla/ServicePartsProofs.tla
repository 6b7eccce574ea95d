-------------------------- MODULE ServicePartsProofs --------------------------
(***************************************************************************)
(* Proofs about the parts of ServiceParts, and about their composition: the *)
(* codes, the session, the schema and the first rows, the cache, the copying *)
(* of trains, the notifications, the partitions; for every number of workers, *)
(* requests and sections.                                                  *)
(***************************************************************************)
EXTENDS ServiceParts, FiniteSetTheorems, TLAPS
-----------------------------------------------------------------------------
\* The codes an account is verified with.
LEMMA CodesAssumed == O!CodesAssumption
  BY PartsAssumption DEF PartsAssumption

Slot == [code : 0..MaxCodes, till : 0..O!Never]
CodeCall == [pc : {"idle", "match"}, code : 0..MaxCodes, kind : O!Kinds, store : O!Stores]

\* Code c is under key k of store s; a request has compared it there.
In(c, s, k) == slot[s][k].code = c
Out(c, r) == oCall[r].code = c

\* A code was issued, is under one key of one store, and a request that has
\* compared it means that key; an idle request and an empty slot have none.
CodesSound ==
  /\ \A s \in O!Stores, k \in O!Kinds : slot[s][k].code <= Len(issued)
  /\ \A r \in Calls : oCall[r].code <= Len(issued)
  /\ \A r \in Calls : IF oCall[r].pc = "idle" THEN oCall[r] = O!Idle ELSE oCall[r].code \in O!Codes
  /\ \A s \in O!Stores, k \in O!Kinds : slot[s][k].code = 0 => slot[s][k] = O!NoCode
  /\ \A c \in O!Codes : c > Len(issued) => accepted[c] = 0
OneSlot ==
  \A c \in O!Codes, s, t \in O!Stores, k, l \in O!Kinds : In(c, s, k) /\ In(c, t, l) => s = t /\ k = l
CallsSlot ==
  \A c \in O!Codes, r \in Calls, s \in O!Stores, k \in O!Kinds :
    Out(c, r) /\ In(c, s, k) => s = oCall[r].store /\ k = oCall[r].kind

\* Unless two had compared it at once, one request at most is out with a code,
\* and a code that has passed is nowhere.
OneOut == \A c \in O!Codes \ oRaced : \A q, r \in Calls : Out(c, q) /\ Out(c, r) => q = r
PassedIsGone ==
  \A c \in O!Codes \ oRaced :
    \/ accepted[c] = 0
    \/ /\ accepted[c] = 1 /\ \A r \in Calls : ~Out(c, r)
       /\ \A s \in O!Stores, k \in O!Kinds : ~In(c, s, k)

OneTimeCodesIInv == O!TypeOK /\ CodesSound /\ OneSlot /\ CallsSlot /\ OneOut /\ PassedIsGone
-----------------------------------------------------------------------------
LEMMA CodesTypes ==
  O!TypeOK <=> /\ ready \in BOOLEAN /\ flips \in 0..MaxFlips /\ clock \in 0..MaxClock
               /\ registered \in BOOLEAN /\ issued \in Seq(O!Kinds) /\ Len(issued) <= MaxCodes
               /\ slot \in [O!Stores -> [O!Kinds -> Slot]] /\ oCall \in [Calls -> CodeCall]
               /\ accepted \in [O!Codes -> Nat] /\ oRaced \subseteq O!Codes
  BY Zenon DEF O!TypeOK, Slot, CodeCall

LEMMA IdleCall ==
  /\ O!Idle \in CodeCall /\ O!Idle.code = 0 /\ O!Idle.pc = "idle"
  /\ O!NoCode \in Slot /\ O!NoCode.code = 0
  BY CodesAssumed
  DEF O!Idle, CodeCall, O!NoCode, Slot, O!Kinds, O!Otps, O!Stores, O!CodesAssumption, O!Never

LEMMA CodeNumbers == 0 \notin O!Codes /\ \A c \in O!Codes : c \in Nat
  BY CodesAssumed DEF O!Codes, O!CodesAssumption

LEMMA CodeFields ==
  ASSUME O!TypeOK
  PROVE  /\ \A s \in O!Stores, k \in O!Kinds : slot[s][k] \in Slot /\ slot[s][k].code \in Nat
         /\ \A r \in Calls : oCall[r] \in CodeCall /\ oCall[r].code \in Nat
  <1>1. /\ \A s \in O!Stores, k \in O!Kinds : slot[s][k] \in Slot
        /\ \A r \in Calls : oCall[r] \in CodeCall
    BY CodesTypes
  <1>2. /\ \A x \in Slot : x.code \in Nat
        /\ \A x \in CodeCall : x.code \in Nat
    BY CodesAssumed DEF Slot, CodeCall, O!CodesAssumption
  <1> QED BY <1>1, <1>2

LEMMA TillType ==
  ASSUME clock \in 0..MaxClock, NEW k \in O!Kinds
  PROVE  O!Till(k) \in 0..O!Never
  <1>1. MaxClock \in Nat
    BY CodesAssumed DEF O!CodesAssumption
  <1>2. CASE k \in O!Otps
    BY <1>1, <1>2 DEF O!Till, O!Never
  <1>3. CASE k \notin O!Otps /\ k = "email"
    BY <1>1, <1>3 DEF O!Till, O!Never
  <1>4. CASE k \notin O!Otps /\ k # "email"
    BY <1>1, <1>4 DEF O!Till, O!Never
  <1> QED BY <1>2, <1>3, <1>4

\* A new code is under one key, and nothing has been done with it.
LEMMA IssueIInv ==
  ASSUME OneTimeCodesIInv, NEW k \in O!Kinds, O!Issue(k), registered' \in BOOLEAN
  PROVE  OneTimeCodesIInv'
  <1> USE CodesTypes DEF OneTimeCodesIInv
  <1> DEFINE n == Len(issued) + 1
             st == O!Store(k)
             e == [code |-> n, till |-> O!Till(k)]
  <1>1. /\ Len(issued) < MaxCodes /\ issued' = Append(issued, k)
        /\ slot' = [slot EXCEPT ![st][k] = e]
        /\ UNCHANGED <<ready, flips, clock, oCall, accepted, oRaced>>
    BY DEF O!Issue
  <1>2. MaxCodes \in Nat /\ Len(issued) \in Nat /\ st \in O!Stores
    BY CodesAssumed DEF O!CodesAssumption, O!Store, O!Stores
  <1>3. n \in 1..MaxCodes /\ e \in Slot /\ e.code = n
    BY <1>1, <1>2, TillType DEF Slot
  <1>4. /\ issued' \in Seq(O!Kinds) /\ Len(issued') = n /\ Len(issued') <= MaxCodes
        /\ n > Len(issued)
    BY <1>1, <1>2
  <1> HIDE DEF n, st, e
  <1>5. /\ slot' \in [O!Stores -> [O!Kinds -> Slot]]
        /\ \A s \in O!Stores, l \in O!Kinds : slot'[s][l] = IF s = st /\ l = k THEN e ELSE slot[s][l]
    BY <1>1, <1>2, <1>3
  <1>6. O!TypeOK'
    BY <1>1, <1>4, <1>5 DEF O!TypeOK, Slot, CodeCall
  <1>7. /\ \A s \in O!Stores, l \in O!Kinds : slot[s][l].code # n /\ slot[s][l].code \in Nat
        /\ \A r \in Calls : oCall[r].code # n /\ oCall[r].code \in Nat
    <2>1. /\ \A s \in O!Stores, l \in O!Kinds : slot[s][l].code <= Len(issued)
          /\ \A r \in Calls : oCall[r].code <= Len(issued)
      BY DEF CodesSound
    <2>2. \A x \in Nat : x <= Len(issued) => x # n
      BY <1>2, <1>4
    <2>3. n \in Nat
      BY <1>3
    <2> QED BY <2>1, <2>2, CodeFields
  <1>8. CodesSound'
    <2>1. \A s \in O!Stores, l \in O!Kinds : slot'[s][l].code <= n
      BY <1>2, <1>3, <1>4, <1>5, <1>7 DEF CodesSound
    <2>2. \A r \in Calls : oCall'[r].code <= n
      BY <1>1, <1>2, <1>4, <1>7 DEF CodesSound
    <2>3. \A r \in Calls : IF oCall'[r].pc = "idle" THEN oCall'[r] = O!Idle ELSE oCall'[r].code \in O!Codes
      BY <1>1 DEF CodesSound
    <2>4. \A s \in O!Stores, l \in O!Kinds : slot'[s][l].code = 0 => slot'[s][l] = O!NoCode
      BY <1>3, <1>5 DEF CodesSound
    <2>5. \A c \in O!Codes : c > n => accepted'[c] = 0
      BY <1>1, <1>2, <1>4 DEF CodesSound, O!Codes
    <2> QED BY <1>4, <2>1, <2>2, <2>3, <2>4, <2>5 DEF CodesSound, O!Codes
  <1>9. OneSlot'
    BY <1>3, <1>5, <1>7 DEF OneSlot, In, O!Codes
  <1>10. CallsSlot'
    BY <1>1, <1>3, <1>5, <1>7 DEF CallsSlot, In, Out, O!Codes
  <1>11. OneOut'
    BY <1>1 DEF OneOut, Out, O!Codes
  <1>12. PassedIsGone'
    <2>1. accepted[n] = 0
      BY <1>3, <1>4 DEF CodesSound, O!Codes
    <2> QED BY <1>1, <1>3, <1>5, <2>1 DEF PassedIsGone, In, Out, O!Codes
  <1> QED BY <1>6, <1>8, <1>9, <1>10, <1>11, <1>12

\* A request has found a code where it looked.
LEMMA CompareIInv ==
  ASSUME OneTimeCodesIInv, NEW r \in Calls, NEW k \in O!Kinds, O!Compare(r, k)
  PROVE  OneTimeCodesIInv'
  <1> USE CodesTypes DEF OneTimeCodesIInv
  <1> DEFINE st == O!Store(k)
             c == slot[st][k].code
             d == [pc |-> "match", code |-> c, kind |-> k, store |-> st]
  <1>1. /\ oCall[r] = O!Idle /\ slot[st][k] # O!NoCode /\ oCall' = [oCall EXCEPT ![r] = d]
        /\ oRaced' = IF \E q \in Calls \ {r} : oCall[q].code = c THEN oRaced \cup {c} ELSE oRaced
        /\ UNCHANGED <<ready, flips, clock, registered, issued, slot, accepted>>
    BY DEF O!Compare, O!Live
  <1>2. st \in O!Stores
    BY DEF O!Store, O!Stores
  <1>3. c \in O!Codes /\ In(c, st, k) /\ c <= Len(issued)
    BY <1>1, <1>2, CodesAssumed DEF CodesSound, Slot, O!Codes, In, O!CodesAssumption
  <1>4. d \in CodeCall /\ d.pc = "match" /\ d.code = c /\ d.kind = k /\ d.store = st
    BY <1>2, <1>3, CodesAssumed DEF CodeCall, O!Codes, O!CodesAssumption
  <1> HIDE DEF st, c, d
  <1>5. /\ oCall' \in [Calls -> CodeCall] /\ oRaced' \subseteq O!Codes
        /\ \A q \in Calls : oCall'[q] = IF q = r THEN d ELSE oCall[q]
    BY <1>1, <1>3, <1>4
  <1>6. O!TypeOK'
    BY <1>1, <1>5 DEF O!TypeOK, Slot, CodeCall
  <1>7. CodesSound'
    BY <1>1, <1>3, <1>4, <1>5 DEF CodesSound, O!Codes
  <1>8. OneSlot'
    BY <1>1 DEF OneSlot, In, O!Codes
  <1>9. CallsSlot'
    BY <1>1, <1>2, <1>3, <1>4, <1>5 DEF CallsSlot, OneSlot, In, Out, O!Codes
  <1>10. OneOut'
    BY <1>1, <1>3, <1>4, <1>5 DEF OneOut, Out, O!Codes
  <1>11. PassedIsGone'
    BY <1>1, <1>2, <1>3, <1>4, <1>5 DEF PassedIsGone, In, Out, O!Codes
  <1> QED BY <1>6, <1>7, <1>8, <1>9, <1>10, <1>11

\* The code is taken away from where it was found, if it is still there.
LEMMA ConsumeIInv ==
  ASSUME OneTimeCodesIInv, NEW r \in Calls, O!Consume(r)
  PROVE  OneTimeCodesIInv'
  <1> USE CodesTypes, IdleCall DEF OneTimeCodesIInv
  <1> DEFINE c == oCall[r].code
             st == oCall[r].store
             k == oCall[r].kind
  <1>1. /\ oCall[r].pc = "match" /\ slot' = [slot EXCEPT ![st][k] = O!NoCode]
        /\ accepted' = [accepted EXCEPT ![c] = @ + 1]
        /\ oCall' = [oCall EXCEPT ![r] = O!Idle]
        /\ UNCHANGED <<ready, flips, clock, registered, issued, oRaced>>
    BY DEF O!Consume, O!TakenFrom
  <1>2. c \in O!Codes /\ st \in O!Stores /\ k \in O!Kinds /\ c <= Len(issued)
    BY <1>1 DEF CodesSound, CodeCall
  <1>3. \A s \in O!Stores, l \in O!Kinds : In(c, s, l) => s = st /\ l = k
    BY <1>2 DEF CallsSlot, Out
  <1>4. c \notin oRaced => accepted[c] = 0 /\ \A q \in Calls : Out(c, q) => q = r
    BY <1>2 DEF PassedIsGone, OneOut, Out
  <1>n. c # 0 /\ Len(issued) \in Nat
    BY <1>2, CodeNumbers, CodesTypes
  <1>c. PICK c0 \in O!Codes, s0 \in O!Stores, k0 \in O!Kinds : c0 = c /\ s0 = st /\ k0 = k
    BY <1>2
  <1> HIDE DEF c, st, k
  <1>5. /\ slot' \in [O!Stores -> [O!Kinds -> Slot]]
        /\ \A s \in O!Stores, l \in O!Kinds : slot'[s][l] = IF s = s0 /\ l = k0 THEN O!NoCode ELSE slot[s][l]
    BY <1>1, <1>2, <1>c
  <1>6. /\ oCall' \in [Calls -> CodeCall] /\ accepted' \in [O!Codes -> Nat]
        /\ \A q \in Calls : oCall'[q] = IF q = r THEN O!Idle ELSE oCall[q]
        /\ \A b \in O!Codes : accepted'[b] = IF b = c0 THEN accepted[c0] + 1 ELSE accepted[b]
    BY <1>1, <1>2, <1>c
  <1>7. O!TypeOK'
    BY <1>1, <1>5, <1>6 DEF O!TypeOK, Slot, CodeCall
  <1>8. CodesSound'
    <2>1. \A s \in O!Stores, l \in O!Kinds :
            slot'[s][l].code <= Len(issued) /\ (slot'[s][l].code = 0 => slot'[s][l] = O!NoCode)
      BY <1>5, <1>n DEF CodesSound
    <2>2. \A q \in Calls :
            /\ oCall'[q].code <= Len(issued)
            /\ IF oCall'[q].pc = "idle" THEN oCall'[q] = O!Idle ELSE oCall'[q].code \in O!Codes
      BY <1>6, <1>n DEF CodesSound
    <2>3. \A b \in O!Codes : b > Len(issued) => accepted'[b] = 0
      BY <1>2, <1>c, <1>6 DEF CodesSound, O!Codes
    <2> QED BY <1>1, <2>1, <2>2, <2>3 DEF CodesSound, O!Codes
  <1>s. \A b \in O!Codes, s \in O!Stores, l \in O!Kinds : slot'[s][l].code = b => slot[s][l].code = b
    BY <1>5, CodeNumbers
  <1>9. OneSlot'
    BY <1>s DEF OneSlot, In, O!Codes
  <1>10. CallsSlot'
    <2>1. \A b \in O!Codes, q \in Calls : oCall'[q].code = b => oCall'[q] = oCall[q]
      BY <1>6, CodeNumbers
    <2> QED BY <1>s, <2>1 DEF CallsSlot, In, Out, O!Codes
  <1>11. OneOut'
    BY <1>1, <1>6 DEF OneOut, Out, O!Codes
  <1>12. PassedIsGone'
    <2> SUFFICES ASSUME NEW b \in O!Codes \ oRaced
                 PROVE  \/ accepted'[b] = 0
                        \/ /\ accepted'[b] = 1 /\ \A q \in Calls : oCall'[q].code # b
                           /\ \A s \in O!Stores, l \in O!Kinds : slot'[s][l].code # b
      BY <1>1 DEF PassedIsGone, In, Out, O!Codes
    <2>1. CASE b = c0
      <3>1. accepted'[b] = 1
        BY <1>4, <1>6, <1>c, <2>1
      <3>2. \A q \in Calls : oCall'[q].code # b
        BY <1>4, <1>6, <1>c, <2>1 DEF Out, O!Codes
      <3>3. \A s \in O!Stores, l \in O!Kinds : slot'[s][l].code # b
        BY <1>3, <1>5, <1>c, <2>1 DEF In, O!Codes
      <3> QED BY <3>1, <3>2, <3>3
    <2>2. CASE b # c0
      <3>1. accepted'[b] = accepted[b] /\ b # 0
        BY <1>6, <2>2, CodeNumbers
      <3>2. (\A q \in Calls : oCall[q].code # b) => \A q \in Calls : oCall'[q].code # b
        BY <1>6, <3>1
      <3>3. (\A s \in O!Stores, l \in O!Kinds : slot[s][l].code # b)
            => \A s \in O!Stores, l \in O!Kinds : slot'[s][l].code # b
        BY <1>5, <3>1
      <3> QED BY <3>1, <3>2, <3>3 DEF PassedIsGone, In, Out
    <2> QED BY <2>1, <2>2
  <1> QED BY <1>7, <1>8, <1>9, <1>10, <1>11, <1>12

LEMMA ConsumeFailsIInv ==
  ASSUME OneTimeCodesIInv, NEW r \in Calls, O!ConsumeFails(r)
  PROVE  OneTimeCodesIInv'
  <1> USE CodesTypes, IdleCall DEF OneTimeCodesIInv
  <1>1. /\ oCall' = [oCall EXCEPT ![r] = O!Idle]
        /\ UNCHANGED <<ready, flips, clock, registered, issued, slot, accepted, oRaced>>
    BY DEF O!ConsumeFails
  <1>2. /\ oCall' \in [Calls -> CodeCall]
        /\ \A q \in Calls : oCall'[q] = IF q = r THEN O!Idle ELSE oCall[q]
    BY <1>1
  <1>3. O!TypeOK'
    BY <1>1, <1>2 DEF O!TypeOK, Slot, CodeCall
  <1>n. Len(issued) \in Nat
    OBVIOUS
  <1>4. CodesSound'
    <2>1. \A q \in Calls :
            /\ oCall'[q].code <= Len(issued)
            /\ IF oCall'[q].pc = "idle" THEN oCall'[q] = O!Idle ELSE oCall'[q].code \in O!Codes
      BY <1>2, <1>n DEF CodesSound
    <2> QED BY <1>1, <2>1 DEF CodesSound, O!Codes
  <1>o. \A c \in O!Codes, q \in Calls : oCall'[q].code = c => q # r /\ oCall[q].code = c /\ oCall'[q] = oCall[q]
    BY <1>2, CodeNumbers
  <1>5. OneSlot' /\ CallsSlot'
    <2>1. OneSlot'
      BY <1>1 DEF OneSlot, In, O!Codes
    <2>2. CallsSlot'
      BY <1>1, <1>o DEF CallsSlot, In, Out, O!Codes
    <2> QED BY <2>1, <2>2
  <1>6. OneOut' /\ PassedIsGone'
    BY <1>1, <1>2, CodeNumbers DEF OneOut, PassedIsGone, In, Out, O!Codes
  <1> QED BY <1>3, <1>4, <1>5, <1>6

LEMMA TickFlipIInv ==
  ASSUME OneTimeCodesIInv, O!Tick \/ O!Flip
  PROVE  OneTimeCodesIInv'
  <1> USE CodesTypes, IdleCall DEF OneTimeCodesIInv
  <1>1. /\ UNCHANGED <<registered, issued, oCall, accepted, oRaced>>
        /\ slot' \in {slot, [slot EXCEPT !["redis"] = [k \in O!Kinds |-> O!NoCode]]}
    BY DEF O!Tick, O!Flip
  <1>2. /\ slot' \in [O!Stores -> [O!Kinds -> Slot]]
        /\ \A s \in O!Stores, k \in O!Kinds : slot'[s][k] \in {slot[s][k], O!NoCode}
    <2>1. [k \in O!Kinds |-> O!NoCode] \in [O!Kinds -> Slot]
      OBVIOUS
    <2> QED BY <1>1, <2>1
  <1>3. ready' \in BOOLEAN
    BY Zenon DEF O!Tick, O!Flip
  <1>4. flips' \in 0..MaxFlips /\ clock' \in 0..MaxClock
    <2>1. MaxFlips \in Nat /\ MaxClock \in Nat
      BY CodesAssumed DEF O!CodesAssumption
    <2>2. flips \in 0..MaxFlips /\ clock \in 0..MaxClock
      OBVIOUS
    <2>3. CASE O!Tick
      BY <2>1, <2>2, <2>3 DEF O!Tick
    <2>4. CASE O!Flip
      BY <2>1, <2>2, <2>4 DEF O!Flip
    <2> QED BY <2>3, <2>4
  <1>5. O!TypeOK'
    BY <1>1, <1>2, <1>3, <1>4 DEF O!TypeOK, Slot, CodeCall
  <1>6. CodesSound'
    <2>1. Len(issued) \in Nat
      OBVIOUS
    <2>2. \A s \in O!Stores, k \in O!Kinds :
            /\ slot'[s][k].code <= Len(issued)
            /\ slot'[s][k].code = 0 => slot'[s][k] = O!NoCode
      <3>1. O!NoCode.code = 0
        BY DEF O!NoCode
      <3> QED BY <1>2, <2>1, <3>1 DEF CodesSound
    <2> QED BY <1>1, <2>2 DEF CodesSound, O!Codes
  <1>7. OneSlot'
    <2>1. \A c \in O!Codes, s \in O!Stores, k \in O!Kinds : slot'[s][k].code = c => slot[s][k].code = c
      BY <1>2, CodeNumbers
    <2> QED BY <2>1 DEF OneSlot, In, O!Codes
  <1>8. CallsSlot'
    <2>1. \A c \in O!Codes, s \in O!Stores, k \in O!Kinds : slot'[s][k].code = c => slot[s][k].code = c
      BY <1>2, CodeNumbers
    <2> QED BY <1>1, <2>1 DEF CallsSlot, In, Out, O!Codes
  <1>9. OneOut' /\ PassedIsGone'
    BY <1>1, <1>2, CodeNumbers DEF OneOut, PassedIsGone, In, Out, O!Codes
  <1> QED BY <1>5, <1>6, <1>7, <1>8, <1>9

\* A code passes one verification, whatever comes between; except one that two
\* verifications had compared before either deleted it (auth.routes.ts 29-341).
THEOREM CodesPassOnce == O!Spec => [](O!TypeOK /\ O!CodesUsedOnce)
  <1>1. O!Init => OneTimeCodesIInv
    <2> SUFFICES ASSUME O!Init PROVE OneTimeCodesIInv
      OBVIOUS
    <2>1. MaxCodes \in Nat /\ MaxClock \in Nat /\ MaxFlips \in Nat
      BY CodesAssumed DEF O!CodesAssumption
    <2>2. /\ slot \in [O!Stores -> [O!Kinds -> Slot]] /\ oCall \in [Calls -> CodeCall]
          /\ accepted \in [O!Codes -> Nat] /\ oRaced \subseteq O!Codes
          /\ issued \in Seq(O!Kinds) /\ Len(issued) = 0
          /\ flips \in 0..MaxFlips /\ clock \in 0..MaxClock
      BY <2>1, IdleCall DEF O!Init
    <2>3. ready \in BOOLEAN /\ registered \in BOOLEAN
      BY DEF O!Init
    <2>4. O!TypeOK
      BY <2>1, <2>2, <2>3, CodesTypes
    <2>5. CodesSound
      <3>1. \A s \in O!Stores, k \in O!Kinds : slot[s][k] = O!NoCode
        BY DEF O!Init
      <3>2. \A r \in Calls : oCall[r] = O!Idle
        BY DEF O!Init
      <3>3. \A c \in O!Codes : accepted[c] = 0
        BY DEF O!Init
      <3> QED BY <2>2, <3>1, <3>2, <3>3, IdleCall DEF CodesSound
    <2>6. OneSlot /\ CallsSlot /\ OneOut /\ PassedIsGone
      BY IdleCall, CodeNumbers DEF O!Init, OneSlot, CallsSlot, OneOut, PassedIsGone, In, Out
    <2> QED BY <2>4, <2>5, <2>6 DEF OneTimeCodesIInv
  <1>2. OneTimeCodesIInv /\ [O!Next]_O!vars => OneTimeCodesIInv'
    <2> SUFFICES ASSUME OneTimeCodesIInv, [O!Next]_O!vars PROVE OneTimeCodesIInv'
      OBVIOUS
    <2>1. "phone" \in O!Kinds /\ "aadhaar" \in O!Kinds /\ "email" \in O!Kinds /\ "challenge" \in O!Kinds
      BY DEF O!Kinds, O!Otps
    <2>2. CASE O!RegisterByEmail \/ O!RegisterByPhone \/ O!SendOtp \/ O!AadhaarSendOtp \/ O!AuthOptions
               \/ O!RegisterOptions
      <3>1. PICK k \in O!Kinds : O!Issue(k) /\ registered' \in {registered, TRUE}
        BY <2>1, <2>2 DEF O!RegisterByEmail, O!RegisterByPhone, O!SendOtp, O!AadhaarSendOtp,
           O!AuthOptions, O!RegisterOptions
      <3>2. registered' \in BOOLEAN
        BY <3>1, CodesTypes DEF OneTimeCodesIInv
      <3> QED BY <3>1, <3>2, IssueIInv
    <2>3. ASSUME NEW r \in Calls,
                 \/ O!VerifyOtp(r) \/ O!VerifyAadhaarOtp(r) \/ O!VerifyEmail(r)
                 \/ O!AuthVerify(r) \/ O!RegisterVerify(r)
          PROVE  OneTimeCodesIInv'
      BY <2>1, <2>3, CompareIInv
      DEF O!VerifyOtp, O!VerifyAadhaarOtp, O!VerifyEmail, O!AuthVerify, O!RegisterVerify
    <2>4. ASSUME NEW r \in Calls, O!Consume(r) \/ O!ConsumeFails(r) PROVE OneTimeCodesIInv'
      BY <2>4, ConsumeIInv, ConsumeFailsIInv
    <2>5. CASE UNCHANGED O!vars
      BY <2>5
      DEF O!vars, OneTimeCodesIInv, O!TypeOK, CodesSound, OneSlot, CallsSlot, OneOut,
          PassedIsGone,
         In, Out, O!Codes, Slot, CodeCall
    <2> QED BY <2>2, <2>3, <2>4, <2>5, TickFlipIInv DEF O!Next
  <1>3. OneTimeCodesIInv => O!TypeOK /\ O!CodesUsedOnce
    BY DEF OneTimeCodesIInv, PassedIsGone, O!CodesUsedOnce
  <1> QED BY <1>1, <1>2, <1>3, PTL DEF O!Spec
-----------------------------------------------------------------------------
\* Signing in: the strikes of wrong passwords.
LEMMA SessionAssumed == S!SessionAssumption
  BY PartsAssumption DEF PartsAssumption

\* A request, by its fields.
Points == {"idle", "sent", "refresh", "reset", "compare", "count", "write", "clear"}
Marks == Workers \cup {No} \cup Nat
Request == [pc : Points, kind : S!SignIns \cup {"api"}, right : BOOLEAN,
            here : BOOLEAN, n : Marks]

\* An attempt about to be written holds a number; unless attempts overlapped,
\* it is the number of strikes there still are.
HoldsNumber == \A q \in Requests : sReq[q].pc = "write" => sReq[q].n \in Nat
Counted ==
  \/ overlapped
  \/ /\ strikes = fails /\ (locked # "none" <=> strikes >= MaxAttempts)
     /\ \A q \in Requests : sReq[q].pc = "write" => sReq[q].n = strikes

LockedAtLimit == strikes >= MaxAttempts => locked # "none"

SessionIInv == S!TypeOK /\ HoldsNumber /\ Counted /\ LockedAtLimit
-----------------------------------------------------------------------------
LEMMA SessionTypes ==
  S!TypeOK <=> /\ token \in Workers \cup {No} /\ shown \in BOOLEAN
               /\ sReq \in [Requests -> Request] /\ tries \in 0..MaxTries
               /\ strikes \in Nat /\ locked \in {"none", "ahead", "past"}
               /\ fails \in Nat /\ overlapped \in BOOLEAN
  BY Zenon DEF S!TypeOK, Request, Points, Marks

LEMMA IdleRequest == S!Idle \in Request /\ S!Idle.pc = "idle"
  BY DEF S!Idle, Request, Points, Marks, S!SignIns

\* Requests move, and one that is about to write keeps what it read: nothing
\* changes for the account.
LEMMA AccountKept ==
  ASSUME SessionIInv, UNCHANGED S!account, sReq' \in [Requests -> Request],
         \A q \in Requests : sReq'[q].pc = "write" => sReq[q].pc = "write" /\ sReq'[q].n = sReq[q].n,
         token' \in Workers \cup {No}, shown' \in BOOLEAN,
         tries' \in 0..MaxTries
  PROVE  SessionIInv'
  <1> USE SessionTypes DEF SessionIInv
  <1>1. UNCHANGED <<strikes, locked, fails, overlapped>>
    BY DEF S!account
  <1>2. S!TypeOK'
    BY Zenon, <1>1 DEF S!TypeOK, Request, Points, Marks
  <1>3. HoldsNumber'
    BY DEF HoldsNumber
  <1>4. Counted' /\ LockedAtLimit'
    BY <1>1 DEF Counted, LockedAtLimit
  <1> QED BY <1>2, <1>3, <1>4

\* One request moves on, not to the write.
LEMMA OneMoves ==
  ASSUME SessionIInv, UNCHANGED S!account, NEW q \in Requests, NEW d \in Request, d.pc # "write",
         sReq' = [sReq EXCEPT ![q] = d],
         token' \in Workers \cup {No}, shown' \in BOOLEAN,
         tries' \in 0..MaxTries
  PROVE  SessionIInv'
  <1>1. sReq' \in [Requests -> Request]
    BY SessionTypes DEF SessionIInv
  <1>2. \A p \in Requests : sReq'[p].pc = "write" => sReq[p].pc = "write" /\ sReq'[p].n = sReq[p].n
    BY SessionTypes DEF SessionIInv
  <1> QED BY <1>1, <1>2, AccountKept

\* An answer of 401 leaves the request idle or on its way to a refresh.
LEMMA After401 ==
  ASSUME S!TypeOK, NEW q \in Requests, S!Answer401(q)
  PROVE  \E d \in Request : d.pc # "write" /\ sReq' = [sReq EXCEPT ![q] = d]
  <1> DEFINE e == [sReq[q] EXCEPT !.pc = "refresh"]
  <1>1. e \in Request /\ e.pc = "refresh"
    BY SessionTypes DEF Request, Points
  <1>2. sReq' = [sReq EXCEPT ![q] = e] \/ sReq' = [sReq EXCEPT ![q] = S!Idle]
    BY DEF S!Answer401, S!End, S!Goto
  <1> QED BY <1>1, <1>2, IdleRequest

LEMMA Marked ==
  ASSUME S!TypeOK
  PROVE  /\ \A w \in Workers : w \in Workers \cup {No}
         /\ Workers \cup {No} \subseteq Marks /\ No \in Marks
  BY DEF Marks

LEMMA SessionSendIInv ==
  ASSUME SessionIInv, NEW q \in Requests, NEW k \in S!SignIns \cup {"api"}, NEW right \in BOOLEAN,
         S!Send(q, k, right)
  PROVE  SessionIInv'
  <1> USE SessionTypes DEF SessionIInv
  <1> DEFINE d == [pc |-> "sent", kind |-> k, right |-> right, here |-> TRUE,
                   n |-> IF k = "api" THEN token ELSE No]
  <1>1. d \in Request /\ d.pc = "sent"
    BY Marked DEF Request, Points
  <1>2. sReq' = [sReq EXCEPT ![q] = d] /\ UNCHANGED <<S!browser, S!account>>
    BY DEF S!Send
  <1>3. tries' \in 0..MaxTries
    BY SessionAssumed DEF S!Send, S!SessionAssumption
  <1> HIDE DEF d
  <1> QED BY <1>1, <1>2, <1>3, OneMoves DEF S!browser

LEMMA ApiIInv ==
  ASSUME SessionIInv, NEW q \in Requests, NEW w \in Workers, S!Api(q, w)
  PROVE  SessionIInv'
  <1>1. UNCHANGED <<S!browser, tries, S!account>> /\ (S!End(q) \/ S!Answer401(q))
    BY DEF S!Api
  <1>2. PICK d \in Request : d.pc # "write" /\ sReq' = [sReq EXCEPT ![q] = d]
    BY <1>1, After401, IdleRequest DEF S!End, SessionIInv
  <1> QED BY <1>1, <1>2, OneMoves, SessionTypes DEF S!browser, SessionIInv

LEMMA RefusedIInv ==
  ASSUME SessionIInv, NEW q \in Requests, S!RefreshRefused(q)
  PROVE  SessionIInv'
  <1> USE SessionTypes DEF SessionIInv
  <1>1. /\ token' = No /\ shown' = FALSE /\ UNCHANGED <<tries, S!account>>
        /\ sReq' = [p \in Requests |->
                     IF sReq[p].pc \in {"idle", "refresh"} THEN S!Idle
                     ELSE [sReq[p] EXCEPT !.here = FALSE]]
    BY DEF S!RefreshRefused
  <1>2. \A p \in Requests : LET e == [sReq[p] EXCEPT !.here = FALSE] IN
          e \in Request /\ e.pc = sReq[p].pc /\ e.n = sReq[p].n
    BY DEF Request
  <1>3. sReq' \in [Requests -> Request]
    BY <1>1, <1>2, IdleRequest
  <1>4. \A p \in Requests : sReq'[p].pc = "write" => sReq[p].pc = "write" /\ sReq'[p].n = sReq[p].n
    BY <1>1, <1>2, IdleRequest
  <1> QED BY <1>1, <1>3, <1>4, AccountKept

\* The answer of a sign-in, and what it leaves of the request.
LEMMA OtherIInv ==
  ASSUME SessionIInv, NEW q \in Requests, NEW w \in Workers, S!PhoneLogin(q, w) \/ S!SocialLogin(q, w)
  PROVE  SessionIInv'
  <1> USE SessionTypes DEF SessionIInv
  <1>1. /\ UNCHANGED <<tries, S!account>>
        /\ \/ S!SignedIn(q, w)
           \/ S!Answer401(q) /\ UNCHANGED S!browser
    BY DEF S!PhoneLogin, S!SocialLogin
  <1>2. token' \in Workers \cup {No} /\ shown' \in BOOLEAN
    BY Zenon, <1>1 DEF S!SignedIn, S!browser
  <1>3. PICK d \in Request : d.pc # "write" /\ sReq' = [sReq EXCEPT ![q] = d]
    BY <1>1, After401, IdleRequest DEF S!SignedIn, S!End
  <1> QED BY <1>1, <1>2, <1>3, OneMoves

\* A step of the password's check that leaves the account alone.
LEMMA GotoIInv ==
  ASSUME SessionIInv, NEW q \in Requests, S!CheckAccountLockout(q) \/ S!Compare(q)
  PROVE  SessionIInv'
  <1> USE SessionTypes DEF SessionIInv
  <1>1. /\ UNCHANGED <<S!browser, tries, S!account>>
        /\ \/ S!End(q)
           \/ S!Goto(q, "reset") \/ S!Goto(q, "compare") \/ S!Goto(q, "clear") \/ S!Goto(q, "count")
    BY DEF S!CheckAccountLockout, S!Compare
  <1>2. ASSUME NEW l \in {"reset", "compare", "clear", "count"}
        PROVE  LET e == [sReq[q] EXCEPT !.pc = l] IN e \in Request /\ e.pc = l
    BY DEF Request, Points
  <1>3. PICK d \in Request : d.pc # "write" /\ sReq' = [sReq EXCEPT ![q] = d]
    BY <1>1, <1>2, IdleRequest DEF S!End, S!Goto
  <1> QED BY <1>1, <1>3, OneMoves DEF S!browser

\* The strikes are read.
LEMMA CountAttemptIInv ==
  ASSUME SessionIInv, NEW q \in Requests, S!CountAttempt(q)
  PROVE  SessionIInv'
  <1> USE SessionTypes DEF SessionIInv
  <1> DEFINE d == [sReq[q] EXCEPT !.pc = "write", !.n = strikes]
  <1>1. d \in Request /\ d.n = strikes /\ d.pc = "write"
    BY DEF Request, Points, Marks
  <1>2. sReq' = [sReq EXCEPT ![q] = d] /\ UNCHANGED <<S!browser, tries, S!account>>
    BY DEF S!CountAttempt
  <1> HIDE DEF d
  <1>3. sReq' \in [Requests -> Request]
        /\ \A p \in Requests : sReq'[p] = IF p = q THEN d ELSE sReq[p]
    BY <1>1, <1>2
  <1>4. UNCHANGED <<token, shown, tries, strikes, locked, fails, overlapped>>
    BY <1>2 DEF S!browser, S!account
  <1>5. S!TypeOK'
    BY Zenon, <1>3, <1>4 DEF S!TypeOK, Request, Points, Marks
  <1>6. HoldsNumber'
    BY <1>1, <1>3, <1>4 DEF HoldsNumber
  <1>7. Counted' /\ LockedAtLimit'
    BY <1>1, <1>3, <1>4 DEF Counted, LockedAtLimit
  <1> QED BY <1>5, <1>6, <1>7

\* One strike more than was read, and the lock at the limit.
LEMMA SessionRecordIInv ==
  ASSUME SessionIInv, NEW q \in Requests, S!RecordFailedAttempt(q)
  PROVE  SessionIInv'
  <1> USE SessionTypes DEF SessionIInv
  <1> DEFINE n == sReq[q].n
  <1>1. /\ sReq[q].pc = "write" /\ strikes' = n + 1
        /\ locked' = IF S!Locks(n + 1) THEN "ahead" ELSE locked
        /\ fails' = fails + 1 /\ (overlapped' <=> (overlapped \/ S!Counting(q)))
        /\ overlapped' = (overlapped \/ S!Counting(q))
        /\ UNCHANGED <<S!browser, tries>> /\ (S!Answer401(q) \/ S!End(q))
    BY DEF S!RecordFailedAttempt
  <1>2. n \in Nat
    BY <1>1 DEF HoldsNumber
  <1>3. PICK d \in Request : d.pc # "write" /\ sReq' = [sReq EXCEPT ![q] = d]
    BY <1>1, After401, IdleRequest DEF S!End
  <1> HIDE DEF n
  <1>4. sReq' \in [Requests -> Request]
        /\ \A p \in Requests : sReq'[p] = IF p = q THEN d ELSE sReq[p]
    BY <1>3
  <1>5. strikes' \in Nat /\ fails' \in Nat /\ locked' \in {"none", "ahead", "past"}
    BY <1>1, <1>2
  <1>6. overlapped' \in BOOLEAN
    BY Zenon, <1>1 DEF S!Counting
  <1>7. S!TypeOK'
    BY Zenon, <1>1, <1>4, <1>5, <1>6 DEF S!TypeOK, Request, Points, Marks, S!browser
  <1>8. HoldsNumber'
    BY <1>3, <1>4 DEF HoldsNumber
  <1>9. Counted'
    <2> SUFFICES ASSUME ~overlapped, ~S!Counting(q)
                 PROVE  /\ strikes' = fails' /\ (locked' # "none" <=> strikes' >= MaxAttempts)
                        /\ \A p \in Requests : sReq'[p].pc = "write" => sReq'[p].n = strikes'
      BY <1>1 DEF Counted
    <2>1. n = strikes /\ strikes = fails /\ (locked # "none" <=> strikes >= MaxAttempts)
      BY <1>1 DEF Counted, n
    <2>2. \A p \in Requests : sReq'[p].pc # "write"
      BY <1>3, <1>4 DEF S!Counting
    <2>3. MaxAttempts \in Nat
      BY SessionAssumed DEF S!SessionAssumption
    <2>4. locked' # "none" <=> strikes' >= MaxAttempts
      BY <1>1, <1>2, <2>1, <2>3 DEF S!Locks
    <2> QED BY <1>1, <2>1, <2>2, <2>4
  <1>10. LockedAtLimit'
    BY <1>1, <1>2 DEF LockedAtLimit, S!Locks
  <1> QED BY <1>7, <1>8, <1>9, <1>10

\* The strikes are forgotten: by a lock that is over, or by a success.
LEMMA ZeroIInv ==
  ASSUME SessionIInv, NEW q \in Requests, S!Zero(q), NEW d \in Request, d.pc # "write",
         sReq' = [sReq EXCEPT ![q] = d], tries' = tries,
         token' \in Workers \cup {No}, shown' \in BOOLEAN
  PROVE  SessionIInv'
  <1> USE SessionTypes DEF SessionIInv
  <1>1. strikes' = 0 /\ fails' = 0 /\ locked' = "none" /\ overlapped' = S!Counting(q)
    BY DEF S!Zero
  <1>2. sReq' \in [Requests -> Request]
        /\ \A p \in Requests : sReq'[p] = IF p = q THEN d ELSE sReq[p]
    OBVIOUS
  <1>3. overlapped' \in BOOLEAN
    BY Zenon, <1>1 DEF S!Counting
  <1>4. strikes' \in Nat /\ fails' \in Nat
    BY <1>1
  <1>5. S!TypeOK'
    BY Zenon, <1>1, <1>2, <1>3, <1>4 DEF S!TypeOK, Request, Points, Marks
  <1>6. HoldsNumber'
    BY <1>2 DEF HoldsNumber
  <1>7. Counted'
    <2> SUFFICES ASSUME ~S!Counting(q)
                 PROVE  /\ strikes' = fails' /\ (locked' # "none" <=> strikes' >= MaxAttempts)
                        /\ \A p \in Requests : sReq'[p].pc = "write" => sReq'[p].n = strikes'
      BY <1>1 DEF Counted
    <2>1. \A p \in Requests : sReq'[p].pc # "write"
      BY <1>2 DEF S!Counting
    <2>2. ~(0 >= MaxAttempts)
      BY SessionAssumed DEF S!SessionAssumption
    <2> QED BY <1>1, <2>1, <2>2
  <1>8. LockedAtLimit'
    BY <1>1, SessionAssumed DEF LockedAtLimit, S!SessionAssumption
  <1> QED BY <1>5, <1>6, <1>7, <1>8

LEMMA ResetStrikesIInv ==
  ASSUME SessionIInv, NEW q \in Requests, S!ResetStrikes(q)
  PROVE  SessionIInv'
  <1> USE SessionTypes DEF SessionIInv
  <1> DEFINE d == [sReq[q] EXCEPT !.pc = "compare"]
  <1>1. d \in Request /\ d.pc = "compare"
    BY DEF Request, Points
  <1>2. sReq' = [sReq EXCEPT ![q] = d] /\ S!Zero(q) /\ UNCHANGED <<S!browser, tries>>
    BY DEF S!ResetStrikes, S!Goto
  <1> HIDE DEF d
  <1> QED BY <1>1, <1>2, ZeroIInv DEF S!browser

LEMMA LoginIInv ==
  ASSUME SessionIInv, NEW q \in Requests, NEW w \in Workers, S!Login(q, w)
  PROVE  SessionIInv'
  <1> USE SessionTypes DEF SessionIInv
  <1>1. S!Zero(q) /\ tries' = tries /\ (S!SignedIn(q, w) \/ (S!End(q) /\ UNCHANGED S!browser))
    BY DEF S!Login
  <1>2. token' \in Workers \cup {No} /\ shown' \in BOOLEAN
    BY Zenon, <1>1 DEF S!SignedIn, S!browser
  <1>3. sReq' = [sReq EXCEPT ![q] = S!Idle]
    BY <1>1 DEF S!SignedIn, S!End
  <1> QED BY <1>1, <1>2, <1>3, IdleRequest, ZeroIInv

\* A worker that is forked again has new keys: a token of its old ones is none.
LEMMA SessionRestartIInv ==
  ASSUME SessionIInv, NEW w \in Workers, S!Restart(w)
  PROVE  SessionIInv'
  <1> USE SessionTypes DEF SessionIInv
  <1> DEFINE Without(k) == IF k = w THEN No ELSE k
  <1>1. /\ token' = Without(token)
        /\ sReq' = [q \in Requests |->
                     IF sReq[q].pc = "write" THEN sReq[q]
                     ELSE [sReq[q] EXCEPT !.n = Without(sReq[q].n)]]
        /\ UNCHANGED <<shown, tries, S!account>>
    BY DEF S!Restart
  <1>2. token' \in Workers \cup {No}
    BY <1>1
  <1>3. \A k \in Marks : Without(k) \in Marks
    BY Marked
  <1> HIDE DEF Without
  <1>4. \A q \in Requests : LET e == [sReq[q] EXCEPT !.n = Without(sReq[q].n)] IN
          e \in Request /\ e.pc = sReq[q].pc
    BY <1>3 DEF Request
  <1>5. sReq' \in [Requests -> Request]
    BY <1>1, <1>4
  <1>6. \A p \in Requests : sReq'[p].pc = "write" => sReq[p].pc = "write" /\ sReq'[p].n = sReq[p].n
    BY <1>1, <1>4
  <1> QED BY <1>1, <1>2, <1>5, <1>6, AccountKept

\* The browser forgets a token, or the lock of the account is over.
LEMMA AloneIInv ==
  ASSUME SessionIInv, S!Logout \/ S!TokenExpires \/ S!LockEnds
  PROVE  SessionIInv'
  <1> USE SessionTypes DEF SessionIInv
  <1>1. CASE S!LockEnds
    <2>1. /\ UNCHANGED <<token, shown, sReq, tries, strikes, fails, overlapped>>
          /\ locked = "ahead" /\ locked' = "past"
      BY <1>1 DEF S!LockEnds, S!browser
    <2>2. S!TypeOK'
      BY Zenon, <2>1 DEF S!TypeOK, Request, Points, Marks
    <2>3. HoldsNumber' /\ Counted' /\ LockedAtLimit'
      BY <2>1 DEF HoldsNumber, Counted, LockedAtLimit
    <2> QED BY <2>2, <2>3
  <1>2. CASE S!Logout \/ S!TokenExpires
    <2>1. UNCHANGED <<sReq, tries, S!account>>
      BY <1>2 DEF S!Logout, S!TokenExpires
    <2>2. token' \in Workers \cup {No} /\ shown' \in BOOLEAN
      BY Zenon, <1>2 DEF S!Logout, S!TokenExpires
    <2> QED BY <2>1, <2>2, AccountKept
  <1> QED BY <1>1, <1>2

\* The strikes of an account are its failed attempts since the last success or
\* the last lock's end, and there is a lock exactly at the limit, except after
\* attempts that overlap within recordFailedAttempt; an account at the limit is
\* locked even then (accountLockout.ts).
THEOREM StrikesAddUp == S!Spec => [](S!TypeOK /\ S!StrikesCounted)
  <1>1. S!Init => SessionIInv
    <2> SUFFICES ASSUME S!Init PROVE SessionIInv
      OBVIOUS
    <2>1. MaxTries \in Nat /\ MaxAttempts \in Nat /\ ~(0 >= MaxAttempts)
      BY SessionAssumed DEF S!SessionAssumption
    <2>2. sReq \in [Requests -> Request] /\ \A q \in Requests : sReq[q].pc # "write"
      BY IdleRequest DEF S!Init
    <2>3. tries \in 0..MaxTries /\ strikes \in Nat /\ fails \in Nat
      BY <2>1 DEF S!Init
    <2>4. token \in Workers \cup {No}
          /\ locked \in {"none", "ahead", "past"}
      BY DEF S!Init
    <2>5. shown \in BOOLEAN /\ overlapped \in BOOLEAN
      BY DEF S!Init
    <2>6. S!TypeOK
      BY Zenon, <2>2, <2>3, <2>4, <2>5, SessionTypes
    <2> QED BY <2>1, <2>2, <2>6 DEF S!Init, SessionIInv, HoldsNumber, Counted, LockedAtLimit
  <1>2. SessionIInv /\ [S!Next]_S!vars => SessionIInv'
    <2> SUFFICES ASSUME SessionIInv, [S!Next]_S!vars PROVE SessionIInv'
      OBVIOUS
    <2>1. ASSUME NEW q \in Requests, NEW k \in S!SignIns, NEW right \in BOOLEAN, S!Send(q, k, right)
          PROVE  SessionIInv'
      BY <2>1, SessionSendIInv
    <2>2. ASSUME NEW q \in Requests, S!Send(q, "api", FALSE) PROVE SessionIInv'
      BY <2>2, SessionSendIInv
    <2>3. ASSUME NEW q \in Requests, S!Step(q) PROVE SessionIInv'
      <3>1. CASE \E w \in Workers : \/ S!Api(q, w) \/ S!PhoneLogin(q, w)
                                    \/ S!SocialLogin(q, w) \/ S!Login(q, w)
        BY <3>1, ApiIInv, OtherIInv, LoginIInv
      <3>2. CASE S!CheckAccountLockout(q) \/ S!Compare(q) \/ S!ResetStrikes(q) \/ S!CountAttempt(q)
                 \/ S!RecordFailedAttempt(q) \/ S!RefreshRefused(q)
        BY <3>2, GotoIInv, ResetStrikesIInv, CountAttemptIInv, SessionRecordIInv, RefusedIInv
      <3> QED BY <2>3, <3>1, <3>2 DEF S!Step
    <2>4. CASE UNCHANGED S!vars
      BY Zenon, <2>4
      DEF S!vars, SessionIInv, S!TypeOK, HoldsNumber, Counted, LockedAtLimit, S!SignIns,
          Request, Points, Marks
    <2> QED BY <2>1, <2>2, <2>3, <2>4, AloneIInv, SessionRestartIInv DEF S!Next
  <1>3. SessionIInv => S!TypeOK /\ S!StrikesCounted
    BY DEF SessionIInv, Counted, LockedAtLimit, S!StrikesCounted
  <1> QED BY <1>1, <1>2, <1>3, PTL DEF S!Spec
-----------------------------------------------------------------------------
\* The cache of answers.
LEMMA CacheAssumed == C!CacheAssumption
  BY PartsAssumption DEF PartsAssumption

Asks == {"idle", "get", "redis", "del", "source", "set", "set redis", "answer"}
Reading == [pc : Asks, worker : Workers, value : C!Values, since : 0..Flight]
Entries == [entry : C!Values, ex : 0..Ttl + 1]

\* What is left of an entry's life and its age add up to no more than a time to
\* live and a request's time; one that has ended is no older than that either.
SearchCacheFresh(v) == v.age <= Ttl + Flight /\ (v.left > 0 => v.age + v.left <= Ttl + 1 + Flight)

\* A request under way holds nothing older than itself.
Young(x) == SearchCacheFresh(x.value) /\ (x.pc \notin {"idle", "answer"} => x.value.age <= x.since)

AllFresh ==
  /\ \A w \in Workers : SearchCacheFresh(store[w])
  /\ SearchCacheFresh(redis.entry)
  /\ \A q \in Requests : Young(cReq[q])
SearchCacheIInv == C!TypeOK /\ AllFresh
-----------------------------------------------------------------------------
LEMMA CacheTypes ==
  C!TypeOK <=> store \in [Workers -> C!Values] /\ redis \in Entries /\ cReq \in [Requests -> Reading]
  BY DEF C!TypeOK, Entries, Reading, Asks

LEMMA Bounds == Ttl \in Nat /\ Flight \in Nat /\ Ttl > 0 /\ Flight > 0
  BY CacheAssumed DEF C!CacheAssumption

LEMMA ValueFields ==
  \A v : v \in C!Values <=> /\ v = [age |-> v.age, left |-> v.left]
                            /\ v.age \in 0..2 * (Ttl + Flight) /\ v.left \in 0..Ttl + 1
  BY DEF C!Values

LEMMA NoValue == C!None \in C!Values /\ C!None.age = 0 /\ C!None.left = 0 /\ SearchCacheFresh(C!None)
  BY Bounds DEF C!None, C!Values, SearchCacheFresh

LEMMA IdleRead ==
  /\ C!Idle \in Reading /\ C!Idle.pc = "idle" /\ C!Idle.value = C!None /\ C!Idle.since = 0 /\ Young(C!Idle)
  <1>1. (CHOOSE w \in Workers : TRUE) \in Workers
    BY CacheAssumed DEF C!CacheAssumption
  <1>2. C!Idle \in Reading /\ C!Idle.pc = "idle" /\ C!Idle.value = C!None /\ C!Idle.since = 0
    BY <1>1, NoValue, Bounds DEF C!Idle, Reading, Asks
  <1> QED BY <1>2, NoValue DEF Young

\* A value that is fresh has an age a value can have.
LEMMA FreshValue ==
  ASSUME NEW a \in Nat, NEW l \in 0..Ttl + 1, a <= Ttl + Flight
  PROVE  [age |-> a, left |-> l] \in C!Values
  <1>1. a \in 0..2 * (Ttl + Flight)
    BY Bounds
  <1> QED BY <1>1 DEF C!Values

\* One entry a unit of time later.
LEMMA OlderFresh ==
  ASSUME NEW v \in C!Values, SearchCacheFresh(v)
  PROVE  C!Older(v) \in C!Values /\ SearchCacheFresh(C!Older(v))
  <1>1. v.age \in Nat /\ v.left \in 0..Ttl + 1
    BY Bounds DEF C!Values
  <1>2. CASE v.left <= 1
    BY <1>2, NoValue DEF C!Older
  <1>3. CASE ~(v.left <= 1)
    <2> DEFINE u == [age |-> v.age + 1, left |-> v.left - 1]
    <2>1. C!Older(v) = u /\ u.age = v.age + 1 /\ u.left = v.left - 1
      BY <1>3 DEF C!Older
    <2>2. v.age + 1 \in Nat /\ v.left - 1 \in 0..Ttl + 1 /\ v.age + 1 <= Ttl + Flight
          /\ (v.age + 1) + (v.left - 1) <= Ttl + 1 + Flight
      BY <1>1, <1>3, Bounds DEF SearchCacheFresh
    <2>3. u \in C!Values
      BY <2>2, FreshValue
    <2> HIDE DEF u
    <2> QED BY <2>1, <2>2, <2>3 DEF SearchCacheFresh
  <1> QED BY <1>2, <1>3

\* One request becomes d, and the rest stays or gets a value as fresh.
LEMMA OneReads ==
  ASSUME SearchCacheIInv, NEW q \in Requests, NEW d \in Reading, Young(d), cReq' = [cReq EXCEPT ![q] = d],
         \/ store' = store
         \/ \E w \in Workers, v \in C!Values : SearchCacheFresh(v) /\ store' = [store EXCEPT ![w] = v],
         redis' \in Entries, SearchCacheFresh(redis'.entry)
  PROVE  SearchCacheIInv'
  <1> USE CacheTypes DEF SearchCacheIInv
  <1>1. /\ cReq' \in [Requests -> Reading] /\ store' \in [Workers -> C!Values]
    OBVIOUS
  <1>2. \A p \in Requests : Young(cReq'[p])
    BY DEF AllFresh
  <1>3. \A w \in Workers : SearchCacheFresh(store'[w])
    BY DEF AllFresh
  <1>4. C!TypeOK'
    BY <1>1 DEF C!TypeOK, Entries, Reading, Asks
  <1>5. AllFresh'
    BY <1>2, <1>3 DEF AllFresh, Young, SearchCacheFresh
  <1> QED BY <1>4, <1>5

\* A request goes on as it is, or with a value from a cache.
LEMMA GoesOn ==
  ASSUME C!TypeOK, NEW q \in Requests, Young(cReq[q]), cReq[q].pc \notin {"idle", "answer"},
         NEW l \in Asks, C!Goto(q, l)
  PROVE  \E d \in Reading : Young(d) /\ cReq' = [cReq EXCEPT ![q] = d]
  <1> USE CacheTypes
  <1> DEFINE d == [cReq[q] EXCEPT !.pc = l]
  <1>1. d \in Reading /\ d.value = cReq[q].value /\ d.since = cReq[q].since
    BY DEF Reading
  <1>2. cReq' = [cReq EXCEPT ![q] = d]
    BY DEF C!Goto
  <1> HIDE DEF d
  <1>3. Young(d)
    BY <1>1 DEF Young
  <1> QED BY <1>1, <1>2, <1>3

LEMMA HasValue ==
  ASSUME C!TypeOK, NEW q \in Requests, NEW v \in C!Values, SearchCacheFresh(v), C!Has(q, v)
  PROVE  \E d \in Reading : Young(d) /\ cReq' = [cReq EXCEPT ![q] = d]
  <1> USE CacheTypes
  <1> DEFINE d == [cReq[q] EXCEPT !.pc = "answer", !.value = v]
  <1>1. d \in Reading /\ d.value = v /\ d.pc = "answer"
    BY DEF Reading, Asks
  <1>2. cReq' = [cReq EXCEPT ![q] = d]
    BY DEF C!Has
  <1> HIDE DEF d
  <1> QED BY <1>1, <1>2 DEF Young

LEMMA AskIInv ==
  ASSUME SearchCacheIInv, NEW q \in Requests, NEW w \in Workers, C!Ask(q, w)
  PROVE  SearchCacheIInv'
  <1> USE CacheTypes DEF SearchCacheIInv
  <1> DEFINE d == [C!Idle EXCEPT !.pc = "get", !.worker = w]
  <1>1. d \in Reading /\ d.value = C!None /\ d.since = 0
    BY IdleRead DEF Reading, Asks
  <1>2. cReq' = [cReq EXCEPT ![q] = d] /\ UNCHANGED <<store, redis>>
    BY DEF C!Ask
  <1> HIDE DEF d
  <1>3. Young(d)
    BY <1>1, NoValue DEF Young
  <1> QED BY <1>1, <1>2, <1>3, OneReads DEF AllFresh

LEMMA GetIInv ==
  ASSUME SearchCacheIInv, NEW q \in Requests, C!Get(q)
  PROVE  SearchCacheIInv'
  <1> USE CacheTypes DEF SearchCacheIInv
  <1>1. cReq[q].worker \in Workers /\ cReq[q].pc = "get" /\ Young(cReq[q])
    BY DEF Reading, C!Get, C!At, AllFresh
  <1>2. store[cReq[q].worker] \in C!Values /\ SearchCacheFresh(store[cReq[q].worker])
    BY <1>1 DEF AllFresh
  <1>3. /\ C!Has(q, store[cReq[q].worker]) \/ C!Goto(q, "redis") \/ C!Goto(q, "source")
        /\ UNCHANGED <<store, redis>>
    BY DEF C!Get
  <1>4. "redis" \in Asks /\ "source" \in Asks
    BY DEF Asks
  <1>5. PICK d \in Reading : Young(d) /\ cReq' = [cReq EXCEPT ![q] = d]
    BY <1>1, <1>2, <1>3, <1>4, HasValue, GoesOn
  <1> QED BY <1>3, <1>5, OneReads DEF AllFresh

LEMMA GetRedisIInv ==
  ASSUME SearchCacheIInv, NEW q \in Requests, C!GetRedis(q)
  PROVE  SearchCacheIInv'
  <1> USE CacheTypes DEF SearchCacheIInv
  <1>1. cReq[q].worker \in Workers /\ cReq[q].pc = "redis" /\ Young(cReq[q])
    BY DEF Reading, C!GetRedis, C!At, AllFresh
  <1>2. redis.entry \in C!Values /\ SearchCacheFresh(redis.entry)
    BY DEF AllFresh, Entries
  <1>3. /\ \/ /\ C!Has(q, redis.entry) /\ store' = [store EXCEPT ![cReq[q].worker] = redis.entry]
           \/ (C!Goto(q, "del") \/ C!Goto(q, "source")) /\ store' = store
        /\ redis' = redis
    BY DEF C!GetRedis, C!Promoted
  <1>4. "del" \in Asks /\ "source" \in Asks
    BY DEF Asks
  <1>5. PICK d \in Reading : Young(d) /\ cReq' = [cReq EXCEPT ![q] = d]
    BY <1>1, <1>2, <1>3, <1>4, HasValue, GoesOn
  <1>6. \/ store' = store
        \/ \E w \in Workers, v \in C!Values : SearchCacheFresh(v) /\ store' = [store EXCEPT ![w] = v]
    BY <1>1, <1>2, <1>3
  <1> QED BY <1>3, <1>5, <1>6, OneReads DEF AllFresh

LEMMA DelIInv ==
  ASSUME SearchCacheIInv, NEW q \in Requests, C!Del(q)
  PROVE  SearchCacheIInv'
  <1> USE CacheTypes DEF SearchCacheIInv
  <1>1. /\ cReq[q].pc = "del" /\ Young(cReq[q]) /\ C!Goto(q, "source") /\ store' = store
        /\ redis' \in {redis, C!Gone}
    BY DEF C!Del, C!At, AllFresh
  <1>2. C!Gone \in Entries /\ C!Gone.entry = C!None
    BY NoValue, Bounds DEF C!Gone, Entries
  <1>3. redis' \in Entries /\ SearchCacheFresh(redis'.entry)
    BY <1>1, <1>2, NoValue DEF AllFresh
  <1>4. "source" \in Asks
    BY DEF Asks
  <1>5. PICK d \in Reading : Young(d) /\ cReq' = [cReq EXCEPT ![q] = d]
    BY <1>1, <1>4, GoesOn
  <1> QED BY <1>1, <1>3, <1>5, OneReads

\* The value is made from data read now.
LEMMA HandlerIInv ==
  ASSUME SearchCacheIInv, NEW q \in Requests, C!Handler(q)
  PROVE  SearchCacheIInv'
  <1> USE CacheTypes DEF SearchCacheIInv
  <1>1. C!Read(q) \/ C!Nothing(q)
    BY DEF C!Handler, C!GetSearch, C!GetTrainsBetweenStations, C!GetLiveStatus, C!GetPnrStatus,
       C!GetDetails, C!GetSchedule, C!GetFareEnquiry, C!GetCalendar, C!GetVikalp, C!GetAnalytics,
       C!GetMethods, C!GetServiceHealth
  <1> DEFINE d == [cReq[q] EXCEPT !.pc = "set", !.value = C!None]
  <1>2. d \in Reading /\ d.value = C!None /\ d.since = cReq[q].since
    BY NoValue DEF Reading, Asks
  <1>3. cReq[q].since \in Nat
    BY Bounds DEF Reading
  <1>4. /\ cReq' = [cReq EXCEPT ![q] = d] \/ cReq' = [cReq EXCEPT ![q] = C!Idle]
        /\ UNCHANGED <<store, redis>>
    BY <1>1 DEF C!Read, C!Nothing
  <1> HIDE DEF d
  <1>5. Young(d)
    BY <1>2, <1>3, NoValue DEF Young
  <1> QED BY <1>2, <1>4, <1>5, IdleRead, OneReads DEF AllFresh

LEMMA NewLife ==
  ASSUME NEW a \in Nat, NEW s \in 0..Flight, a <= s
  PROVE  a <= Ttl + Flight /\ a + (Ttl + 1) <= Ttl + 1 + Flight
  <1>1. Ttl \in Nat /\ Flight \in Nat /\ s \in Nat /\ s <= Flight
    BY Bounds
  <1> QED BY <1>1

LEMMA SetIInv ==
  ASSUME SearchCacheIInv, NEW q \in Requests, C!Set(q)
  PROVE  SearchCacheIInv'
  <1> USE CacheTypes DEF SearchCacheIInv
  <1> DEFINE v == [cReq[q].value EXCEPT !.left = Ttl + 1]
  <1>1. cReq[q] \in Reading /\ cReq[q].pc = "set" /\ Young(cReq[q])
    BY DEF C!Set, C!At, AllFresh
  <1>2. /\ cReq[q].value \in C!Values /\ cReq[q].value.age \in Nat /\ cReq[q].since \in 0..Flight
        /\ cReq[q].value.age <= cReq[q].since /\ cReq[q].worker \in Workers
    BY <1>1, Bounds DEF Reading, Young, C!Values
  <1>3. v \in C!Values /\ v.age = cReq[q].value.age /\ v.left = Ttl + 1
    BY <1>2, Bounds DEF C!Values
  <1>4. PICK l \in {"set redis", "answer"} :
          /\ cReq' = [cReq EXCEPT ![q].pc = l, ![q].value = v]
          /\ store' = [store EXCEPT ![cReq[q].worker] = v] /\ redis' = redis
    BY DEF C!Set
  <1> DEFINE d == [cReq[q] EXCEPT !.pc = l, !.value = v]
  <1> HIDE DEF v
  <1>5. d \in Reading /\ d.value = v /\ d.since = cReq[q].since
    BY <1>1, <1>3, <1>4 DEF Reading, Asks
  <1>6. cReq' = [cReq EXCEPT ![q] = d]
    BY <1>4
  <1> HIDE DEF d
  <1>7. SearchCacheFresh(v)
    <2>1. v.age <= Ttl + Flight /\ v.age + v.left <= Ttl + 1 + Flight
      BY <1>2, <1>3, NewLife
    <2> QED BY <2>1 DEF SearchCacheFresh
  <1>8. Young(d)
    BY <1>2, <1>3, <1>5, <1>7 DEF Young
  <1> QED BY <1>2, <1>3, <1>4, <1>5, <1>6, <1>7, <1>8, OneReads DEF AllFresh

LEMMA SetRedisIInv ==
  ASSUME SearchCacheIInv, NEW q \in Requests, C!SetRedis(q)
  PROVE  SearchCacheIInv'
  <1> USE CacheTypes DEF SearchCacheIInv
  <1> DEFINE e == [entry |-> cReq[q].value, ex |-> Ttl + 1]
  <1>1. /\ cReq[q] \in Reading /\ cReq[q].pc = "set redis" /\ Young(cReq[q]) /\ C!Goto(q, "answer")
        /\ store' = store /\ redis' \in {redis, e}
    BY DEF C!SetRedis, C!At, AllFresh
  <1>2. e \in Entries /\ e.entry = cReq[q].value
    <2>1. cReq[q].value \in C!Values
      BY <1>1 DEF Reading
    <2>2. Ttl + 1 \in 0..Ttl + 1
      BY Bounds
    <2> QED BY <2>1, <2>2 DEF Entries
  <1> HIDE DEF e
  <1>3. redis' \in Entries /\ SearchCacheFresh(redis'.entry)
    BY <1>1, <1>2 DEF AllFresh, Young
  <1>4. "answer" \in Asks
    BY DEF Asks
  <1>5. PICK d \in Reading : Young(d) /\ cReq' = [cReq EXCEPT ![q] = d]
    BY <1>1, <1>4, GoesOn
  <1> QED BY <1>1, <1>3, <1>5, OneReads

LEMMA AnswerIInv ==
  ASSUME SearchCacheIInv, NEW q \in Requests, C!Answer(q)
  PROVE  SearchCacheIInv'
  BY IdleRead, OneReads, CacheTypes DEF C!Answer, AllFresh, SearchCacheIInv

\* Everything is a unit of time older: the requests under way, too.
LEMMA SearchCacheTickIInv ==
  ASSUME SearchCacheIInv, C!Tick
  PROVE  SearchCacheIInv'
  <1> USE CacheTypes DEF SearchCacheIInv
  <1> DEFINE Aged(x) == [x EXCEPT !.since = x.since + 1,
                           !.value = [age |-> x.value.age + 1, left |-> C!Less(x.value.left)]]
             e == [entry |-> C!Older(redis.entry), ex |-> redis.ex - 1]
  <1>1. /\ \A q \in Requests :
             cReq[q].pc = "idle" \/ (cReq[q].pc # "answer" /\ cReq[q].since < Flight)
        /\ store' = [w \in Workers |-> C!Older(store[w])]
        /\ redis' = IF redis.ex <= 1 THEN C!Gone ELSE e
        /\ cReq' = [q \in Requests |-> IF cReq[q].pc = "idle" THEN cReq[q] ELSE Aged(cReq[q])]
    BY DEF C!Tick, C!At
  <1>2. store' \in [Workers -> C!Values] /\ \A w \in Workers : SearchCacheFresh(store'[w])
    BY <1>1, OlderFresh DEF AllFresh
  <1>3. redis' \in Entries /\ SearchCacheFresh(redis'.entry)
    <2>1. C!Gone \in Entries /\ C!Gone.entry = C!None
      BY NoValue, Bounds DEF C!Gone, Entries
    <2>2. redis.entry \in C!Values /\ redis.ex \in 0..Ttl + 1 /\ SearchCacheFresh(redis.entry)
      BY DEF Entries, AllFresh
    <2>3. ~(redis.ex <= 1) => redis.ex - 1 \in 0..Ttl + 1
      BY <2>2, Bounds
    <2>4. C!Older(redis.entry) \in C!Values /\ SearchCacheFresh(C!Older(redis.entry))
      BY <2>2, OlderFresh
    <2>5. ~(redis.ex <= 1) => e \in Entries /\ e.entry = C!Older(redis.entry)
      BY <2>3, <2>4 DEF Entries
    <2> HIDE DEF e
    <2> QED BY <1>1, <2>1, <2>4, <2>5, NoValue
  <1>4. ASSUME NEW q \in Requests, cReq[q].pc # "idle"
        PROVE  Aged(cReq[q]) \in Reading /\ Young(Aged(cReq[q]))
    <2> DEFINE x == cReq[q]
               a == x.value.age + 1
               l == C!Less(x.value.left)
               u == [age |-> a, left |-> l]
    <2>1. x \in Reading /\ x.value \in C!Values /\ x.since \in 0..Flight /\ x.since < Flight
          /\ x.pc # "answer" /\ Young(x) /\ x.pc \in Asks /\ x.worker \in Workers
      BY <1>1, <1>4 DEF Reading, AllFresh
    <2>2. x.value.age \in Nat /\ x.value.left \in 0..Ttl + 1 /\ x.value.age <= x.since
          /\ SearchCacheFresh(x.value)
      BY <1>4, <2>1, Bounds DEF C!Values, Young
    <2>3. a \in Nat /\ l \in 0..Ttl + 1 /\ a <= x.since + 1 /\ x.since + 1 \in 0..Flight
          /\ a <= Ttl + Flight /\ (l > 0 => a + l <= Ttl + 1 + Flight)
      BY <2>1, <2>2, Bounds DEF C!Less, SearchCacheFresh
    <2>4. u \in C!Values /\ u.age = a /\ u.left = l
      BY <2>3, FreshValue
    <2>5. Aged(x) = [x EXCEPT !.since = x.since + 1, !.value = u]
      OBVIOUS
    <2> HIDE DEF a, l, u, x, Aged
    <2>6. Aged(x) \in Reading /\ Aged(x).value = u /\ Aged(x).since = x.since + 1
      BY <2>1, <2>3, <2>4, <2>5 DEF Reading
    <2>7. Young(Aged(x))
      BY <2>3, <2>4, <2>6 DEF Young, SearchCacheFresh
    <2> QED BY <2>6, <2>7 DEF x
  <1> HIDE DEF Aged
  <1>5. cReq' \in [Requests -> Reading]
    BY <1>1, <1>4
  <1>6. \A q \in Requests : Young(cReq'[q])
    BY <1>1, <1>4 DEF AllFresh
  <1>7. C!TypeOK'
    BY <1>2, <1>3, <1>5 DEF C!TypeOK, Entries, Reading, Asks
  <1>8. AllFresh'
    BY <1>2, <1>3, <1>6 DEF AllFresh, Young, SearchCacheFresh
  <1> QED BY <1>7, <1>8

LEMMA SearchCacheRestartIInv ==
  ASSUME SearchCacheIInv, NEW w \in Workers, C!Restart(w)
  PROVE  SearchCacheIInv'
  <1> USE CacheTypes DEF SearchCacheIInv
  <1>1. /\ store' = [store EXCEPT ![w] = C!None] /\ redis' = redis
        /\ cReq' = [q \in Requests |-> IF cReq[q].worker = w THEN C!Idle ELSE cReq[q]]
    BY DEF C!Restart
  <1>2. store' \in [Workers -> C!Values] /\ cReq' \in [Requests -> Reading]
    BY <1>1, NoValue, IdleRead
  <1>3. \A v \in Workers : SearchCacheFresh(store'[v])
    BY <1>1, NoValue DEF AllFresh
  <1>4. \A q \in Requests : Young(cReq'[q])
    BY <1>1, IdleRead DEF AllFresh
  <1>5. C!TypeOK'
    BY <1>1, <1>2 DEF C!TypeOK, Entries, Reading, Asks
  <1>6. AllFresh'
    BY <1>1, <1>3, <1>4 DEF AllFresh, Young, SearchCacheFresh
  <1> QED BY <1>5, <1>6

\* An answer is no older than its time to live and the time of one request,
\* however the memories and Redis hand it on (services/cache.service.ts).
THEOREM AnswersYoung == C!Spec => [](C!TypeOK /\ C!AnswerAge)
  <1>1. C!Init => SearchCacheIInv
    <2> SUFFICES ASSUME C!Init PROVE SearchCacheIInv
      OBVIOUS
    <2>1. C!Gone \in Entries /\ C!Gone.entry = C!None
      BY NoValue, Bounds DEF C!Gone, Entries
    <2>2. C!TypeOK
      BY <2>1, NoValue, IdleRead, CacheTypes DEF C!Init
    <2>3. AllFresh
      BY <2>1, NoValue, IdleRead DEF C!Init, AllFresh
    <2> QED BY <2>2, <2>3 DEF SearchCacheIInv
  <1>2. SearchCacheIInv /\ [C!Next]_C!vars => SearchCacheIInv'
    <2>1. ASSUME SearchCacheIInv, UNCHANGED C!vars PROVE SearchCacheIInv'
      BY <2>1 DEF C!vars, SearchCacheIInv, C!TypeOK, C!Values, AllFresh, Young, SearchCacheFresh
    <2> QED BY <2>1, SearchCacheTickIInv, SearchCacheRestartIInv, AskIInv, GetIInv,
               GetRedisIInv, DelIInv, HandlerIInv,
          SetIInv, SetRedisIInv, AnswerIInv DEF C!Next
  <1>3. SearchCacheIInv => C!TypeOK /\ C!AnswerAge
    BY DEF SearchCacheIInv, AllFresh, Young, SearchCacheFresh, C!AnswerAge
  <1> QED BY <1>1, <1>2, <1>3, PTL DEF C!Spec
-----------------------------------------------------------------------------
\* The copying of trains a search learns of.
LEMMA SyncAssumed == T!SyncAssumption
  BY PartsAssumption DEF PartsAssumption

SearchPoints == {"idle", "from", "to", "select", "train", "coaches", "seats", "results"}
Search == [pc : SearchPoints, list : Lists \cup {<<>>}, i : Nat]
InList(x) == x.pc # "idle" => x.list \in Lists /\ x.i \in 1..Len(x.list)

\* A search that inserts the seats of a train has inserted its coaches.
CoachesFirst == \A q \in Requests : T!At(q, "seats") => T!Train(q) \in coaches
TrainSyncIInv == T!TypeOK /\ CoachesFirst /\ T!SeatsComeWithTrain
-----------------------------------------------------------------------------
LEMMA SyncTypes ==
  T!TypeOK <=> /\ stations \subseteq {"from", "to"}
               /\ trains \subseteq Trains /\ coaches \subseteq Trains /\ seats \subseteq Trains
               /\ cut \subseteq Trains
               /\ search \in [Requests -> Search] /\ \A q \in Requests : InList(search[q])
  <1>1. ASSUME search \in [Requests -> Search]
        PROVE  (\A q \in Requests : InList(search[q]))
               <=> \A q \in Requests : ~T!At(q, "idle") =>
                     search[q].list # <<>> /\ search[q].i \in 1..Len(search[q].list)
    <2> SUFFICES ASSUME NEW q \in Requests
                 PROVE  InList(search[q]) <=>
                          (~T!At(q, "idle") =>
                             search[q].list # <<>> /\ search[q].i \in 1..Len(search[q].list))
      OBVIOUS
    <2>1. search[q].list \in Lists \cup {<<>>}
      BY <1>1 DEF Search
    <2>2. \A l \in Lists : l # <<>>
      BY SyncAssumed DEF T!SyncAssumption
    <2> QED BY <2>1, <2>2 DEF InList, T!At
  <1> QED BY <1>1 DEF T!TypeOK, Search, SearchPoints

LEMMA IdleSearch == T!Idle \in Search /\ InList(T!Idle) /\ T!Idle.pc = "idle"
  BY DEF T!Idle, Search, SearchPoints, InList

LEMMA TrainType ==
  ASSUME NEW x \in Search, x.pc # "idle", InList(x)
  PROVE  x.list[x.i] \in Trains
  BY SyncAssumed DEF T!SyncAssumption, InList

\* What a search becomes: at a new point of the same train, at the next train,
\* at the next stage, or idle.
Moved(q, pcs) ==
  \E d \in Search :
    /\ InList(d) /\ search' = [search EXCEPT ![q] = d] /\ d.pc \in pcs

LEMMA GotoMoves ==
  ASSUME T!TypeOK, NEW q \in Requests, search[q].pc # "idle", NEW l \in SearchPoints, T!Goto(q, l)
  PROVE  \E d \in Search : /\ InList(d) /\ search' = [search EXCEPT ![q] = d]
                           /\ d.pc = l /\ d.list[d.i] = T!Train(q)
  <1> USE SyncTypes
  <1> DEFINE d == [search[q] EXCEPT !.pc = l]
  <1>1. d \in Search /\ d.pc = l /\ d.list = search[q].list /\ d.i = search[q].i
    BY DEF Search
  <1>2. search' = [search EXCEPT ![q] = d]
    BY DEF T!Goto
  <1> HIDE DEF d
  <1> QED BY <1>1, <1>2 DEF InList, T!Train

LEMMA OnwardMoves ==
  ASSUME T!TypeOK, NEW q \in Requests, search[q].pc # "idle",
         NEW l \in SearchPoints, NEW after \in SearchPoints, T!Onward(q, l, after)
  PROVE  Moved(q, {l, after})
  <1> USE SyncTypes
  <1> DEFINE d == [search[q] EXCEPT !.pc = l, !.i = search[q].i + 1]
             e == [search[q] EXCEPT !.pc = after, !.i = 1]
  <1>1. /\ search[q].list \in Lists /\ search[q].i \in 1..Len(search[q].list)
        /\ Len(search[q].list) \in Nat /\ Len(search[q].list) > 0
    BY SyncAssumed DEF InList, T!SyncAssumption
  <1>n. search[q].i \in Nat /\ search[q].i + 1 \in Nat
    BY <1>1
  <1>2. d \in Search /\ d.pc = l /\ d.list = search[q].list /\ d.i = search[q].i + 1
    BY <1>n DEF Search
  <1>3. e \in Search /\ e.pc = after /\ e.list = search[q].list /\ e.i = 1
    BY <1>1 DEF Search
  <1>4. search' = [search EXCEPT ![q] =
                     IF search[q].i < Len(search[q].list) THEN d ELSE e]
    BY DEF T!Onward
  <1> HIDE DEF d, e
  <1>5. CASE search[q].i < Len(search[q].list)
    <2>1. InList(d)
      BY <1>1, <1>2, <1>5 DEF InList
    <2> QED BY <1>2, <1>4, <1>5, <2>1 DEF Moved
  <1>6. CASE ~(search[q].i < Len(search[q].list))
    <2>1. InList(e)
      BY <1>1, <1>3 DEF InList
    <2> QED BY <1>3, <1>4, <1>6, <2>1 DEF Moved
  <1> QED BY <1>5, <1>6

\* A step of one search that does not come to a train's seats, while it owes
\* none their coaches or seats, or owes them to a train it is about to leave.
LEMMA SearchMoves ==
  ASSUME TrainSyncIInv, NEW q \in Requests, NEW d \in Search, InList(d),
         search' = [search EXCEPT ![q] = d], d.pc # "seats",
         stations' \subseteq {"from", "to"}, UNCHANGED <<trains, coaches>>,
         seats' \subseteq Trains, seats \subseteq seats', cut' \subseteq Trains, cut \subseteq cut',
         search[q].pc \in {"coaches", "seats"} =>
           T!Train(q) \in cut' \/ T!Train(q) \in coaches \cap seats'
  PROVE  TrainSyncIInv'
  <1> USE SyncTypes DEF TrainSyncIInv
  <1>1. /\ search' \in [Requests -> Search]
        /\ \A p \in Requests : search'[p] = IF p = q THEN d ELSE search[p]
    OBVIOUS
  <1>2. \A p \in Requests : InList(search'[p])
    BY <1>1
  <1>3. T!TypeOK'
    <2>1. \A p \in Requests : ~(search'[p].pc = "idle") =>
            search'[p].list # <<>> /\ search'[p].i \in 1..Len(search'[p].list)
      <3> SUFFICES ASSUME NEW p \in Requests, search'[p].pc # "idle"
                   PROVE  search'[p].list # <<>> /\ search'[p].i \in 1..Len(search'[p].list)
        OBVIOUS
      <3>1. search'[p].list \in Lists /\ search'[p].i \in 1..Len(search'[p].list)
        BY <1>2 DEF InList
      <3> QED BY <3>1, SyncAssumed DEF T!SyncAssumption
    <2> QED BY <1>1, <2>1 DEF T!TypeOK, Search, SearchPoints, T!At
  <1>4. CoachesFirst'
    BY <1>1 DEF CoachesFirst, T!At, T!Train
  <1>5. T!SeatsComeWithTrain'
    <2> SUFFICES ASSUME NEW t \in trains, t \notin cut', ~(t \in coaches \cap seats')
                 PROVE  \E p \in Requests : search'[p].pc \in {"coaches", "seats"}
                                            /\ search'[p].list[search'[p].i] = t
      BY DEF T!SeatsComeWithTrain, T!Syncing, T!Train
    <2>1. PICK p \in Requests : T!Syncing(p, t)
      BY DEF T!SeatsComeWithTrain
    <2>2. p # q
      BY <2>1 DEF T!Syncing
    <2> QED BY <1>1, <2>1, <2>2 DEF T!Syncing, T!Train
  <1> QED BY <1>3, <1>4, <1>5

\* A search comes to a train's coaches, whose row it has inserted, or to its
\* seats, whose coaches it has inserted.
LEMMA ToRows ==
  ASSUME TrainSyncIInv, NEW q \in Requests, NEW d \in Search, InList(d),
         search' = [search EXCEPT ![q] = d],
         \/ /\ T!At(q, "train") /\ d.pc = "coaches" /\ coaches' = coaches
            /\ trains' = trains \cup {d.list[d.i]}
         \/ /\ T!At(q, "coaches") /\ d.pc = "seats" /\ T!Train(q) = d.list[d.i] /\ trains' = trains
            /\ coaches' = coaches \cup {d.list[d.i]},
         UNCHANGED <<stations, seats, cut>>
  PROVE  TrainSyncIInv'
  <1> USE SyncTypes DEF TrainSyncIInv
  <1> DEFINE t == d.list[d.i]
  <1>1. /\ search' \in [Requests -> Search]
        /\ \A p \in Requests : search'[p] = IF p = q THEN d ELSE search[p]
    OBVIOUS
  <1>2. \A p \in Requests : InList(search'[p])
    BY <1>1
  <1>3. t \in Trains
    BY TrainType
  <1>4. T!TypeOK'
    <2>1. \A p \in Requests : ~(search'[p].pc = "idle") =>
            search'[p].list # <<>> /\ search'[p].i \in 1..Len(search'[p].list)
      <3> SUFFICES ASSUME NEW p \in Requests, search'[p].pc # "idle"
                   PROVE  search'[p].list # <<>> /\ search'[p].i \in 1..Len(search'[p].list)
        OBVIOUS
      <3>1. search'[p].list \in Lists /\ search'[p].i \in 1..Len(search'[p].list)
        BY <1>2 DEF InList
      <3> QED BY <3>1, SyncAssumed DEF T!SyncAssumption
    <2> QED BY <1>1, <1>3, <2>1 DEF T!TypeOK, Search, SearchPoints, T!At
  <1>5. CoachesFirst'
    BY <1>1 DEF CoachesFirst, T!At, T!Train
  <1>6. T!SeatsComeWithTrain'
    <2> SUFFICES ASSUME NEW u \in trains', u \notin cut, ~(u \in coaches' \cap seats)
                 PROVE  \E p \in Requests : search'[p].pc \in {"coaches", "seats"}
                                            /\ search'[p].list[search'[p].i] = u
      BY DEF T!SeatsComeWithTrain, T!Syncing, T!Train
    <2>1. CASE u = t
      BY <1>1, <2>1
    <2>2. CASE u # t
      <3>1. u \in trains /\ ~(u \in coaches \cap seats)
        BY <2>2
      <3>2. PICK p \in Requests : T!Syncing(p, u)
        BY <3>1 DEF T!SeatsComeWithTrain
      <3>3. p # q
        BY <2>2, <3>2 DEF T!Syncing, T!At
      <3> QED BY <1>1, <3>2, <3>3 DEF T!Syncing, T!Train
    <2> QED BY <2>1, <2>2
  <1> QED BY <1>4, <1>5, <1>6

\* Each step of a search.
LEMMA SyncStep ==
  ASSUME TrainSyncIInv, NEW q \in Requests,
         \/ \E list \in Lists : T!Begin(q, list)
         \/ T!Stations(q) \/ T!Select(q) \/ T!InsertTrain(q) \/ T!InsertCoaches(q)
         \/ T!InsertSeats(q) \/ T!Results(q) \/ T!Fail(q)
  PROVE  TrainSyncIInv'
  <1> USE SyncTypes DEF TrainSyncIInv
  <1>p. /\ "idle" \in SearchPoints /\ "to" \in SearchPoints /\ "select" \in SearchPoints
        /\ "train" \in SearchPoints /\ "coaches" \in SearchPoints /\ "seats" \in SearchPoints
        /\ "results" \in SearchPoints
    BY DEF SearchPoints
  <1>1. ASSUME NEW list \in Lists, T!Begin(q, list) PROVE TrainSyncIInv'
    <2> DEFINE d == [T!Idle EXCEPT !.pc = "from", !.list = list]
    <2>1. d \in Search /\ d.pc = "from" /\ d.list = list /\ d.i = 1
      BY DEF T!Idle, Search, SearchPoints
    <2>i. 1 \in 1..Len(list)
      BY SyncAssumed DEF T!SyncAssumption
    <2>2. search' = [search EXCEPT ![q] = d] /\ search[q].pc = "idle"
          /\ UNCHANGED <<stations, trains, coaches, seats, cut>>
      BY <1>1 DEF T!Begin, T!At
    <2> HIDE DEF d
    <2>3. InList(d)
      BY <2>1, <2>i DEF InList
    <2> QED BY <2>1, <2>2, <2>3, SearchMoves
  <1>2. CASE T!Stations(q)
    <2>1. /\ search[q].pc \in {"from", "to"} /\ (T!Goto(q, "to") \/ T!Goto(q, "select"))
          /\ stations' \subseteq {"from", "to"} /\ UNCHANGED <<trains, coaches, seats, cut>>
      BY <1>2 DEF T!Stations, T!At
    <2>2. PICK d \in Search : /\ InList(d) /\ search' = [search EXCEPT ![q] = d]
                              /\ d.pc # "seats"
      BY <1>p, <2>1, GotoMoves
    <2> QED BY <2>1, <2>2, SearchMoves
  <1>3. CASE T!Select(q)
    <2>1. /\ search[q].pc = "select" /\ (T!Onward(q, "select", "results") \/ T!Goto(q, "train"))
          /\ UNCHANGED <<stations, trains, coaches, seats, cut>>
      BY <1>3 DEF T!Select, T!At
    <2>2. T!Goto(q, "train") => \E d \in Search :
            InList(d) /\ search' = [search EXCEPT ![q] = d] /\ d.pc = "train"
      BY <1>p, <2>1, GotoMoves
    <2>3. T!Onward(q, "select", "results") => Moved(q, {"select", "results"})
      BY <1>p, <2>1, OnwardMoves
    <2>4. PICK d \in Search : /\ InList(d) /\ search' = [search EXCEPT ![q] = d]
                              /\ d.pc # "seats"
      BY <2>1, <2>2, <2>3 DEF Moved
    <2> QED BY <2>1, <2>4, SearchMoves
  <1>4. CASE T!InsertTrain(q)
    <2>1. /\ search[q].pc = "train" /\ UNCHANGED <<stations, coaches, seats, cut>>
          /\ trains' = trains \cup {T!Train(q)}
      BY <1>4 DEF T!InsertTrain, T!At
    <2>2. CASE T!Train(q) \in trains
      <3>1. search' = [search EXCEPT ![q] = T!Idle] /\ trains' = trains
        BY <1>4, <2>1, <2>2 DEF T!InsertTrain
      <3> QED BY <2>1, <3>1, IdleSearch, SearchMoves
    <2>3. CASE T!Train(q) \notin trains
      <3>1. T!Goto(q, "coaches")
        BY <1>4, <2>3 DEF T!InsertTrain
      <3>2. PICK d \in Search : /\ InList(d) /\ search' = [search EXCEPT ![q] = d]
                                /\ d.pc = "coaches" /\ d.list[d.i] = T!Train(q)
        BY <1>p, <2>1, <3>1, GotoMoves
      <3> QED BY <2>1, <3>2, ToRows DEF T!At
    <2> QED BY <2>2, <2>3
  <1>5. CASE T!InsertCoaches(q)
    <2>1. /\ search[q].pc = "coaches" /\ UNCHANGED <<stations, trains, seats, cut>>
          /\ coaches' = coaches \cup {T!Train(q)} /\ T!Goto(q, "seats")
      BY <1>5 DEF T!InsertCoaches, T!At
    <2>2. PICK d \in Search : /\ InList(d) /\ search' = [search EXCEPT ![q] = d]
                              /\ d.pc = "seats" /\ d.list[d.i] = T!Train(q)
      BY <1>p, <2>1, GotoMoves
    <2> QED BY <2>1, <2>2, ToRows DEF T!At
  <1>6. CASE T!InsertSeats(q)
    <2>1. /\ search[q].pc = "seats" /\ UNCHANGED <<stations, trains, coaches, cut>>
          /\ seats' = seats \cup {T!Train(q)} /\ T!Onward(q, "select", "results")
      BY <1>6 DEF T!InsertSeats, T!Seated, T!At
    <2>2. PICK d \in Search : /\ InList(d) /\ search' = [search EXCEPT ![q] = d]
                              /\ d.pc \in {"select", "results"}
      BY <1>p, <2>1, OnwardMoves DEF Moved
    <2>3. T!Train(q) \in coaches /\ T!Train(q) \in Trains
      BY <2>1 DEF CoachesFirst, T!At
    <2> QED BY <2>1, <2>2, <2>3, SearchMoves
  <1>7. CASE T!Results(q)
    <2>1. /\ search[q].pc = "results" /\ UNCHANGED <<stations, trains, coaches, seats, cut>>
          /\ T!Onward(q, "results", "idle")
      BY <1>7 DEF T!Results, T!At
    <2>2. PICK d \in Search : /\ InList(d) /\ search' = [search EXCEPT ![q] = d]
                              /\ d.pc \in {"results", "idle"}
      BY <1>p, <2>1, OnwardMoves DEF Moved
    <2> QED BY <2>1, <2>2, SearchMoves
  <1>8. CASE T!Fail(q)
    <2>1. /\ search[q].pc # "idle" /\ UNCHANGED <<stations, trains, coaches, seats>>
          /\ cut' = cut \cup {t \in Trains : T!Syncing(q, t)}
          /\ search' = [search EXCEPT ![q] = T!Idle]
      BY <1>8 DEF T!Fail, T!At
    <2>2. T!Train(q) \in Trains
      BY <2>1, TrainType DEF T!Train
    <2>3. search[q].pc \in {"coaches", "seats"} => T!Train(q) \in cut'
      BY <2>1, <2>2 DEF T!Syncing
    <2>4. cut' \subseteq Trains
      BY <2>1
    <2> QED BY <2>1, <2>3, <2>4, IdleSearch, SearchMoves
  <1> QED BY <1>1, <1>2, <1>3, <1>4, <1>5, <1>6, <1>7, <1>8

\* A train that can be found can be booked, unless a search is about to insert
\* its coaches and seats or one was cut short (train.routes.ts 88-205).
THEOREM TrainsBookable == T!Spec => [](T!TypeOK /\ T!SeatsComeWithTrain)
  <1>1. T!Init => TrainSyncIInv
    <2> SUFFICES ASSUME T!Init PROVE TrainSyncIInv
      OBVIOUS
    <2>1. \A q \in Requests : search[q] = T!Idle
      BY DEF T!Init
    <2>2. search \in [Requests -> Search] /\ \A q \in Requests : InList(search[q])
      BY <2>1, IdleSearch DEF T!Init
    <2> QED BY <2>1, <2>2, IdleSearch, SyncTypes
            DEF T!Init, TrainSyncIInv, CoachesFirst, T!SeatsComeWithTrain, T!At
  <1>2. TrainSyncIInv /\ [T!Next]_T!vars => TrainSyncIInv'
    <2>1. ASSUME TrainSyncIInv, UNCHANGED T!vars PROVE TrainSyncIInv'
      BY <2>1
      DEF T!vars, TrainSyncIInv, T!TypeOK, T!At, CoachesFirst, T!SeatsComeWithTrain, T!Syncing,
          T!Train
    <2> QED BY <2>1, SyncStep DEF T!Next
  <1>3. TrainSyncIInv => T!TypeOK /\ T!SeatsComeWithTrain
    BY DEF TrainSyncIInv
  <1> QED BY <1>1, <1>2, <1>3, PTL DEF T!Spec
-----------------------------------------------------------------------------
\* A notification and its retries.
LEMMA NotesAssumed == N!NotesAssumption
  BY PartsAssumption DEF PartsAssumption

NoteRow == [status : {"none", "SENT", "FAILED"}, count : Nat, due : {"never", "later", "now"}]

\* A FAILED row that has not used its three retries up has a time for the next:
\* no timer, with however old a copy of it, leaves it without one.
NeverUnattended ==
  \A n \in Notes : row[n].status = "FAILED" /\ row[n].count < N!MAX_RETRIES => row[n].due # "never"
NotificationsIInv == N!TypeOK /\ NeverUnattended
-----------------------------------------------------------------------------
LEMMA NoteTypes ==
  N!TypeOK <=> /\ sender \in [Notes -> {"new", "failed", "done"}] /\ row \in [Notes -> NoteRow]
               /\ batch \in [Workers -> [Notes -> 0..3]] /\ faults \in 0..MaxFaults
  BY DEF N!TypeOK, NoteRow, N!Unread, N!MAX_RETRIES

LEMMA EmptyBatch == N!Empty \in [Notes -> 0..3]
  BY DEF N!Empty, N!Unread, N!MAX_RETRIES

\* One row becomes d, which has a time if it needs one, or none does.
LEMMA OneRow ==
  ASSUME NotificationsIInv, sender' \in [Notes -> {"new", "failed", "done"}],
         batch' \in [Workers -> [Notes -> 0..3]], faults' \in 0..MaxFaults,
         \/ row' = row
         \/ \E n \in Notes, d \in NoteRow :
              /\ row' = [row EXCEPT ![n] = d]
              /\ d.status = "FAILED" /\ d.count < N!MAX_RETRIES => d.due # "never"
  PROVE  NotificationsIInv'
  <1> USE NoteTypes DEF NotificationsIInv
  <1>1. row' \in [Notes -> NoteRow]
    OBVIOUS
  <1>2. N!TypeOK'
    BY <1>1 DEF N!TypeOK, NoteRow, N!Unread, N!MAX_RETRIES
  <1>3. NeverUnattended'
    BY DEF NeverUnattended, N!MAX_RETRIES
  <1> QED BY <1>2, <1>3

LEMMA FaultBound ==
  ASSUME N!TypeOK, N!Fault
  PROVE  faults' \in 0..MaxFaults
  BY NotesAssumed, NoteTypes DEF N!Fault, N!NotesAssumption

LEMMA NotificationsSendIInv ==
  ASSUME NotificationsIInv, NEW n \in Notes, N!Send(n) \/ N!RecordFailure(n) \/ N!Due(n)
  PROVE  NotificationsIInv'
  <1> USE NoteTypes DEF NotificationsIInv
  <1>1. CASE N!Send(n)
    BY <1>1, OneRow DEF N!Send
  <1>2. CASE N!RecordFailure(n)
    <2> DEFINE d == [N!NoRow EXCEPT !.status = "FAILED", !.due = "later"]
    <2>1. d \in NoteRow /\ d.due = "later"
      BY DEF N!NoRow, NoteRow
    <2>2. /\ sender' = [sender EXCEPT ![n] = "done"] /\ batch' = batch
          /\ \/ row' = [row EXCEPT ![n] = d] /\ faults' = faults
             \/ N!Fault /\ row' = row
      BY <1>2 DEF N!RecordFailure
    <2> HIDE DEF d
    <2>3. faults' \in 0..MaxFaults /\ sender' \in [Notes -> {"new", "failed", "done"}]
      BY <2>2, FaultBound
    <2> QED BY <2>1, <2>2, <2>3, OneRow
  <1>3. CASE N!Due(n)
    <2> DEFINE d == [row[n] EXCEPT !.due = "now"]
    <2>1. d \in NoteRow /\ d.due = "now"
      BY DEF NoteRow
    <2>2. row' = [row EXCEPT ![n] = d] /\ UNCHANGED <<sender, batch, faults>>
      BY <1>3 DEF N!Due
    <2> HIDE DEF d
    <2> QED BY <2>1, <2>2, OneRow
  <1> QED BY <1>1, <1>2, <1>3

LEMMA SelectDueIInv ==
  ASSUME NotificationsIInv, NEW w \in Workers, N!SelectDue(w)
  PROVE  NotificationsIInv'
  <1> USE NoteTypes DEF NotificationsIInv
  <1> DEFINE b == [n \in Notes |-> IF N!IsDue(n) THEN row[n].count ELSE N!Unread]
  <1>1. b \in [Notes -> 0..3]
    <2>1. ASSUME NEW n \in Notes, N!IsDue(n) PROVE row[n].count \in 0..3
      <3>1. row[n] \in NoteRow /\ row[n].count < 3
        BY <2>1 DEF N!IsDue, N!MAX_RETRIES
      <3>2. row[n].count \in Nat
        BY <3>1 DEF NoteRow
      <3>3. \A c \in Nat : c < 3 => c \in 0..3
        OBVIOUS
      <3> QED BY <3>1, <3>2, <3>3
    <2>2. N!Unread \in 0..3
      BY DEF N!Unread, N!MAX_RETRIES
    <2> QED BY <2>1, <2>2
  <1>2. batch' = [batch EXCEPT ![w] = b] /\ UNCHANGED <<sender, row, faults>>
    BY DEF N!SelectDue
  <1> HIDE DEF b
  <1> QED BY <1>1, <1>2, OneRow

\* A row is sent, or gets its next try after what the batch says of it.
LEMMA RetryIInv ==
  ASSUME NotificationsIInv, NEW w \in Workers, NEW n \in Notes, N!Retry(w, n)
  PROVE  NotificationsIInv'
  <1> USE NoteTypes DEF NotificationsIInv
  <1>1. /\ sender' = sender /\ row[n] \in NoteRow /\ row[n].count \in Nat
        /\ batch[w][n] \in 0..3
    BY DEF N!Retry, NoteRow
  <1>2. CASE /\ row' = [row EXCEPT ![n] = [status |-> "SENT", count |-> @.count + 1, due |-> "never"]]
             /\ batch' = [batch EXCEPT ![w][n] = N!Unread] /\ UNCHANGED faults
    <2> DEFINE d == [status |-> "SENT", count |-> row[n].count + 1, due |-> "never"]
    <2>1. d \in NoteRow /\ d.status = "SENT"
      BY <1>1 DEF NoteRow
    <2>2. row' = [row EXCEPT ![n] = d]
      BY <1>2
    <2>3. batch' \in [Workers -> [Notes -> 0..3]]
      BY <1>2 DEF N!Unread, N!MAX_RETRIES
    <2> HIDE DEF d
    <2> QED BY <1>1, <1>2, <2>1, <2>2, <2>3, OneRow
  <1>3. CASE /\ N!Fault /\ row' = [row EXCEPT ![n] = N!Rescheduled(@, batch[w][n] + 1)]
             /\ batch' = [batch EXCEPT ![w][n] = N!Unread]
    <2> DEFINE c == batch[w][n] + 1
               d == N!Rescheduled(row[n], c)
    <2>1. c \in Nat
      BY <1>1
    <2>2. row' = [row EXCEPT ![n] = d]
      BY <1>3
    <2>3. batch' \in [Workers -> [Notes -> 0..3]]
      BY <1>3 DEF N!Unread, N!MAX_RETRIES
    <2>4. faults' \in 0..MaxFaults
      BY <1>3, FaultBound
    <2> HIDE DEF c
    <2>5. d \in NoteRow /\ d.count = c /\ (c < 3 => d.due = "later")
      <3>1. c >= 3 => d \in NoteRow /\ d.count = c
        BY <1>1, <2>1 DEF N!Rescheduled, NoteRow, N!MAX_RETRIES
      <3>2. ~(c >= 3) => d \in NoteRow /\ d.count = c /\ d.due = "later"
        BY <1>1, <2>1 DEF N!Rescheduled, NoteRow, N!MAX_RETRIES
      <3>3. c < 3 <=> ~(c >= 3)
        BY <2>1
      <3> QED BY <3>1, <3>2, <3>3
    <2> HIDE DEF d
    <2> QED BY <1>1, <2>2, <2>3, <2>4, <2>5, OneRow DEF N!MAX_RETRIES
  <1>4. CASE /\ faults + 2 <= MaxFaults /\ faults' = faults + 2
             /\ batch' = [batch EXCEPT ![w] = N!Empty] /\ UNCHANGED row
    <2>1. faults' \in 0..MaxFaults
      BY <1>4, NotesAssumed DEF N!NotesAssumption
    <2> QED BY <1>1, <1>4, <2>1, EmptyBatch, OneRow
  <1> QED BY <1>2, <1>3, <1>4 DEF N!Retry

LEMMA NotificationsCrashIInv ==
  ASSUME NotificationsIInv, N!Crash
  PROVE  NotificationsIInv'
  <1> USE NoteTypes DEF NotificationsIInv
  <1>1. faults' \in 0..MaxFaults /\ row' = row
    BY FaultBound DEF N!Crash
  <1>2. sender' \in [Notes -> {"new", "failed", "done"}] /\ batch' \in [Workers -> [Notes -> 0..3]]
    BY EmptyBatch DEF N!Crash
  <1> QED BY <1>1, <1>2, OneRow

\* A notification recorded as FAILED is never left without a time of its next
\* try before its three retries are used up: what its end depends on
\* (services/notification.service.ts).
THEOREM NotesAttended == N!Init /\ [][N!Next]_N!vars => [](N!TypeOK /\ NeverUnattended)
  <1>1. N!Init => NotificationsIInv
    <2> SUFFICES ASSUME N!Init PROVE NotificationsIInv
      OBVIOUS
    <2>1. N!NoRow \in NoteRow /\ N!NoRow.status = "none"
      BY DEF N!NoRow, NoteRow
    <2>2. faults \in 0..MaxFaults
      BY NotesAssumed DEF N!Init, N!NotesAssumption
    <2>3. N!TypeOK
      BY <2>1, <2>2, EmptyBatch, NoteTypes DEF N!Init
    <2> QED BY <2>1, <2>3 DEF NotificationsIInv, N!Init, NeverUnattended
  <1>2. NotificationsIInv /\ [N!Next]_N!vars => NotificationsIInv'
    <2>1. ASSUME NotificationsIInv, UNCHANGED N!vars PROVE NotificationsIInv'
      BY <2>1 DEF N!vars, NotificationsIInv, N!TypeOK, NeverUnattended
    <2> QED BY <2>1, NotificationsCrashIInv, NotificationsSendIInv, SelectDueIInv,
               RetryIInv DEF N!Next, N!Timer
  <1>3. NotificationsIInv => N!TypeOK /\ NeverUnattended
    BY DEF NotificationsIInv
  <1> QED BY <1>1, <1>2, <1>3, PTL DEF N!Spec
-----------------------------------------------------------------------------
\* The partitions by month.
LEMMA MonthsAssumed == P!PartitionsAssumption
  BY PartsAssumption DEF PartsAssumption

Stages == {"idle", "bookings", "audit", "list", "detach"}
CycleOf(ps) == [pc : Stages, month : 0..MaxMonth, i : 0..3, old : SUBSET ps]
All == parts \cup detached
Placed(p) == p.from \in 0..MaxMonth + 3 /\ p.to \in 1..MaxMonth + 12

Covered(m) == \E p \in parts : p.from <= m /\ m < p.to

\* The partitions are the migration's and those of a month; one that was taken
\* off, or is about to be, has ended.
OnlyMonths == \A p \in All : p = P!CatchAll \/ \E m \in 0..MaxMonth + 3 : p = P!Month(m)
OldEnded ==
  /\ \A p \in detached : p.to <= now
  /\ \A w \in Workers : \A p \in cycle[w].old : p.to <= now

\* The months up to three after the last cycle that came through, and those a
\* cycle has come to, have their partition, as far as they are not over.
AheadCovered ==
  /\ \A m \in 0..MaxMonth + 3 : now <= m /\ m <= ensured + 3 => Covered(m)
  /\ \A w \in Workers :
       /\ cycle[w].month <= now
       /\ P!At(w, "bookings") =>
            \A m \in 0..MaxMonth + 3 :
              now <= m /\ cycle[w].month <= m /\ m < cycle[w].month + cycle[w].i => Covered(m)

PartitionsIInv == P!TypeOK /\ OnlyMonths /\ OldEnded /\ AheadCovered
-----------------------------------------------------------------------------
LEMMA MonthTypes ==
  P!TypeOK <=> /\ now \in 0..MaxMonth /\ ensured \in 0..MaxMonth /\ \A p \in All : Placed(p)
               /\ audits \subseteq 0..MaxMonth \div 12 + 2 /\ cycle \in [Workers -> CycleOf(All)]
  BY DEF P!TypeOK, All, Placed, CycleOf, Stages, P!AUDIT_PREMAKE_YEARS,
     P!BOOKINGS_PREMAKE_MONTHS

LEMMA MonthBound == MaxMonth \in Nat /\ MaxMonth >= 36 /\ \A m \in Starts : m \in 0..11
  BY MonthsAssumed DEF P!PartitionsAssumption

LEMMA Years ==
  ASSUME NEW m \in 0..MaxMonth
  PROVE  /\ m \div 12 \in Nat /\ m \div 12 <= MaxMonth \div 12 /\ MaxMonth \div 12 \in Nat
         /\ (m \div 12)..((m \div 12) + 2) \subseteq 0..MaxMonth \div 12 + 2
  <1> DEFINE y == m \div 12
             z == MaxMonth \div 12
  <1>1. y \in Nat /\ z \in Nat /\ y <= z
    BY MonthBound
  <1> HIDE DEF y, z
  <1>2. y..(y + 2) \subseteq 0..(z + 2)
    BY <1>1
  <1> QED BY <1>1, <1>2 DEF y, z

LEMMA IdleCycle ==
  /\ \A ps : P!Idle \in CycleOf(ps)
  /\ P!Idle.pc = "idle" /\ P!Idle.month = 0 /\ P!Idle.old = {}
  BY MonthBound DEF P!Idle, CycleOf, Stages

LEMMA Wider ==
  ASSUME NEW ps, NEW qs, ps \subseteq qs
  PROVE  CycleOf(ps) \subseteq CycleOf(qs)
  BY DEF CycleOf

\* A partition whose beginning is 36 months ago has ended.
LEMMA OldHasEnded ==
  ASSUME PartitionsIInv, NEW p \in parts, p.from <= now - P!BOOKINGS_RETENTION_MONTHS
  PROVE  p.to <= now
  <1>1. now \in Int
    BY MonthTypes, MonthBound DEF PartitionsIInv
  <1>2. CASE p = P!CatchAll
    BY <1>1, <1>2 DEF P!CatchAll, P!BOOKINGS_RETENTION_MONTHS
  <1>3. ASSUME NEW m \in 0..MaxMonth + 3, p = P!Month(m) PROVE p.to <= now
    <2>1. p.from = m /\ p.to = m + 1 /\ m \in Int
      BY <1>3, MonthBound DEF P!Month
    <2> QED BY <1>1, <2>1 DEF P!BOOKINGS_RETENTION_MONTHS
  <1> QED BY <1>2, <1>3 DEF PartitionsIInv, OnlyMonths, All

\* One cycle comes to d, and the tables stay as they are: nothing is covered
\* less, and a cycle that begins anew has come to no month.
LEMMA CycleMoves ==
  ASSUME PartitionsIInv, NEW w \in Workers, NEW d \in CycleOf(All), cycle' = [cycle EXCEPT ![w] = d],
         d.month <= now, d.pc = "bookings" => d.i = 0, \A p \in d.old : p.to <= now,
         audits' \subseteq 0..MaxMonth \div 12 + 2,
         UNCHANGED <<now, parts, detached, ensured>>
  PROVE  PartitionsIInv'
  <1> USE MonthTypes DEF PartitionsIInv
  <1>1. /\ cycle' \in [Workers -> CycleOf(All)]
        /\ \A v \in Workers : cycle'[v] = IF v = w THEN d ELSE cycle[v]
    OBVIOUS
  <1>2. P!TypeOK'
    BY <1>1 DEF P!TypeOK, All, Placed, CycleOf, Stages, P!AUDIT_PREMAKE_YEARS,
       P!BOOKINGS_PREMAKE_MONTHS
  <1>3. OnlyMonths' /\ OldEnded'
    BY <1>1 DEF OnlyMonths, OldEnded, All
  <1>4. AheadCovered'
    <2>1. d.pc = "bookings" =>
            \A m \in 0..MaxMonth + 3 : ~(d.month <= m /\ m < d.month + d.i)
      BY MonthBound DEF CycleOf
    <2> QED BY <1>1, <2>1 DEF AheadCovered, P!At, Covered
  <1> QED BY <1>2, <1>3, <1>4

LEMMA BeginIInv ==
  ASSUME PartitionsIInv, NEW w \in Workers, P!runMaintenanceCycle(w)
  PROVE  PartitionsIInv'
  <1> USE MonthTypes DEF PartitionsIInv
  <1> DEFINE d == [P!Idle EXCEPT !.pc = "bookings", !.month = now]
  <1>n. now \in 0..MaxMonth /\ 0 \in 0..3
    OBVIOUS
  <1>1. d \in CycleOf(All) /\ d.month = now /\ d.i = 0 /\ d.old = {}
    BY <1>n DEF P!Idle, CycleOf, Stages
  <1>2. cycle' = [cycle EXCEPT ![w] = d] /\ UNCHANGED <<now, parts, detached, audits, ensured>>
    BY DEF P!runMaintenanceCycle
  <1>3. now <= now
    BY MonthBound
  <1> HIDE DEF d
  <1> QED BY <1>1, <1>2, <1>3, CycleMoves

LEMMA StopIInv ==
  ASSUME PartitionsIInv, NEW w \in Workers,
         cycle' = [cycle EXCEPT ![w] = P!Idle], UNCHANGED <<now, parts, detached, audits, ensured>>
  PROVE  PartitionsIInv'
  <1>1. P!Idle.month <= now
    BY IdleCycle, MonthTypes, MonthBound DEF PartitionsIInv
  <1> QED BY <1>1, IdleCycle, CycleMoves, MonthTypes DEF PartitionsIInv

LEMMA AuditIInv ==
  ASSUME PartitionsIInv, NEW w \in Workers, P!ensureAuditLogPartitions(w)
  PROVE  PartitionsIInv'
  <1> USE MonthTypes DEF PartitionsIInv
  <1> DEFINE d == [cycle[w] EXCEPT !.pc = "list"]
             y == cycle[w].month \div 12
  <1>1. cycle[w].month \in 0..MaxMonth
    BY DEF CycleOf
  <1>2. d \in CycleOf(All) /\ d.month = cycle[w].month /\ d.pc = "list" /\ d.old = cycle[w].old
    BY DEF CycleOf, Stages
  <1>3. /\ cycle' = [cycle EXCEPT ![w] = d] /\ UNCHANGED <<now, parts, detached, ensured>>
        /\ audits' = audits \cup y..(y + 2)
    BY DEF P!ensureAuditLogPartitions, P!AUDIT_PREMAKE_YEARS
  <1>4. audits' \subseteq 0..MaxMonth \div 12 + 2
    <2>1. y..(y + 2) \subseteq 0..MaxMonth \div 12 + 2
      BY <1>1, Years
    <2> HIDE DEF y
    <2> QED BY <1>3, <2>1
  <1> HIDE DEF d
  <1> QED BY <1>2, <1>3, <1>4, CycleMoves DEF OldEnded, AheadCovered

LEMMA ListIInv ==
  ASSUME PartitionsIInv, NEW w \in Workers, P!listOldPartitions(w)
  PROVE  PartitionsIInv'
  <1> USE MonthTypes DEF PartitionsIInv
  <1> DEFINE o == {p \in parts : p.from <= now - P!BOOKINGS_RETENTION_MONTHS}
             d == [cycle[w] EXCEPT !.pc = "detach", !.old = o]
  <1>1. o \subseteq All /\ \A p \in o : p.to <= now
    BY OldHasEnded DEF All
  <1>2. /\ cycle' = [cycle EXCEPT ![w] = d]
        /\ UNCHANGED <<now, parts, detached, audits, ensured>>
    BY DEF P!listOldPartitions
  <1> HIDE DEF o
  <1>3. d \in CycleOf(All) /\ d.month = cycle[w].month /\ d.pc = "detach" /\ d.old = o
    BY <1>1 DEF CycleOf, Stages
  <1> HIDE DEF d
  <1> QED BY <1>1, <1>2, <1>3, CycleMoves DEF AheadCovered

\* A month gets its partition, or has one, or is over.
LEMMA EnsureIInv ==
  ASSUME PartitionsIInv, NEW w \in Workers, P!ensureBookingsPartitions(w)
  PROVE  PartitionsIInv'
  <1> USE MonthTypes DEF PartitionsIInv
  <1> DEFINE M == cycle[w].month
             i == cycle[w].i
             m0 == M + i
             last == i = 3
             e == IF last THEN [cycle[w] EXCEPT !.pc = "audit"] ELSE [cycle[w] EXCEPT !.i = i + 1]
  <1>1. /\ cycle[w].pc = "bookings" /\ UNCHANGED <<now, detached, audits>>
        /\ parts' = IF P!Month(m0) \in detached \/ \E q \in parts : P!Overlap(P!Month(m0), q)
                    THEN parts ELSE parts \cup {P!Month(m0)}
        /\ cycle' = IF last THEN [cycle EXCEPT ![w].pc = "audit"]
                    ELSE [cycle EXCEPT ![w].i = i + 1]
        /\ ensured' = IF last /\ M > ensured THEN M ELSE ensured
    BY DEF P!ensureBookingsPartitions, P!At, P!BOOKINGS_PREMAKE_MONTHS
  <1>2. cycle' = [cycle EXCEPT ![w] = e]
    <2>1. CASE last
      BY <1>1, <2>1
    <2>2. CASE ~last
      BY <1>1, <2>2
    <2> QED BY <2>1, <2>2
  <1>3. /\ M \in 0..MaxMonth /\ i \in 0..3 /\ m0 \in 0..MaxMonth + 3 /\ M <= now
        /\ now \in 0..MaxMonth /\ ensured \in 0..MaxMonth
    BY MonthBound DEF CycleOf, AheadCovered
  <1>4. P!Month(m0).from = m0 /\ P!Month(m0).to = m0 + 1
    BY DEF P!Month
  <1>5. /\ e \in CycleOf(All) /\ e.month = M /\ e.old = cycle[w].old
        /\ e.pc = IF last THEN "audit" ELSE "bookings"
        /\ ~last => e.i = i + 1
    <2>1. CASE last
      BY <2>1 DEF CycleOf, Stages
    <2>2. CASE ~last
      <3>1. i + 1 \in 0..3
        BY <1>3, <2>2
      <3> QED BY <1>1, <2>2, <3>1 DEF CycleOf, Stages
    <2> QED BY <2>1, <2>2
  <1> HIDE DEF e, M, i, m0, last
  <1>c. PICK c \in 0..MaxMonth + 3 : c = m0
    BY <1>3
  <1>6. parts \subseteq parts' /\ parts' \subseteq parts \cup {P!Month(m0)} /\ detached' = detached
    BY <1>1
  <1>7. Placed(P!Month(m0))
    BY <1>3, <1>4, MonthBound DEF Placed
  <1>8. P!TypeOK'
    <2>1. cycle' \in [Workers -> CycleOf(All)]
      BY <1>2, <1>5
    <2>2. cycle' \in [Workers -> CycleOf(parts' \cup detached')]
      BY <2>1, <1>6, Wider DEF All
    <2>3. ensured' \in 0..MaxMonth
      BY <1>1, <1>3
    <2>4. \A p \in parts' \cup detached' : Placed(p)
      BY <1>6, <1>7 DEF All
    <2> QED BY <1>1, <2>2, <2>3, <2>4 DEF P!TypeOK, All, Placed, CycleOf, Stages,
          P!AUDIT_PREMAKE_YEARS, P!BOOKINGS_PREMAKE_MONTHS
  <1>9. OnlyMonths'
    BY <1>3, <1>6 DEF OnlyMonths, All
  <1>10. OldEnded'
    BY <1>1, <1>2, <1>5 DEF OldEnded
  <1>11. \A m \in 0..MaxMonth + 3 : Covered(m) => Covered(m)'
    BY <1>6 DEF Covered
  <1>12. now <= c => Covered(c)'
    <2>1. CASE P!Month(m0) \in detached
      BY <1>c, <1>3, <1>4, <2>1, MonthBound DEF OldEnded
    <2>2. ASSUME NEW q \in parts, P!Overlap(P!Month(m0), q) PROVE Covered(c)'
      <3>1. q.from \in Int /\ q.to \in Int
        BY MonthBound DEF All, Placed
      <3>2. q.from <= c /\ c < q.to
        BY <1>c, <1>3, <1>4, <2>2, <3>1, MonthBound DEF P!Overlap
      <3> QED BY <1>6, <3>2 DEF Covered
    <2>3. CASE P!Month(m0) \in parts'
      <3>1. P!Month(m0).from <= c /\ c < P!Month(m0).to
        BY <1>c, <1>3, <1>4, MonthBound
      <3> QED BY <2>3, <3>1 DEF Covered
    <2> QED BY <1>1, <2>1, <2>2, <2>3
  <1>13. \A m \in 0..MaxMonth + 3 : now <= m /\ M <= m /\ m < M + i + 1 => Covered(m)'
    <2> SUFFICES ASSUME NEW m \in 0..MaxMonth + 3, now <= m, M <= m, m < M + i + 1
                 PROVE  Covered(m)'
      OBVIOUS
    <2>1. CASE m = c
      BY <1>12, <2>1
    <2>2. CASE m # c
      <3>0. c = M + i /\ m \in Int /\ M \in Int /\ i \in Int
        BY <1>c, <1>3, MonthBound DEF m0
      <3>1. m < M + i
        BY <2>2, <3>0
      <3>2. Covered(m)
        BY <1>1, <3>1 DEF AheadCovered, P!At, M, i
      <3> QED BY <1>11, <3>2
    <2> QED BY <2>1, <2>2
  <1>14. AheadCovered'
    <2>1. ASSUME NEW m \in 0..MaxMonth + 3, now <= m, m <= ensured' + 3 PROVE Covered(m)'
      <3>1. CASE last /\ M > ensured
        <4>1. M <= m /\ m < M + i + 1
          BY <1>1, <1>3, <2>1, <3>1, MonthBound DEF last
        <4> QED BY <1>13, <2>1, <4>1
      <3>2. CASE ~(last /\ M > ensured)
        BY <1>1, <1>11, <2>1, <3>2 DEF AheadCovered
      <3> QED BY <3>1, <3>2
    <2>2. ASSUME NEW v \in Workers
          PROVE  /\ cycle'[v].month <= now
                 /\ cycle'[v].pc = "bookings" =>
                      \A m \in 0..MaxMonth + 3 :
                        now <= m /\ cycle'[v].month <= m /\ m < cycle'[v].month + cycle'[v].i
                        => Covered(m)'
      <3>1. CASE v = w
        <4>1. cycle'[v] = e
          BY <1>2, <3>1
        <4>2. ~last => \A m \in 0..MaxMonth + 3 : now <= m /\ M <= m /\ m < M + (i + 1) => Covered(m)'
          <5>1. \A m \in 0..MaxMonth + 3 : m < M + (i + 1) => m < M + i + 1
            BY <1>3, MonthBound
          <5> QED BY <1>13, <5>1
        <4> QED BY <1>3, <1>5, <4>1, <4>2
      <3>2. CASE v # w
        <4>1. cycle'[v] = cycle[v]
          BY <1>2, <3>2
        <4> QED BY <1>11, <4>1 DEF AheadCovered, P!At
      <3> QED BY <3>1, <3>2
    <2> QED BY <1>1, <2>1, <2>2 DEF AheadCovered, P!At
  <1> QED BY <1>8, <1>9, <1>10, <1>14

\* What is taken off has ended.
LEMMA DetachIInv ==
  ASSUME PartitionsIInv, NEW w \in Workers, P!archiveOldBookingsPartitions(w)
  PROVE  PartitionsIInv'
  <1> USE MonthTypes DEF PartitionsIInv
  <1>1. CASE cycle' = [cycle EXCEPT ![w] = P!Idle] /\ UNCHANGED <<parts, detached>>
    BY <1>1, StopIInv DEF P!archiveOldBookingsPartitions
  <1>2. ASSUME NEW p \in cycle[w].old,
               parts' = parts \ {p}, detached' = detached \cup {p},
               cycle' = [cycle EXCEPT ![w].old = @ \ {p}]
        PROVE  PartitionsIInv'
    <2> DEFINE d == [cycle[w] EXCEPT !.old = cycle[w].old \ {p}]
    <2>1. UNCHANGED <<now, audits, ensured>>
      BY DEF P!archiveOldBookingsPartitions
    <2>2. /\ d \in CycleOf(All) /\ d.month = cycle[w].month /\ d.pc = cycle[w].pc
          /\ d.i = cycle[w].i /\ d.old \subseteq cycle[w].old
      BY DEF CycleOf
    <2>3. cycle' = [cycle EXCEPT ![w] = d]
      BY <1>2
    <2> HIDE DEF d
    <2>4. p \in All /\ p.to <= now
      BY <1>2 DEF CycleOf, OldEnded
    <2>5. parts' \cup detached' = All
      BY <1>2, <2>4 DEF All
    <2>6. P!TypeOK'
      <3>1. cycle' \in [Workers -> CycleOf(parts' \cup detached')]
        BY <2>2, <2>3, <2>5
      <3>2. \A q \in parts' \cup detached' : Placed(q)
        BY <2>5
      <3> QED BY <2>1, <3>1, <3>2 DEF P!TypeOK, All, Placed, CycleOf, Stages,
            P!AUDIT_PREMAKE_YEARS, P!BOOKINGS_PREMAKE_MONTHS
    <2>7. OnlyMonths'
      BY <2>5 DEF OnlyMonths, All
    <2>8. OldEnded'
      BY <1>2, <2>1, <2>2, <2>3, <2>4 DEF OldEnded
    <2>9. \A m \in 0..MaxMonth + 3 : now <= m /\ Covered(m) => Covered(m)'
      <3> SUFFICES ASSUME NEW m \in 0..MaxMonth + 3, now <= m, NEW q \in parts,
                          q.from <= m, m < q.to
                   PROVE  q \in parts'
        BY DEF Covered
      <3>1. q.to \in Int /\ m \in Int /\ now \in Int
        BY MonthBound DEF All, Placed
      <3>2. q # p
        BY <2>4, <3>1
      <3> QED BY <1>2, <3>2
    <2>10. \A v \in Workers : cycle'[v].month = cycle[v].month /\ cycle'[v].pc = cycle[v].pc
                              /\ cycle'[v].i = cycle[v].i
      BY <2>2, <2>3
    <2>11. AheadCovered'
      BY <2>1, <2>9, <2>10 DEF AheadCovered, P!At
    <2> QED BY <2>6, <2>7, <2>8, <2>11
  <1> QED BY <1>1, <1>2 DEF P!archiveOldBookingsPartitions

LEMMA PartitionsTickIInv ==
  ASSUME PartitionsIInv, P!Tick
  PROVE  PartitionsIInv'
  <1> USE MonthTypes DEF PartitionsIInv
  <1>1. now < MaxMonth /\ now' = now + 1 /\ UNCHANGED <<parts, detached, audits, ensured, cycle>>
    BY DEF P!Tick
  <1>2. now' \in 0..MaxMonth /\ now \in Int /\ now < now'
    BY <1>1, MonthBound
  <1>3. P!TypeOK'
    BY <1>1, <1>2 DEF P!TypeOK, All, Placed, CycleOf, Stages
  <1>4. OnlyMonths'
    BY <1>1 DEF OnlyMonths, All
  <1>5. OldEnded'
    <2>1. \A p \in All : p.to \in Int
      BY MonthBound DEF Placed
    <2>2. \A w \in Workers : \A p \in cycle[w].old : p \in All
      BY DEF CycleOf
    <2>3. \A p \in All : p.to <= now => p.to <= now'
      BY <1>2, <2>1
    <2> QED BY <1>1, <2>2, <2>3 DEF OldEnded, All
  <1>6. AheadCovered'
    <2>1. \A m \in 0..MaxMonth + 3 : now' <= m => now <= m
      BY <1>2, MonthBound
    <2>2. \A w \in Workers : cycle[w].month <= now'
      <3> SUFFICES ASSUME NEW w \in Workers PROVE cycle[w].month <= now'
        OBVIOUS
      <3>1. cycle[w].month \in 0..MaxMonth
        BY DEF CycleOf
      <3>2. cycle[w].month <= now
        BY DEF AheadCovered
      <3> QED BY <1>2, <3>1, <3>2, MonthBound
    <2>3. \A m : Covered(m) => Covered(m)'
      BY <1>1 DEF Covered
    <2> QED BY <1>1, <2>1, <2>2, <2>3 DEF AheadCovered, P!At
  <1> QED BY <1>3, <1>4, <1>5, <1>6

\* The present month has its partition, up to three months after the last cycle
\* that came through (services/partition-maintainer.service.ts, migration 013).
THEOREM MonthsCovered == P!Spec => [](P!TypeOK /\ P!MonthCovered)
  <1>1. P!Init => PartitionsIInv
    <2> SUFFICES ASSUME P!Init PROVE PartitionsIInv
      OBVIOUS
    <2>1. /\ now \in 0..11 /\ parts = {P!CatchAll} /\ detached = {} /\ ensured = now
          /\ \A w \in Workers : cycle[w] = P!Idle
      BY MonthBound DEF P!Init
    <2>2. now \in 0..MaxMonth /\ Placed(P!CatchAll) /\ P!CatchAll.from = 0 /\ P!CatchAll.to = 36
      BY <2>1, MonthBound DEF Placed, P!CatchAll
    <2>3. audits \subseteq 0..MaxMonth \div 12 + 2
      <3>1. audits = 0..2 /\ 0 \in 0..MaxMonth
        BY MonthBound DEF P!Init, P!AUDIT_PREMAKE_YEARS
      <3>2. MaxMonth \div 12 \in Nat
        BY <3>1, Years
      <3> DEFINE z == MaxMonth \div 12
      <3> HIDE DEF z
      <3>3. 0..2 \subseteq 0..z + 2
        BY <3>2 DEF z
      <3> QED BY <3>1, <3>3 DEF z
    <2>4. cycle \in [Workers -> CycleOf(All)]
      BY IdleCycle DEF P!Init
    <2>5. P!TypeOK
      BY <2>1, <2>2, <2>3, <2>4, MonthTypes DEF All
    <2>6. OnlyMonths /\ OldEnded
      BY <2>1, IdleCycle DEF OnlyMonths, OldEnded, All
    <2>7. \A m \in 0..MaxMonth + 3 : m <= ensured + 3 => Covered(m)
      BY <2>1, <2>2, MonthBound DEF Covered
    <2>8. AheadCovered
      BY <2>1, <2>7, IdleCycle, MonthBound DEF AheadCovered, P!At
    <2> QED BY <2>5, <2>6, <2>8 DEF PartitionsIInv
  <1>2. PartitionsIInv /\ [P!Next]_P!vars => PartitionsIInv'
    <2> SUFFICES ASSUME PartitionsIInv, [P!Next]_P!vars PROVE PartitionsIInv'
      OBVIOUS
    <2>1. ASSUME NEW w \in Workers, P!Crash(w) PROVE PartitionsIInv'
      BY <2>1, StopIInv DEF P!Crash
    <2>2. CASE UNCHANGED P!vars
      BY <2>2
      DEF P!vars, PartitionsIInv, P!TypeOK, OnlyMonths, OldEnded, AheadCovered, Covered, P!At,
          All
    <2> QED BY <2>1, <2>2, PartitionsTickIInv, BeginIInv, EnsureIInv, AuditIInv, ListIInv,
               DetachIInv DEF P!Next
  <1>3. PartitionsIInv => P!TypeOK /\ P!MonthCovered
    <2> SUFFICES ASSUME PartitionsIInv, now <= ensured + 3 PROVE Covered(now)
      BY DEF P!MonthCovered, P!BOOKINGS_PREMAKE_MONTHS, Covered, PartitionsIInv
    <2>1. now \in 0..MaxMonth + 3 /\ now <= now
      BY MonthTypes, MonthBound DEF PartitionsIInv
    <2> QED BY <2>1 DEF PartitionsIInv, AheadCovered
  <1> QED BY <1>1, <1>2, <1>3, PTL DEF P!Spec
-----------------------------------------------------------------------------
\* What every worker does at its start.
LEMMA StartupAssumed == StartupAssumption
  BY PartsAssumption DEF PartsAssumption

\* A list of migrations, each of some statements.
Some(u) == Len(u) \in Nat /\ Len(u) > 0
HasUps(q) == \E Ss : q \in Seq(Ss) /\ \A u \in Ss : Some(u)

Steps == {"select", "up", "record", "count", "insert", "serve"}
Place == [pc : Steps, i : Nat, k : Nat]
InPlace(x) ==
  /\ x.pc \in {"up", "record"} => x.i \in Ids
  /\ x.pc \in {"count", "insert"} => x.i \in DOMAIN Sections /\ x.k \in 1..2

\* A worker within a migration has done the statements before; one that is to
\* record it has done them all, or found the parent table of 013.
DoneSoFar(x) ==
  /\ x.pc = "up" => /\ x.k \in 1..Len(Migrations[x.i])
                    /\ \A j \in 1..Len(Migrations[x.i]) : j < x.k => Migrations[x.i][j][1] \in built
  /\ x.pc = "record" => Guarded(x.i) \/ Made[x.i] \subseteq built
AllDone == \A w \in Workers : DoneSoFar(worker[w])

\* Who inserts the rows of section s, and how many copies there are.
Inserts(w, s) == At(w, "insert") /\ Sections[worker[w].i] = s
Rows(s, a, b) == rows[s][1] = a /\ rows[s][2] = b

\* Of a section that was not disturbed one worker at most inserts the rows, and
\* what is there is what it has done; if there is none, all of it or nothing.
SectionSound(s) ==
  /\ \A v, w \in Workers : Inserts(v, s) /\ Inserts(w, s) => v = w
  /\ \A w \in Workers : Inserts(w, s) => IF worker[w].k = 1 THEN Rows(s, 0, 0) ELSE Rows(s, 1, 0)
  /\ (\A w \in Workers : ~Inserts(w, s)) => Rows(s, 0, 0) \/ Rows(s, 1, 1)
AllSound == \A s \in SectionSet \ disturbed : SectionSound(s)

StartupIInv == TypeOK /\ AllDone /\ AppliedMeansBuilt /\ AllSound
-----------------------------------------------------------------------------
(* The schema *)

LEMMA Lengths ==
  /\ \A a : Some(<<a>>)
  /\ \A a, b : Some(<<a, b>>)
  /\ \A a, b, c : Some(<<a, b, c>>)
  /\ \A a, b, c, d : Some(<<a, b, c, d>>)
  /\ \A a, b, c, d, e, f, g : Some(<<a, b, c, d, e, f, g>>)
  BY DEF Some

LEMMA FourUps ==
  ASSUME NEW a, NEW b, NEW c, NEW d, Some(a), Some(b), Some(c), Some(d)
  PROVE  HasUps(<<a, b, c, d>>)
  <1> DEFINE Ss == {a, b, c, d}
  <1>1. <<a, b, c, d>> \in Seq(Ss)
    OBVIOUS
  <1>2. \A u \in Ss : Some(u)
    OBVIOUS
  <1> HIDE DEF Ss
  <1> QED BY <1>1, <1>2 DEF HasUps

LEMMA FiveUps ==
  ASSUME NEW a, NEW b, NEW c, NEW d, NEW e, Some(a), Some(b), Some(c), Some(d), Some(e)
  PROVE  HasUps(<<a, b, c, d, e>>)
  <1> DEFINE Ss == {a, b, c, d, e}
  <1>1. <<a, b, c, d, e>> \in Seq(Ss)
    OBVIOUS
  <1>2. \A u \in Ss : Some(u)
    OBVIOUS
  <1> HIDE DEF Ss
  <1> QED BY <1>1, <1>2 DEF HasUps

LEMMA SixUps ==
  ASSUME NEW a, NEW b, NEW c, NEW d, NEW e, NEW f,
         Some(a), Some(b), Some(c), Some(d), Some(e), Some(f)
  PROVE  HasUps(<<a, b, c, d, e, f>>)
  <1> DEFINE Ss == {a, b, c, d, e, f}
  <1>1. <<a, b, c, d, e, f>> \in Seq(Ss)
    OBVIOUS
  <1>2. \A u \in Ss : Some(u)
    OBVIOUS
  <1> HIDE DEF Ss
  <1> QED BY <1>1, <1>2 DEF HasUps

LEMMA JoinedUps ==
  ASSUME NEW q, NEW r, HasUps(q), HasUps(r)
  PROVE  HasUps(q \o r)
  <1>1. PICK Ss : q \in Seq(Ss) /\ \A u \in Ss : Some(u)
    BY DEF HasUps
  <1>2. PICK Ts : r \in Seq(Ts) /\ \A u \in Ts : Some(u)
    BY DEF HasUps
  <1>3. q \o r \in Seq(Ss \cup Ts)
    BY <1>1, <1>2
  <1>4. \A u \in Ss \cup Ts : Some(u)
    BY <1>1, <1>2
  <1> QED BY <1>3, <1>4 DEF HasUps

LEMMA MigrationUps == HasUps(Migrations)
  <1>1. HasUps(CoreTables)
    BY FourUps, Lengths, Zenon DEF CoreTables
  <1>2. HasUps(ServiceTables)
    BY FiveUps, Lengths, Zenon DEF ServiceTables
  <1>3. HasUps(Partitioning)
    BY SixUps, Lengths, Zenon DEF Partitioning
  <1>4. HasUps(LaterTables)
    BY FourUps, Lengths, Zenon DEF LaterTables
  <1>5. HasUps(LastTables)
    BY FourUps, Lengths, Zenon DEF LastTables
  <1> QED BY <1>1, <1>2, <1>3, <1>4, <1>5, JoinedUps DEF Migrations

\* Every migration has a first statement, and makes what its statements make.
LEMMA MigrationSteps ==
  /\ Len(Migrations) \in Nat
  /\ \A i \in Ids : /\ i \in Nat /\ Len(Migrations[i]) \in Nat /\ 1 \in 1..Len(Migrations[i])
                    /\ \A x : x \in Made[i] <=> \E k \in 1..Len(Migrations[i]) : x = Migrations[i][k][1]
  <1>1. PICK Ss : Migrations \in Seq(Ss) /\ \A u \in Ss : Some(u)
    BY MigrationUps DEF HasUps
  <1>2. Len(Migrations) \in Nat
    BY <1>1
  <1>3. ASSUME NEW i \in Ids PROVE i \in Nat /\ Some(Migrations[i])
    <2>1. i \in 1..Len(Migrations)
      BY DEF Ids
    <2> QED BY <1>1, <1>2, <2>1
  <1>4. \A i \in Ids : 1 \in 1..Len(Migrations[i])
    BY <1>3 DEF Some
  <1>5. ASSUME NEW i \in Ids
        PROVE  Made[i] = {Migrations[i][k][1] : k \in 1..Len(Migrations[i])}
    BY DEF Made
  <1> QED BY <1>2, <1>3, <1>4, <1>5 DEF Some
-----------------------------------------------------------------------------
LEMMA StartupTypes ==
  TypeOK <=> /\ built \subseteq UNION {Made[i] : i \in Ids} /\ applied \subseteq Ids
             /\ rows \in [SectionSet -> [1..2 -> Nat]]
             /\ worker \in [Workers -> Place] /\ \A w \in Workers : InPlace(worker[w])
             /\ crashes \in 0..MaxCrashes /\ disturbed \subseteq SectionSet
  BY DEF TypeOK, Place, Steps, InPlace

LEMMA SectionFacts ==
  /\ Len(Sections) \in Nat /\ 1 \in DOMAIN Sections
  /\ DOMAIN Sections = 1..Len(Sections)
  /\ \A n \in DOMAIN Sections : Sections[n] \in SectionSet /\ n \in Nat
  /\ \A m, n \in DOMAIN Sections : Sections[m] = Sections[n] => m = n
  BY StartupAssumed DEF StartupAssumption, SectionSet

LEMMA PlaceFacts ==
  /\ Fresh \in Place /\ InPlace(Fresh) /\ Fresh.pc = "select"
  /\ Serving \in Place /\ InPlace(Serving) /\ Serving.pc = "serve"
  /\ \A n \in DOMAIN Sections : Seeding(n) \in Place /\ InPlace(Seeding(n)) /\ Seeding(n).pc = "count"
  <1>1. Fresh \in Place /\ InPlace(Fresh) /\ Fresh.pc = "select"
    BY DEF Fresh, Place, Steps, InPlace
  <1>2. Serving \in Place /\ InPlace(Serving) /\ Serving.pc = "serve"
    BY DEF Serving, Place, Steps, InPlace
  <1>3. \A n \in DOMAIN Sections : Seeding(n) \in Place /\ InPlace(Seeding(n)) /\ Seeding(n).pc = "count"
    BY SectionFacts DEF Seeding, Place, Steps, InPlace
  <1> QED BY <1>1, <1>2, <1>3

\* What the next section is.
LEMMA NextPlace ==
  ASSUME NEW w \in Workers, NEW n \in DOMAIN Sections, NextSection(w, n)
  PROVE  \E d \in Place : /\ InPlace(d) /\ worker' = [worker EXCEPT ![w] = d]
                          /\ d.pc \in {"count", "serve"}
  <1>1. n < Len(Sections) => n + 1 \in DOMAIN Sections
    BY SectionFacts
  <1> QED BY <1>1, PlaceFacts DEF NextSection, Goto

\* A worker that goes to where no section is inserted leaves the rows sound, if
\* it was not at an insertion or its section is disturbed from now on.
LEMMA RowsKept ==
  ASSUME StartupIInv, UNCHANGED rows, disturbed \subseteq disturbed',
         \A w \in Workers : worker'[w].pc = "insert" => worker'[w] = worker[w],
         \A w \in Workers : worker[w].pc = "insert" =>
           worker'[w] = worker[w] \/ Sections[worker[w].i] \in disturbed'
  PROVE  AllSound'
  <1> SUFFICES ASSUME NEW s \in SectionSet, s \notin disturbed' PROVE SectionSound(s)'
    BY DEF AllSound, SectionSet
  <1>1. SectionSound(s)
    BY DEF StartupIInv, AllSound
  <1>2. \A w \in Workers : Inserts(w, s)' => Inserts(w, s) /\ worker'[w] = worker[w]
    BY DEF Inserts, At
  <1>3. \A w \in Workers : Inserts(w, s) => Inserts(w, s)'
    BY DEF Inserts, At
  <1> QED BY <1>1, <1>2, <1>3 DEF SectionSound, Rows

\* A step of the migrations: the schema grows, and each worker that has moved is
\* where it should be.
LEMMA SchemaIInv ==
  ASSUME StartupIInv, UNCHANGED <<rows, crashes, disturbed>>,
         built \subseteq built', built' \subseteq UNION {Made[i] : i \in Ids},
         applied' \subseteq Ids, \A i \in applied' : Guarded(i) \/ Made[i] \subseteq built',
         worker' \in [Workers -> Place],
         \A w \in Workers :
           \/ worker'[w] = worker[w]
           \/ /\ InPlace(worker'[w]) /\ worker'[w].pc # "insert" /\ worker[w].pc # "insert"
              /\ DoneSoFar(worker[w])'
  PROVE  StartupIInv'
  <1>1. \A w \in Workers : InPlace(worker'[w])
    BY StartupTypes DEF StartupIInv
  <1>2. TypeOK'
    BY <1>1, StartupTypes DEF TypeOK, StartupIInv, Place, Steps, InPlace, SectionSet
  <1>3. \A w \in Workers : worker'[w] = worker[w] => DoneSoFar(worker[w])'
    BY DEF StartupIInv, AllDone, DoneSoFar
  <1>4. AllDone'
    BY <1>3 DEF AllDone
  <1>5. AppliedMeansBuilt'
    BY DEF AppliedMeansBuilt
  <1>6. AllSound'
    BY RowsKept
  <1> QED BY <1>2, <1>4, <1>5, <1>6 DEF StartupIInv

\* A worker that is not within a migration has nothing to have done.
LEMMA NothingToDo ==
  ASSUME NEW d, d.pc \notin {"up", "record"}
  PROVE  DoneSoFar(d)
  BY DEF DoneSoFar

LEMMA SelectIInv ==
  ASSUME StartupIInv, NEW w \in Workers, Select(w)
  PROVE  StartupIInv'
  <1> USE StartupTypes DEF StartupIInv
  <1> DEFINE i == NextUp(worker[w].i)
             pc == IF Guarded(i) /\ "bookings_partitioned" \in built THEN "record" ELSE "up"
             r == [pc |-> pc, i |-> i, k |-> 1]
  <1>1. /\ worker[w].pc = "select" /\ UNCHANGED <<built, applied, rows, crashes, disturbed>>
        /\ worker' = [worker EXCEPT ![w] = IF i \notin Ids THEN Seeding(1) ELSE r]
    BY DEF Select, At, Goto
  <1>2. pc \in {"up", "record"} /\ (pc = "record" => Guarded(i)) /\ r.pc = pc /\ r.i = i /\ r.k = 1
    OBVIOUS
  <1> HIDE DEF pc, i
  <1>3. i \in Ids => r \in Place /\ InPlace(r)
    BY <1>2, MigrationSteps DEF Place, Steps, InPlace
  <1> HIDE DEF r
  <1>4. i \in Ids => DoneSoFar(r)
    BY <1>2, MigrationSteps DEF DoneSoFar
  <1>5. \E d \in Place : /\ InPlace(d) /\ DoneSoFar(d) /\ d.pc # "insert"
                         /\ worker' = [worker EXCEPT ![w] = d]
    BY <1>1, <1>2, <1>3, <1>4, PlaceFacts, SectionFacts, NothingToDo
  <1>6. PICK d \in Place : /\ InPlace(d) /\ DoneSoFar(d) /\ d.pc # "insert"
                           /\ worker' = [worker EXCEPT ![w] = d]
    BY <1>5
  <1>7. DoneSoFar(d)'
    BY <1>1, <1>6 DEF DoneSoFar
  <1>8. /\ worker' \in [Workers -> Place]
        /\ \A v \in Workers : worker'[v] = IF v = w THEN d ELSE worker[v]
    BY <1>6
  <1>9. DoneSoFar(worker[w])'
    BY <1>1, <1>6, <1>8 DEF DoneSoFar
  <1> QED BY <1>1, <1>6, <1>8, <1>9, SchemaIInv DEF AppliedMeansBuilt

\* A statement of up() is done, and the worker is at the next, or through.
LEMMA StatementDone ==
  ASSUME StartupIInv, NEW w \in Workers, worker[w].pc = "up",
         LET i == worker[w].i  k == worker[w].k IN built' = built \cup {Migrations[i][k][1]}
  PROVE  LET i == worker[w].i
             k == worker[w].k
             d == IF Finished(i, k) THEN [worker[w] EXCEPT !.pc = "record"]
                  ELSE [worker[w] EXCEPT !.k = k + 1]
         IN  /\ built' \subseteq UNION {Made[j] : j \in Ids}
             /\ d \in Place /\ InPlace(d) /\ d.pc \in {"up", "record"}
             /\ d.pc = "up" => /\ d.k \in 1..Len(Migrations[d.i])
                               /\ \A j \in 1..Len(Migrations[d.i]) :
                                    j < d.k => Migrations[d.i][j][1] \in built'
             /\ d.pc = "record" => Guarded(d.i) \/ Made[d.i] \subseteq built'
  <1> USE StartupTypes DEF StartupIInv
  <1> DEFINE i == worker[w].i
             k == worker[w].k
             d == IF Finished(i, k) THEN [worker[w] EXCEPT !.pc = "record"]
                  ELSE [worker[w] EXCEPT !.k = k + 1]
             n == Len(Migrations[i])
  <1>1. /\ i \in Ids /\ i \in Nat /\ k \in 1..n /\ n \in Nat /\ k \in Nat /\ worker[w] \in Place
        /\ \A j \in 1..n : j < k => Migrations[i][j][1] \in built
    BY MigrationSteps DEF InPlace, AllDone, DoneSoFar
  <1>2. Migrations[i][k][1] \in Made[i]
    BY <1>1, MigrationSteps
  <1>3. built' \subseteq UNION {Made[j] : j \in Ids}
    BY <1>1, <1>2
  <1>4. \A j \in 1..n : j < k \/ j = k => Migrations[i][j][1] \in built'
    BY <1>1
  <1>5. CASE Finished(i, k)
    <2>1. d = [worker[w] EXCEPT !.pc = "record"]
      BY <1>5
    <2>2. d \in Place /\ d.pc = "record" /\ d.i = i
      BY <1>1, <2>1 DEF Place, Steps
    <2>3. k = n
      BY <1>1, <1>5 DEF Finished
    <2> HIDE DEF d
    <2>4. \A j \in 1..n : Migrations[i][j][1] \in built'
      <3>1. \A j \in 1..n : j < k \/ j = k
        BY <1>1, <2>3
      <3> QED BY <1>4, <3>1
    <2>5. Made[i] \subseteq built'
      BY <1>1, <2>4, MigrationSteps
    <2>6. InPlace(d)
      BY <1>1, <2>2 DEF InPlace
    <2> QED BY <1>3, <2>2, <2>5, <2>6 DEF d
  <1>6. CASE ~Finished(i, k)
    <2>1. d = [worker[w] EXCEPT !.k = k + 1]
      BY <1>6
    <2>n. k + 1 \in Nat
      BY <1>1
    <2>2. d \in Place /\ d.pc = "up" /\ d.i = i /\ d.k = k + 1
      BY <1>1, <2>1, <2>n DEF Place, Steps
    <2>3. k + 1 \in 1..n
      BY <1>1, <1>6 DEF Finished
    <2> HIDE DEF d
    <2>4. \A j \in 1..n : j < k + 1 => Migrations[i][j][1] \in built'
      <3>1. \A j \in 1..n : j < k + 1 => j < k \/ j = k
        BY <1>1
      <3> QED BY <1>4, <3>1
    <2>5. InPlace(d)
      BY <1>1, <2>2 DEF InPlace
    <2> QED BY <1>3, <2>2, <2>3, <2>4, <2>5 DEF d
  <1> QED BY <1>5, <1>6

LEMMA UpIInv ==
  ASSUME StartupIInv, NEW w \in Workers, Up(w)
  PROVE  StartupIInv'
  <1> USE StartupTypes DEF StartupIInv
  <1> DEFINE i == worker[w].i
             k == worker[w].k
             d == IF Finished(i, k) THEN [worker[w] EXCEPT !.pc = "record"]
                  ELSE [worker[w] EXCEPT !.k = k + 1]
  <1>1. worker[w].pc = "up" /\ UNCHANGED <<applied, rows, crashes, disturbed>>
    BY DEF Up, At
  <1>2. CASE built' = built \cup {Migrations[i][k][1]} /\ worker' = [worker EXCEPT ![w] = d]
    <2>1. /\ built' \subseteq UNION {Made[j] : j \in Ids}
          /\ d \in Place /\ InPlace(d) /\ d.pc \in {"up", "record"}
          /\ d.pc = "up" => /\ d.k \in 1..Len(Migrations[d.i])
                            /\ \A j \in 1..Len(Migrations[d.i]) :
                                 j < d.k => Migrations[d.i][j][1] \in built'
          /\ d.pc = "record" => Guarded(d.i) \/ Made[d.i] \subseteq built'
      BY <1>1, <1>2, StatementDone
    <2> HIDE DEF d
    <2>2. /\ worker' \in [Workers -> Place]
          /\ \A v \in Workers : worker'[v] = IF v = w THEN d ELSE worker[v]
      BY <1>2, <2>1
    <2>3. DoneSoFar(worker[w])'
      BY <2>1, <2>2 DEF DoneSoFar
    <2> QED BY <1>1, <1>2, <2>1, <2>2, <2>3, SchemaIInv DEF AppliedMeansBuilt
  <1>3. CASE worker' = [worker EXCEPT ![w] = Seeding(1)] /\ built' = built
    <2>1. /\ worker' \in [Workers -> Place] /\ worker'[w] = Seeding(1)
          /\ \A v \in Workers : v # w => worker'[v] = worker[v]
      BY <1>3, PlaceFacts, SectionFacts
    <2>2. Seeding(1).pc = "count" /\ InPlace(Seeding(1))
      BY PlaceFacts, SectionFacts
    <2>3. DoneSoFar(worker[w])'
      BY <2>1, <2>2 DEF DoneSoFar
    <2> QED BY <1>1, <1>3, <2>1, <2>2, <2>3, SchemaIInv DEF AppliedMeansBuilt
  <1> QED BY <1>2, <1>3 DEF Up, Goto

\* Two create at once: one goes on, the other's migrations end.
LEMMA CollideIInv ==
  ASSUME StartupIInv, NEW w \in Workers, NEW v \in Workers, UpCollides(w, v)
  PROVE  StartupIInv'
  <1> USE StartupTypes DEF StartupIInv
  <1> DEFINE i == worker[w].i
             k == worker[w].k
             d == IF Finished(i, k) THEN [worker[w] EXCEPT !.pc = "record"]
                  ELSE [worker[w] EXCEPT !.k = k + 1]
  <1>1. /\ w # v /\ worker[w].pc = "up" /\ worker[v] = worker[w]
        /\ UNCHANGED <<applied, rows, crashes, disturbed>>
        /\ built' = built \cup {Migrations[i][k][1]}
        /\ worker' = [worker EXCEPT ![v] = Seeding(1), ![w] = d]
    BY DEF UpCollides, At
  <1>2. /\ built' \subseteq UNION {Made[j] : j \in Ids}
        /\ d \in Place /\ InPlace(d) /\ d.pc \in {"up", "record"}
        /\ d.pc = "up" => /\ d.k \in 1..Len(Migrations[d.i])
                          /\ \A j \in 1..Len(Migrations[d.i]) :
                               j < d.k => Migrations[d.i][j][1] \in built'
        /\ d.pc = "record" => Guarded(d.i) \/ Made[d.i] \subseteq built'
    BY <1>1, StatementDone
  <1> HIDE DEF d
  <1>3. Seeding(1).pc = "count" /\ InPlace(Seeding(1)) /\ Seeding(1) \in Place
    BY PlaceFacts, SectionFacts
  <1>4. /\ worker' \in [Workers -> Place] /\ worker'[w] = d /\ worker'[v] = Seeding(1)
        /\ \A u \in Workers \ {w, v} : worker'[u] = worker[u]
    BY <1>1, <1>2, <1>3
  <1>5. DoneSoFar(worker[w])' /\ DoneSoFar(worker[v])'
    BY <1>2, <1>3, <1>4 DEF DoneSoFar
  <1> QED BY <1>1, <1>2, <1>3, <1>4, <1>5, SchemaIInv DEF AppliedMeansBuilt

LEMMA StartupRecordIInv ==
  ASSUME StartupIInv, NEW w \in Workers, Record(w)
  PROVE  StartupIInv'
  <1> USE StartupTypes DEF StartupIInv
  <1> DEFINE i == worker[w].i
             e == [worker[w] EXCEPT !.pc = "select", !.i = i + 1]
  <1>1. /\ worker[w].pc = "record" /\ applied' = applied \cup {i}
        /\ worker' = [worker EXCEPT ![w] = IF i \in applied THEN Seeding(1) ELSE e]
        /\ UNCHANGED <<built, rows, crashes, disturbed>>
    BY DEF Record, At, Goto
  <1>2. i \in Ids /\ i \in Nat /\ (Guarded(i) \/ Made[i] \subseteq built)
    BY <1>1, MigrationSteps DEF InPlace, AllDone, DoneSoFar
  <1>3. e \in Place /\ e.pc = "select"
    <2>1. i + 1 \in Nat
      BY <1>2
    <2> QED BY <2>1 DEF Place, Steps
  <1>4. Seeding(1).pc = "count" /\ InPlace(Seeding(1)) /\ Seeding(1) \in Place
    BY PlaceFacts, SectionFacts
  <1> HIDE DEF e
  <1>5. /\ worker' \in [Workers -> Place] /\ worker'[w] \in {Seeding(1), e}
        /\ \A v \in Workers : v # w => worker'[v] = worker[v]
    BY <1>1, <1>3, <1>4
  <1>6. InPlace(worker'[w]) /\ worker'[w].pc \in {"count", "select"}
    BY <1>3, <1>4, <1>5 DEF InPlace
  <1>7. DoneSoFar(worker[w])'
    BY <1>6 DEF DoneSoFar
  <1>8. \A j \in applied' : Guarded(j) \/ Made[j] \subseteq built
    BY <1>1, <1>2 DEF AppliedMeansBuilt
  <1> QED BY <1>1, <1>2, <1>5, <1>6, <1>7, <1>8, SchemaIInv
-----------------------------------------------------------------------------
(* The rows *)

\* The schema and the rest of the types stay, whatever becomes of the rows.
LEMMA RowsIInv ==
  ASSUME StartupIInv, UNCHANGED <<built, applied>>, NEW w \in Workers, NEW d \in Place, InPlace(d),
         d.pc \notin {"up", "record"}, worker' = [worker EXCEPT ![w] = d],
         rows' \in [SectionSet -> [1..2 -> Nat]], crashes' \in 0..MaxCrashes,
         disturbed' \subseteq SectionSet, AllSound'
  PROVE  StartupIInv'
  <1> USE StartupTypes DEF StartupIInv
  <1>1. /\ worker' \in [Workers -> Place]
        /\ \A v \in Workers : worker'[v] = IF v = w THEN d ELSE worker[v]
    OBVIOUS
  <1>2. \A v \in Workers : InPlace(worker'[v])
    BY <1>1
  <1>3. TypeOK'
    BY <1>1, <1>2 DEF TypeOK, Place, Steps, InPlace, SectionSet
  <1>4. AllDone'
    BY <1>1 DEF AllDone, DoneSoFar
  <1>5. AppliedMeansBuilt'
    BY DEF AppliedMeansBuilt
  <1> QED BY <1>3, <1>4, <1>5

LEMMA CountIInv ==
  ASSUME StartupIInv, NEW w \in Workers, Count(w)
  PROVE  StartupIInv'
  <1> USE StartupTypes DEF StartupIInv
  <1> DEFINE n == worker[w].i
             e == [worker[w] EXCEPT !.pc = "insert", !.k = 1]
             s == Sections[n]
             others == \E v \in Workers \ {w} : At(v, "insert") /\ worker[v].i = n
  <1>1. /\ worker[w].pc = "count" /\ UNCHANGED <<built, applied, rows, crashes>>
        /\ \/ IsEmpty(s) /\ worker' = [worker EXCEPT ![w] = e]
           \/ NextSection(w, n)
        /\ disturbed' = IF others THEN disturbed \cup {s} ELSE disturbed
    BY DEF Count, At, Goto
  <1>2. n \in DOMAIN Sections /\ s \in SectionSet /\ worker[w] \in Place
    BY <1>1, SectionFacts DEF InPlace
  <1>3. disturbed \subseteq disturbed' /\ disturbed' \subseteq SectionSet
    BY <1>1, <1>2
  <1>4. CASE NextSection(w, n)
    <2>1. PICK d \in Place : /\ InPlace(d) /\ worker' = [worker EXCEPT ![w] = d]
                             /\ d.pc \in {"count", "serve"}
      BY <1>2, <1>4, NextPlace
    <2>2. \A v \in Workers : worker'[v] = IF v = w THEN d ELSE worker[v]
      BY <2>1
    <2>3. AllSound'
      BY <1>1, <1>3, <2>1, <2>2, RowsKept
    <2> QED BY <1>1, <1>3, <2>1, <2>3, RowsIInv
  <1>5. CASE IsEmpty(s) /\ worker' = [worker EXCEPT ![w] = e]
    <2>1. e \in Place /\ e.pc = "insert" /\ e.i = n /\ e.k = 1
      BY <1>2 DEF Place, Steps
    <2> HIDE DEF e
    <2>2. \A v \in Workers : worker'[v] = IF v = w THEN e ELSE worker[v]
      BY <1>5
    <2>3. InPlace(e)
      BY <1>2, <2>1 DEF InPlace
    <2>4. AllSound'
      <3> SUFFICES ASSUME NEW t \in SectionSet, t \notin disturbed' PROVE SectionSound(t)'
        BY DEF AllSound, SectionSet
      <3>1. SectionSound(t)
        BY <1>3 DEF AllSound
      <3>2. \A v \in Workers : v # w => (Inserts(v, t)' <=> Inserts(v, t)) /\ worker'[v] = worker[v]
        BY <2>2 DEF Inserts, At
      <3>3. CASE t = s
        <4>1. ~others
          BY <1>1, <3>3
        <4>2. \A v \in Workers : ~Inserts(v, t)
          <5> SUFFICES ASSUME NEW v \in Workers, Inserts(v, t) PROVE FALSE
            OBVIOUS
          <5>1. v # w /\ worker[v].pc = "insert"
            BY <1>1 DEF Inserts, At
          <5>2. worker[v].i \in DOMAIN Sections /\ Sections[worker[v].i] = Sections[n]
            BY <3>3, <5>1 DEF Inserts, InPlace
          <5>3. worker[v].i = n
            BY <1>2, <5>2, SectionFacts
          <5> QED BY <4>1, <5>1, <5>3 DEF At
        <4>3. Rows(t, 0, 0)'
          BY <1>1, <1>5, <3>3 DEF IsEmpty, Rows
        <4>4. \A v \in Workers : Inserts(v, t)' => v = w
          BY <3>2, <4>2
        <4>5. worker'[w].k = 1 /\ Inserts(w, t)'
          BY <2>1, <2>2, <3>3 DEF Inserts, At
        <4> QED BY <4>3, <4>4, <4>5 DEF SectionSound
      <3>4. CASE t # s
        <4>1. ~Inserts(w, t)' /\ ~Inserts(w, t)
          BY <1>1, <2>1, <2>2, <3>4 DEF Inserts, At
        <4> QED BY <1>1, <3>1, <3>2, <4>1 DEF SectionSound, Rows
      <3> QED BY <3>3, <3>4
    <2> QED BY <1>1, <1>3, <1>5, <2>1, <2>3, <2>4, RowsIInv
  <1> QED BY <1>1, <1>4, <1>5

\* An INSERT: the worker is the only one there, or the section is disturbed.
LEMMA InsertIInv ==
  ASSUME StartupIInv, NEW w \in Workers, Insert(w)
  PROVE  StartupIInv'
  <1> USE StartupTypes DEF StartupIInv
  <1> DEFINE n == worker[w].i
             k == worker[w].k
             s == Sections[n]
             there == Unique(s) /\ rows[s][k] > 0
             stops == \/ \E r \in Needs(s, k) : r[1] \in SectionSet /\ rows[r[1]][r[2]] = 0
                      \/ there /\ s # "stations"
             e == [worker[w] EXCEPT !.k = 2]
  <1>1. /\ worker[w].pc = "insert" /\ UNCHANGED <<built, applied, crashes>>
        /\ rows' = IF stops \/ there THEN rows ELSE [rows EXCEPT ![s][k] = @ + 1]
        /\ IF stops \/ k = 2 THEN NextSection(w, n) ELSE worker' = [worker EXCEPT ![w] = e]
        /\ disturbed' = IF stops THEN disturbed \cup {s} ELSE disturbed
    BY DEF Insert, At, Goto
  <1>2. n \in DOMAIN Sections /\ s \in SectionSet /\ k \in 1..2 /\ worker[w] \in Place
    BY <1>1, SectionFacts DEF InPlace
  <1>3. e \in Place /\ e.pc = "insert" /\ e.i = n /\ e.k = 2
    BY <1>1, <1>2 DEF Place, Steps
  <1>4. (k = 1 => there <=> Unique(s) /\ rows[s][1] > 0) /\ (k = 2 => there <=> Unique(s) /\ rows[s][2] > 0)
    OBVIOUS
  <1> HIDE DEF e, there, stops, n, k
  <1>5. PICK d \in Place : /\ InPlace(d) /\ worker' = [worker EXCEPT ![w] = d]
                           /\ IF stops \/ k = 2 THEN d.pc \in {"count", "serve"} ELSE d = e
    <2>1. InPlace(e)
      BY <1>2, <1>3 DEF InPlace
    <2> QED BY <1>1, <1>2, <1>3, <2>1, NextPlace
  <1>6. d.pc \notin {"up", "record"} /\ \A v \in Workers : worker'[v] = IF v = w THEN d ELSE worker[v]
    BY <1>3, <1>5
  <1>7. /\ rows' \in [SectionSet -> [1..2 -> Nat]] /\ disturbed' \subseteq SectionSet
        /\ disturbed \subseteq disturbed'
        /\ \A t \in SectionSet : t # s => rows'[t] = rows[t]
    <2>1. rows[s][k] \in Nat
      BY <1>2
    <2>2. CASE stops \/ there
      BY <1>1, <1>2, <2>2
    <2>3. CASE ~(stops \/ there)
      BY <1>1, <1>2, <2>1, <2>3
    <2> QED BY <2>2, <2>3
  <1>8. AllSound'
    <2> SUFFICES ASSUME NEW t \in SectionSet, t \notin disturbed' PROVE SectionSound(t)'
      BY DEF AllSound, SectionSet
    <2>1. SectionSound(t)
      BY <1>7 DEF AllSound
    <2>2. \A v \in Workers : v # w => (Inserts(v, t)' <=> Inserts(v, t)) /\ worker'[v] = worker[v]
      BY <1>6 DEF Inserts, At
    <2>3. CASE t = s
      <3>1. ~stops
        BY <1>1, <2>3
      <3>2. Inserts(w, t) /\ \A v \in Workers : v # w => ~Inserts(v, t)'
        BY <1>1, <2>1, <2>2, <2>3 DEF SectionSound, Inserts, At, n
      <3>3. IF k = 1 THEN rows[s][1] = 0 /\ rows[s][2] = 0 ELSE rows[s][1] = 1 /\ rows[s][2] = 0
        BY <2>1, <2>3, <3>2 DEF SectionSound, Rows, k
      <3>4. ~there
        BY <1>2, <1>4, <3>3
      <3>5. rows' = [rows EXCEPT ![s][k] = rows[s][k] + 1]
        BY <1>1, <3>1, <3>4
      <3>6. CASE k = 1
        <4>1. rows'[s][1] = 1 /\ rows'[s][2] = 0
          BY <1>2, <3>3, <3>5, <3>6
        <4>2. worker'[w] = e
          BY <1>5, <1>6, <3>1, <3>6
        <4>3. Inserts(w, t)' /\ worker'[w].k = 2
          BY <1>3, <2>3, <4>2 DEF Inserts, At, n
        <4> QED BY <2>3, <3>2, <4>1, <4>3 DEF SectionSound, Rows
      <3>7. CASE k # 1
        <4>1. k = 2 /\ rows'[s][1] = 1 /\ rows'[s][2] = 1
          BY <1>2, <3>3, <3>5, <3>7
        <4>2. ~Inserts(w, t)'
          BY <1>5, <1>6, <4>1 DEF Inserts, At
        <4> QED BY <2>3, <3>2, <4>1, <4>2 DEF SectionSound, Rows
      <3> QED BY <3>6, <3>7
    <2>4. CASE t # s
      <3>1. ~Inserts(w, t)' /\ ~Inserts(w, t)
        BY <1>3, <1>5, <1>6, <2>4 DEF Inserts, At, n
      <3> QED BY <1>7, <2>1, <2>2, <2>4, <3>1 DEF SectionSound, Rows
    <2> QED BY <2>3, <2>4
  <1> QED BY <1>1, <1>5, <1>6, <1>7, <1>8, RowsIInv

LEMMA StartupCrashIInv ==
  ASSUME StartupIInv, NEW w \in Workers, Crash(w)
  PROVE  StartupIInv'
  <1> USE StartupTypes DEF StartupIInv
  <1>1. /\ crashes < MaxCrashes /\ crashes' = crashes + 1 /\ UNCHANGED <<built, applied, rows>>
        /\ worker' = [worker EXCEPT ![w] = Fresh]
        /\ disturbed' = IF worker[w].pc = "insert" THEN disturbed \cup {Sections[worker[w].i]}
                        ELSE disturbed
    BY DEF Crash, Goto, At
  <1>2. crashes' \in 0..MaxCrashes
    BY <1>1, StartupAssumed DEF StartupAssumption
  <1>3. disturbed' \subseteq SectionSet /\ disturbed \subseteq disturbed'
    BY <1>1, SectionFacts DEF InPlace
  <1>4. \A v \in Workers : worker'[v] = IF v = w THEN Fresh ELSE worker[v]
    BY <1>1
  <1>5. AllSound'
    BY <1>1, <1>3, <1>4, PlaceFacts, RowsKept
  <1> QED BY <1>1, <1>2, <1>3, <1>5, PlaceFacts, RowsIInv

\* What schema_migrations calls applied is there, except 013, and the first
\* rows of a table are there once, all or none, unless its section was
\* disturbed (migrations/index.ts 714-726, config/db.ts 137-393).
THEOREM StartsWhole == Init /\ [][Next]_vars => [](TypeOK /\ AppliedMeansBuilt /\ SeedsWhole)
  <1>1. Init => StartupIInv
    <2> SUFFICES ASSUME Init PROVE StartupIInv
      OBVIOUS
    <2>1. \A w \in Workers : worker[w] = Fresh
      BY DEF Init
    <2>2. worker \in [Workers -> Place]
      BY PlaceFacts DEF Init
    <2>3. crashes \in 0..MaxCrashes
      BY StartupAssumed DEF Init, StartupAssumption
    <2>4. TypeOK
      BY <2>1, <2>2, <2>3, PlaceFacts, StartupTypes DEF Init
    <2>5. AllDone
      BY <2>1, PlaceFacts, NothingToDo DEF AllDone
    <2>6. AllSound
      BY <2>1, PlaceFacts DEF Init, AllSound, SectionSound, Inserts, At, Rows
    <2> QED BY <2>4, <2>5, <2>6 DEF StartupIInv, Init, AppliedMeansBuilt
  <1>2. StartupIInv /\ [Next]_vars => StartupIInv'
    <2> SUFFICES ASSUME StartupIInv, [Next]_vars PROVE StartupIInv'
      OBVIOUS
    <2>1. CASE UNCHANGED vars
      <3>1. /\ built' = built /\ applied' = applied /\ rows' = rows /\ worker' = worker
            /\ UNCHANGED <<crashes, disturbed>>
        BY <2>1 DEF vars
      <3> QED BY <3>1, StartupTypes, SchemaIInv DEF StartupIInv, AppliedMeansBuilt
    <2>2. ASSUME NEW w \in Workers, Step(w) \/ Crash(w) PROVE StartupIInv'
      BY <2>2, SelectIInv, UpIInv, StartupRecordIInv, CountIInv, InsertIInv,
         StartupCrashIInv DEF Step
    <2> QED BY <2>1, <2>2, CollideIInv DEF Next
  <1>3. StartupIInv => TypeOK /\ AppliedMeansBuilt /\ SeedsWhole
    <2> SUFFICES ASSUME StartupIInv, NEW s \in SectionSet \ disturbed,
                        \A w \in Workers : ~Inserts(w, s)
                 PROVE  \E n \in 0..1 : rows[s] = [k \in 1..2 |-> n]
      BY DEF StartupIInv, SeedsWhole, Inserts
    <2>1. rows[s] \in [1..2 -> Nat] /\ (Rows(s, 0, 0) \/ Rows(s, 1, 1))
      BY StartupTypes DEF StartupIInv, AllSound, SectionSound
    <2>2. ASSUME NEW a, Rows(s, a, a) PROVE rows[s] = [k \in 1..2 |-> a]
      <3>1. \A k \in 1..2 : rows[s][k] = a
        BY <2>2 DEF Rows
      <3> QED BY <2>1, <3>1
    <2>3. 0 \in 0..1 /\ 1 \in 0..1
      OBVIOUS
    <2>4. CASE Rows(s, 0, 0)
      BY <2>2, <2>3, <2>4
    <2>5. CASE Rows(s, 1, 1)
      BY <2>2, <2>3, <2>5
    <2> QED BY <2>1, <2>4, <2>5
  <1> QED BY <1>1, <1>2, <1>3, PTL DEF Spec
-----------------------------------------------------------------------------
(* The composition: a behaviour of the whole is one of every part, but for *)
(* the fairness that the part states, which no invariant needs.            *)

LEMMA OneTimeCodesRuns == PartsSpec => O!Spec
  <1>1. PartsInit => O!Init
    BY DEF PartsInit
  <1>2. [PartsNext]_partsVars => [O!Next]_O!vars
    <2> SUFFICES ASSUME [PartsNext]_partsVars PROVE [O!Next]_O!vars
      OBVIOUS
    <2>1. CASE Codes
      BY <2>1 DEF Codes
    <2>2. CASE UNCHANGED oVars
      BY <2>2 DEF oVars, O!vars
    <2>3. Codes \/ UNCHANGED oVars
      BY DEF PartsNext, partsVars, Codes, Sessions, Starting, Caching, Syncing, Notifying,
         Pruning
    <2> QED BY <2>1, <2>2, <2>3
  <1> QED BY <1>1, <1>2, PTL DEF PartsSpec, O!Spec

LEMMA SessionRuns == PartsSpec => S!Spec
  <1>1. PartsInit => S!Init
    BY DEF PartsInit
  <1>2. [PartsNext]_partsVars => [S!Next]_S!vars
    <2> SUFFICES ASSUME [PartsNext]_partsVars PROVE [S!Next]_S!vars
      OBVIOUS
    <2>1. CASE Sessions
      BY <2>1 DEF Sessions
    <2>2. CASE UNCHANGED sVars
      BY <2>2 DEF sVars, S!vars
    <2>3. Sessions \/ UNCHANGED sVars
      BY DEF PartsNext, partsVars, Codes, Sessions, Starting, Caching, Syncing, Notifying,
         Pruning
    <2> QED BY <2>1, <2>2, <2>3
  <1> QED BY <1>1, <1>2, PTL DEF PartsSpec, S!Spec

LEMMA StartupRuns == PartsSpec => Init /\ [][Next]_vars
  <1>1. PartsInit => Init
    BY DEF PartsInit
  <1>2. [PartsNext]_partsVars => [Next]_vars
    <2> SUFFICES ASSUME [PartsNext]_partsVars PROVE [Next]_vars
      OBVIOUS
    <2>1. CASE Starting
      BY <2>1 DEF Starting
    <2>2. CASE UNCHANGED vars
      BY <2>2
    <2>3. Starting \/ UNCHANGED vars
      BY DEF PartsNext, partsVars, Codes, Sessions, Starting, Caching, Syncing, Notifying,
         Pruning
    <2> QED BY <2>1, <2>2, <2>3
  <1> QED BY <1>1, <1>2, PTL DEF PartsSpec

LEMMA SearchCacheRuns == PartsSpec => C!Spec
  <1>1. PartsInit => C!Init
    BY DEF PartsInit
  <1>2. [PartsNext]_partsVars => [C!Next]_C!vars
    <2> SUFFICES ASSUME [PartsNext]_partsVars PROVE [C!Next]_C!vars
      OBVIOUS
    <2>1. CASE Caching
      BY <2>1 DEF Caching
    <2>2. CASE UNCHANGED cVars
      BY <2>2 DEF cVars, C!vars
    <2>3. Caching \/ UNCHANGED cVars
      BY DEF PartsNext, partsVars, Codes, Sessions, Starting, Caching, Syncing, Notifying,
         Pruning
    <2> QED BY <2>1, <2>2, <2>3
  <1> QED BY <1>1, <1>2, PTL DEF PartsSpec, C!Spec

LEMMA TrainSyncRuns == PartsSpec => T!Spec
  <1>1. PartsInit => T!Init
    BY DEF PartsInit
  <1>2. [PartsNext]_partsVars => [T!Next]_T!vars
    <2> SUFFICES ASSUME [PartsNext]_partsVars PROVE [T!Next]_T!vars
      OBVIOUS
    <2>1. CASE Syncing
      BY <2>1 DEF Syncing
    <2>2. CASE UNCHANGED tVars
      BY <2>2 DEF tVars, T!vars
    <2>3. Syncing \/ UNCHANGED tVars
      BY DEF PartsNext, partsVars, Codes, Sessions, Starting, Caching, Syncing, Notifying,
         Pruning
    <2> QED BY <2>1, <2>2, <2>3
  <1> QED BY <1>1, <1>2, PTL DEF PartsSpec, T!Spec

LEMMA NotificationsRuns == PartsSpec => N!Init /\ [][N!Next]_N!vars
  <1>1. PartsInit => N!Init
    BY DEF PartsInit
  <1>2. [PartsNext]_partsVars => [N!Next]_N!vars
    <2> SUFFICES ASSUME [PartsNext]_partsVars PROVE [N!Next]_N!vars
      OBVIOUS
    <2>1. CASE Notifying
      BY <2>1 DEF Notifying
    <2>2. CASE UNCHANGED nVars
      BY <2>2 DEF nVars, N!vars
    <2>3. Notifying \/ UNCHANGED nVars
      BY DEF PartsNext, partsVars, Codes, Sessions, Starting, Caching, Syncing, Notifying,
         Pruning
    <2> QED BY <2>1, <2>2, <2>3
  <1> QED BY <1>1, <1>2, PTL DEF PartsSpec

LEMMA PartitionsRuns == PartsSpec => P!Spec
  <1>1. PartsInit => P!Init
    BY DEF PartsInit
  <1>2. [PartsNext]_partsVars => [P!Next]_P!vars
    <2> SUFFICES ASSUME [PartsNext]_partsVars PROVE [P!Next]_P!vars
      OBVIOUS
    <2>1. CASE Pruning
      BY <2>1 DEF Pruning
    <2>2. CASE UNCHANGED pVars
      BY <2>2 DEF pVars, P!vars
    <2>3. Pruning \/ UNCHANGED pVars
      BY DEF PartsNext, partsVars, Codes, Sessions, Starting, Caching, Syncing, Notifying,
         Pruning
    <2> QED BY <2>1, <2>2, <2>3
  <1> QED BY <1>1, <1>2, PTL DEF PartsSpec, P!Spec

\* What holds of every part, whichever of them runs.
LEMMA PartsSound ==
  PartsSpec => /\ [](O!TypeOK /\ O!CodesUsedOnce)
               /\ [](S!TypeOK /\ S!StrikesCounted)
               /\ [](TypeOK /\ AppliedMeansBuilt /\ SeedsWhole)
               /\ [](C!TypeOK /\ C!AnswerAge)
               /\ [](T!TypeOK /\ T!SeatsComeWithTrain)
               /\ [](N!TypeOK /\ NeverUnattended)
               /\ [](P!TypeOK /\ P!MonthCovered)
  <1>1. PartsSpec => [](O!TypeOK /\ O!CodesUsedOnce)
    BY CodesPassOnce, OneTimeCodesRuns, PTL
  <1>2. PartsSpec => [](S!TypeOK /\ S!StrikesCounted)
    BY StrikesAddUp, SessionRuns, PTL
  <1>3. PartsSpec => [](TypeOK /\ AppliedMeansBuilt /\ SeedsWhole)
    BY StartsWhole, StartupRuns, PTL
  <1>4. PartsSpec => [](C!TypeOK /\ C!AnswerAge)
    BY AnswersYoung, SearchCacheRuns, PTL
  <1>5. PartsSpec => [](T!TypeOK /\ T!SeatsComeWithTrain)
    BY TrainsBookable, TrainSyncRuns, PTL
  <1>6. PartsSpec => [](N!TypeOK /\ NeverUnattended)
    BY NotesAttended, NotificationsRuns, PTL
  <1>7. PartsSpec => [](P!TypeOK /\ P!MonthCovered)
    BY MonthsCovered, PartitionsRuns, PTL
  <1> QED BY <1>1, <1>2, <1>3, <1>4, <1>5, <1>6, <1>7, PTL

\* Every part keeps its types, whichever of them runs.
THEOREM PartsTyped == PartsSpec => []PartsTypeOK
  <1>1. /\ O!TypeOK /\ O!CodesUsedOnce
        /\ S!TypeOK /\ S!StrikesCounted
        /\ TypeOK /\ AppliedMeansBuilt /\ SeedsWhole
        /\ C!TypeOK /\ C!AnswerAge
        /\ T!TypeOK /\ T!SeatsComeWithTrain
        /\ N!TypeOK /\ NeverUnattended
        /\ P!TypeOK /\ P!MonthCovered
        => PartsTypeOK
    BY DEF PartsTypeOK
  <1> QED BY <1>1, PartsSound, PTL

\* A code passes one verification, and the strikes of an account are its failed attempts
\* since the last reset, but for the overlaps the two properties name; an account at the
\* limit is locked, whatever overlaps (routes/auth.routes.ts 29-341, middleware/accountLockout).
THEOREM SignInKept == PartsSpec => []SignInCounts
  <1>1. /\ O!TypeOK /\ O!CodesUsedOnce
        /\ S!TypeOK /\ S!StrikesCounted
        => SignInCounts
    BY DEF SignInCounts
  <1> QED BY <1>1, PartsSound, PTL

\* Every migration that schema_migrations calls applied, but 013, is there, and the first
\* rows of a section that nothing disturbed are there once, all or none
\* (migrations/index.ts, config/db.ts).
THEOREM StartupKept == PartsSpec => []StartupWhole
  <1>1. /\ TypeOK /\ AppliedMeansBuilt /\ SeedsWhole
        => StartupWhole
    BY DEF StartupWhole
  <1> QED BY <1>1, PartsSound, PTL

\* No answer is older than its time to live and the time of one request, however memories
\* and Redis hand it on (services/cache.service.ts).
THEOREM AgeKept == PartsSpec => []AnswerAge
  <1>1. /\ C!TypeOK /\ C!AnswerAge
        => AnswerAge
    BY DEF AnswerAge
  <1> QED BY <1>1, PartsSound, PTL

\* A train that can be found has its coaches and seats, or a search is about to insert
\* them, or one was cut short (routes/train.routes.ts 88-205).
THEOREM SeatsKept == PartsSpec => []SeatsComeWithTrain
  <1>1. /\ T!TypeOK /\ T!SeatsComeWithTrain
        => SeatsComeWithTrain
    BY DEF SeatsComeWithTrain
  <1> QED BY <1>1, PartsSound, PTL

\* The present month has its partition, up to three months after the last cycle that came
\* through (services/partition-maintainer.service.ts).
THEOREM MonthKept == PartsSpec => []MonthCovered
  <1>1. /\ P!TypeOK /\ P!MonthCovered
        => MonthCovered
    BY DEF MonthCovered
  <1> QED BY <1>1, PartsSound, PTL

\* A notification that has failed and may be tried again has a time at which it will be:
\* no crash of a worker and no error of a statement takes it away
\* (services/notification.service.ts).
THEOREM NotesKept == PartsSpec => []NeverUnattended
  BY PartsSound, PTL
=============================================================================
