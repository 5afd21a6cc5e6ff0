------------------------------ MODULE KeyArray ------------------------------
(***************************************************************************)
(* KeyArray of src/CtrlrFx/KeyArray.h: slots of an Array, each with a key, *)
(* searched from the first on; EMPTY_SLOT marks a free one.  One task uses *)
(* it; every operation is a step.  The k-th value accepted is the number   *)
(* k.                                                                      *)
(*                                                                         *)
(* put(EMPTY_SLOT, v) stores a value in a slot that stays free, and        *)
(* get_at(i) of a free slot, or get(EMPTY_SLOT), hands out what the slot   *)
(* held before: the clients modelled use other keys and the indexes of     *)
(* slots in use.                                                           *)
(***************************************************************************)
EXTENDS Integers

CONSTANTS KyKeys,      \* keys of clients
          EMPTY_SLOT,
          KySize,      \* slots
          KyMaxItems   \* bound: values stored in all

ASSUME KyDistinct == EMPTY_SLOT \notin KyKeys
ASSUME KyBounds == KySize \in Nat /\ KyMaxItems \in Nat

VARIABLES kyKey, kyVal,  \* arr_, by slot
          kyOf,          \* the keys of the values accepted
          kyOut,         \* values handed out or removed
          kyGot          \* the last get: key asked for, value, found

kyVars == <<kyKey, kyVal, kyOf, kyOut, kyGot>>

KySlots == 0..(KySize - 1)
KyNone == [key |-> EMPTY_SLOT, val |-> 0, found |-> FALSE]
KyCount == CHOOSE n \in 0..KyMaxItems : DOMAIN kyOf = 1..n

\* The constructors clear() all slots; values are not initialised.
KyInit == /\ kyKey = [i \in KySlots |-> EMPTY_SLOT]
          /\ kyVal = [i \in KySlots |-> 0]
          /\ kyOf = << >> /\ kyOut = {} /\ kyGot = KyNone

\* Bug seeded: the search ends at the first free slot.
KyFindToFree(key) ==
  IF \E i \in KySlots : kyKey[i] = key /\ \A j \in 0..(i - 1) : kyKey[j] \notin {key, EMPTY_SLOT}
  THEN CHOOSE i \in KySlots : kyKey[i] = key /\ \A j \in 0..(i - 1) : kyKey[j] \notin {key, EMPTY_SLOT}
  ELSE -1

\* find(): the first slot with the key, or -1.
KyFind(key) == IF \E i \in KySlots : kyKey[i] = key
               THEN CHOOSE i \in KySlots : /\ kyKey[i] = key
                                           /\ \A j \in 0..(i - 1) : kyKey[j] # key
               ELSE -1

\* put(): the first free slot; a key may be there already.
KyPut(key) == /\ KyCount < KyMaxItems
              /\ KyFind(EMPTY_SLOT) >= 0
              /\ kyKey' = [kyKey EXCEPT ![KyFind(EMPTY_SLOT)] = key]
              /\ kyVal' = [kyVal EXCEPT ![KyFind(EMPTY_SLOT)] = KyCount + 1]
              /\ kyOf' = [v \in 1..(KyCount + 1) |-> IF v <= KyCount THEN kyOf[v] ELSE key]
              /\ kyGot' = KyNone
              /\ UNCHANGED kyOut

\* Bug seeded: the slot is not emptied.
KyTakeKept(i, key) == /\ kyGot' = [key |-> key, val |-> kyVal[i], found |-> TRUE]
                      /\ kyOut' = kyOut \cup {kyVal[i]}
                      /\ UNCHANGED <<kyKey, kyVal, kyOf>>

\* get_at(i): the value, and the slot is free again.
KyTake(i, key) == /\ kyGot' = [key |-> key, val |-> kyVal[i], found |-> TRUE]
                  /\ kyKey' = [kyKey EXCEPT ![i] = EMPTY_SLOT]
                  /\ kyOut' = kyOut \cup {kyVal[i]}
                  /\ UNCHANGED <<kyVal, kyOf>>

KyGetAt == \E i \in KySlots : kyKey[i] # EMPTY_SLOT /\ KyTake(i, kyKey[i])

\* get(key), and with the value thrown away remove(key).
KyGet(key) == \/ KyFind(key) >= 0 /\ KyTake(KyFind(key), key)
              \/ /\ KyFind(key) = -1
                 /\ kyGot' = [key |-> key, val |-> 0, found |-> FALSE]
                 /\ UNCHANGED <<kyKey, kyVal, kyOf, kyOut>>

\* remove_at(i): any index, in use or not.
KyRemoveAt(i) == /\ kyKey' = [kyKey EXCEPT ![i] = EMPTY_SLOT]
                 /\ kyOut' = kyOut \cup (IF kyKey[i] = EMPTY_SLOT THEN {} ELSE {kyVal[i]})
                 /\ kyGot' = KyNone
                 /\ UNCHANGED <<kyVal, kyOf>>

KyClear == /\ kyKey' = [i \in KySlots |-> EMPTY_SLOT]
           /\ kyOut' = DOMAIN kyOf
           /\ kyGot' = KyNone
           /\ UNCHANGED <<kyVal, kyOf>>

KyNext == \/ \E key \in KyKeys : KyPut(key) \/ KyGet(key)
          \/ \E i \in KySlots : KyRemoveAt(i)
          \/ KyGetAt \/ KyClear

KySpec == KyInit /\ [][KyNext]_kyVars

-----------------------------------------------------------------------------

\* Every value accepted is either in exactly one slot, under its own key, or
\* has been handed out or removed: with equal keys in several slots, get(key)
\* and put() never lose, repeat or overwrite one.
KyLedger ==
  /\ \A v \in DOMAIN kyOf \ kyOut :
       \E i \in KySlots : /\ kyVal[i] = v /\ kyKey[i] = kyOf[v]
                          /\ \A j \in KySlots \ {i} : kyKey[j] # EMPTY_SLOT => kyVal[j] # v
  /\ \A i \in KySlots : kyKey[i] # EMPTY_SLOT => kyVal[i] \in DOMAIN kyOf \ kyOut

\* A get finds a value if one is there under the key, and returns such a one.
KyAnswer == kyGot.key # EMPTY_SLOT =>
  IF kyGot.found THEN kyOf[kyGot.val] = kyGot.key
  ELSE \A v \in DOMAIN kyOf \ kyOut : kyOf[v] # kyGot.key
=============================================================================
