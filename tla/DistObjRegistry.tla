--------------------------- MODULE DistObjRegistry ---------------------------
(****************************************************************************)
(* The table that maps the keys of remote commands to local objects         *)
(* (DistObj.h, DistObj.cpp).  A slot with a null object ends the table, and *)
(* a full table has no such slot.  Slots behind the end are uninitialised   *)
(* memory.                                                                  *)
(****************************************************************************)
EXTENDS Naturals, FiniteSetsExt

CONSTANTS
  Keys,        \* key_t
  Objs,        \* the objects an application registers
  Null,        \* a null IDistObj*
  Junk,        \* a key or pointer in uninitialised memory
  MaxObj       \* CFX_MAX_NUM_DIST_OBJ

ASSUME MaxObjAssumption == MaxObj \in Nat \ {0}
ASSUME NullAssumption == Null \notin Objs /\ Junk \notin Objs /\ Junk # Null
ASSUME KeyAssumption == Junk \notin Keys

Slots == 0 .. MaxObj - 1

ObjMap == [key : Keys \cup {Junk}, obj : Objs \cup {Null, Junk}]

Tables == [Slots -> ObjMap]

\* The constructor writes one null and leaves the rest as it finds it.
InitialTable ==
  [i \in Slots |-> [key |-> Junk, obj |-> IF i = 0 THEN Null ELSE Junk]]

\* Where the loops of register_obj() and get_obj() stop.
End(m) == Min({i \in Slots : m[i].obj = Null} \cup {MaxObj})

register_obj(m, key, obj) ==
  LET i == End(m)
      filled == [m EXCEPT ![i] = [key |-> key, obj |-> obj]]
  IN  CASE i = MaxObj -> m
        [] i = MaxObj - 1 -> filled
        [] OTHER -> [filled EXCEPT ![i + 1].obj = Null]

\* Bug seeded: the search goes on to the last match.
LastMatch(m, key) ==
  LET hits == {i \in 0 .. End(m) - 1 : m[i].key = key}
  IN  IF hits = {} THEN Null ELSE m[Max(hits)].obj

\* A second object under the key of a first one is never found.
get_obj(m, key) ==
  LET hits == {i \in 0 .. End(m) - 1 : m[i].key = key}
  IN  IF hits = {} THEN Null ELSE m[Min(hits)].obj
=============================================================================
