---------------------------- MODULE LearnedCache ----------------------------
(***************************************************************************)
(* The process-wide memo of fields an upstream model refused by name       *)
(* (bedrock_gateway/unsupported_param_cache.py, the _LEARNED_UNSUPPORTED   *)
(* instance of server.py) and the one remediation it replays               *)
(* (bedrock_gateway/unsupported_param.py).                                 *)
(*                                                                         *)
(* A "thing" is what an upstream 400 can name: one field of the request    *)
(* body or one tool type.  The cache is a Python dict of dicts, so what is *)
(* kept here is exactly what such a dict keeps: at most one lesson per     *)
(* (model, path), and the insertion order of the paths, as "pos".          *)
(***************************************************************************)
EXTENDS Integers, FiniteSets

CONSTANTS
  Models,   \* upstream model ids, the outer key of the cache
  Things,   \* what a 400 may name: fields and tool types
  Paths,    \* the strings a thing is named by, the inner key of the cache
  Path,     \* Path[t]: how thing t is spelled; a tool and a field may collide
  Rename,   \* Rename[t]: what a renamed field becomes; its domain are the renamed
  TTL       \* DEFAULT_TTL_SECONDS, in ticks

ASSUME CacheAssumption ==
  /\ Path \in [Things -> Paths]
  /\ DOMAIN Rename \subseteq Things
  /\ \A t \in DOMAIN Rename : Rename[t] \in Things \ {t}
  /\ TTL \in Nat \ {0}

VARIABLES
  now,      \* time.monotonic(), in ticks
  entries,  \* the lessons held, see Lesson
  nextPos   \* the position the next new key of a dict takes

cacheVars == <<entries, nextPos>>

Lesson == [model : Models, thing : Things, expires : Nat, pos : Nat]

-----------------------------------------------------------------------------
(* The remediation of one named thing.                                     *)

\* Variant: renames what has a new name and forgets to drop what has none.
RemedyRenamesOnly(things, t) ==
  IF t \in things \intersect DOMAIN Rename THEN (things \ {t}) \union {Rename[t]} ELSE things

\* apply_unsupported_remediation: drop the thing, or move it to its new name; a
\* new name that is already there wins, which on a set is the same union.
Remedy(things, t) ==
  IF t \in things
  THEN (things \ {t}) \union {Rename[u] : u \in {t} \intersect DOMAIN Rename}
  ELSE things

-----------------------------------------------------------------------------
(* The cache.                                                              *)

\* The lesson the cache holds under the key of thing t, if any.
Held(m, t) == {e \in entries : e.model = m /\ Path[e.thing] = Path[t]}

\* record: assign to a dict key.  A key already there keeps its position and is
\* overwritten, whichever kind of thing it stood for.
Record(m, t) ==
  LET old == Held(m, t)
      at  == IF old = {} THEN nextPos ELSE (CHOOSE e \in old : TRUE).pos
  IN /\ entries' = (entries \ old) \union
                     {[model |-> m, thing |-> t, expires |-> now + TTL, pos |-> at]}
     /\ nextPos' = IF old = {} THEN nextPos + 1 ELSE nextPos

\* Variant: expired lessons are returned until something prunes them.
LiveAndStale(m) == {e \in entries : e.model = m}

\* What lookup returns: the lessons for m that have not expired.
Live(m) == {e \in entries : e.model = m /\ e.expires > now}

\* lookup: prunes what has expired for that model, and only for that model.
Lookup(m) ==
  /\ entries' = {e \in entries : e.model # m} \union Live(m)
  /\ UNCHANGED nextPos

\* strip applies the lessons in dict order, each to the result of the one before.
FirstOf(lessons, e) == e \in lessons /\ \A d \in lessons : e.pos <= d.pos

-----------------------------------------------------------------------------
CacheInit ==
  /\ now = 0
  /\ entries = {}
  /\ nextPos = 0

CacheTypeOK ==
  /\ now \in Nat
  /\ entries \in SUBSET Lesson
  /\ nextPos \in Nat

\* The table is a dict of dicts: a model holds one lesson per path, and the
\* insertion order of its paths is total (unsupported_param_cache.py, record).
OneLessonPerKey ==
  /\ \A d, e \in entries : 
        d.model = e.model /\ Path[d.thing] = Path[e.thing] => d = e
  /\ \A d, e \in entries : d.pos = e.pos => d = e
  /\ \A e \in entries : e.pos < nextPos
=============================================================================
