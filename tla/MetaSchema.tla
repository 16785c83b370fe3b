------------------------------- MODULE MetaSchema -------------------------------
(****************************************************************************)
(* A schema (internal/metamodel/schema.go): states, actions and the arcs    *)
(* between them, as sequences in the order they were added.  A state's type *)
(* is the tuple of its map keys followed by its value type, so a scalar's   *)
(* type has one entry.                                                      *)
(****************************************************************************)
EXTENDS Naturals, Sequences, SequencesExt

\* An initial value is a number (initial), or a map from texts to numbers (entries).
StartingWith(id, kind, type, initial, entries) ==
  [id |-> id, kind |-> kind, type |-> type, initial |-> initial, entries |-> entries]
State(id, kind, type, initial) == StartingWith(id, kind, type, initial, <<>>)
Action(id, guard) == [id |-> id, guard |-> guard]
Arc(source, target, keys, value) == [source |-> source, target |-> target, keys |-> keys, value |-> value]

Depth(type) == Len(type) - 1
IsMap(type) == Depth(type) > 0

\* Kind is left empty by the templates, and an empty kind is data.
IsToken(st) == st.kind = "token"
IsData(st)  == st.kind \in {"data", ""}

StateIDs(s)  == {s.states[k].id : k \in DOMAIN s.states}
ActionIDs(s) == {s.actions[k].id : k \in DOMAIN s.actions}

\* StateByID and ActionByID return the first of the name; HasState and
\* HasAction are their nil checks.
HasState(s, id)   == id \in StateIDs(s)
HasAction(s, id)  == id \in ActionIDs(s)
StateByID(s, id)  == LET k == CHOOSE k \in DOMAIN s.states : s.states[k].id = id
                                 /\ \A m \in 1 .. k - 1 : s.states[m].id # id
                     IN s.states[k]
ActionByID(s, id) == LET k == CHOOSE k \in DOMAIN s.actions : s.actions[k].id = id
                                 /\ \A m \in 1 .. k - 1 : s.actions[m].id # id
                     IN s.actions[k]

\* InputArcs and OutputArcs: whether the k-th arc is one of an action.
IsInput(s, k, action)  == s.arcs[k].target = action
IsOutput(s, k, action) == s.arcs[k].source = action

\* InitialTokens: a token state's initial count; a data state counts none.
InitialTokens(st) == IF IsToken(st) THEN st.initial ELSE 0

NoRepeats(q) == \A i, j \in DOMAIN q : q[i].id = q[j].id => i = j

\* Schema.Validate, and Model.Validate of internal/petri: names are unique and
\* not empty, and an arc joins a state to an action or an action to a state.
Validate(s) ==
  /\ NoRepeats(s.states) /\ NoRepeats(s.actions)
  /\ \A k \in DOMAIN s.states : s.states[k].id # <<>>
  /\ \A k \in DOMAIN s.actions : s.actions[k].id # <<>>
  /\ \A k \in DOMAIN s.arcs :
       LET a == s.arcs[k]
       IN /\ a.source \in StateIDs(s) \cup ActionIDs(s)
          /\ a.target \in StateIDs(s) \cup ActionIDs(s)
          /\ ~(a.source \in StateIDs(s) /\ a.target \in StateIDs(s))
          /\ ~(a.source \in ActionIDs(s) /\ a.target \in ActionIDs(s))

=============================================================================
