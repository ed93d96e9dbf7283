-------------------------------- MODULE Dict --------------------------------
(***************************************************************************)
(* What lib/kernel/hash.c promises: a set of elements with distinct keys.  *)
(* An element is a pair of key and name.                                   *)
(***************************************************************************)
EXTENDS FiniteSets, Sequences

CONSTANTS Element, NULL

VARIABLES content,   \* the elements in the table
          seen,      \* what the iteration has returned so far, or NULL
          answer     \* the last call and what it returned
dictVars == <<content, seen, answer>>

Equal(x) == {y \in content : y[1] = x[1]}
Found(x) == IF Equal(x) = {} THEN NULL ELSE CHOOSE y \in Equal(x) : TRUE

DictInit == content = {} /\ seen = NULL /\ answer = <<"none", NULL, NULL>>

\* A call that ends any iteration.
Call(op, x, res) == answer' = <<op, x, res>> /\ seen' = NULL

Insert(x) == Call("insert", x, Found(x)) /\ content' = IF Equal(x) = {} THEN content \cup {x} ELSE content
Replace(x) == Call("replace", x, Found(x)) /\ content' = (content \ Equal(x)) \cup {x}
Find(x) == answer' = <<"find", x, Found(x)>> /\ UNCHANGED <<content, seen>>
Delete(x) == Call("delete", x, Found(x)) /\ content' = content \ Equal(x)
Clear == Call("clear", NULL, content) /\ content' = {}
Size == answer' = <<"size", NULL, Cardinality(content)>> /\ UNCHANGED <<content, seen>>

First == seen' = <<>> /\ answer' = <<"first", NULL, NULL>> /\ content' = content
Next ==
  /\ seen # NULL /\ content' = content
  /\ \/ \E x \in content \ {seen[i] : i \in DOMAIN seen} : seen' = Append(seen, x) /\ answer' = <<"next", NULL, x>>
     \/ Len(seen) = Cardinality(content) /\ seen' = seen /\ answer' = <<"next", NULL, NULL>>

DictNext ==
  \/ Clear \/ Size \/ First \/ Next
  \/ \E x \in Element : Insert(x) \/ Replace(x) \/ Find(x) \/ Delete(x)

DictSpec == DictInit /\ [][DictNext]_dictVars
=============================================================================
