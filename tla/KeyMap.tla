------------------------------- MODULE KeyMap -------------------------------
(***************************************************************************)
(* What the nodes of a bucket promise, without order, siblings or pages:   *)
(* each node is a collection of entries.  It is a map for the keys that    *)
(* have their size to themselves; one that has not may be missed.          *)
(***************************************************************************)
EXTENDS Naturals

CONSTANTS MaxNodes,     \* bound on the nodes of the bucket
          Key, Value,
          KeySize,      \* the size of each key
          Stored        \* the entries of each page

VARIABLES content,      \* content[n]: the entries of node n
          loaded        \* the pages that have a node

MapNode == 1 .. MaxNodes

OnlyChanges(n) ==
  /\ UNCHANGED loaded
  /\ \A m \in MapNode \ {n} : content'[m] = content[m]

\* No other key of node n has the size of this one.
Alone(n, key) ==
  \A x \in content[n] : KeySize[x.key] = KeySize[key] => x.key = key

Under(n, key) == {x \in content[n] : x.key = key}

\* A node gets the entries of a page, once.
Load(page, n) ==
  /\ page \notin loaded
  /\ loaded' = loaded \cup {page}
  /\ content[n] = {}
  /\ content' = [content EXCEPT ![n] = Stored[page]]

\* An entry of new is stored.  At most one entry goes for it, an entry of old: the one
\* there is, if old is alone.
Store(n, old, new, value) ==
  /\ \E gone \in SUBSET Under(n, old), entry \in content'[n] :
       /\ entry.key = new /\ entry.value = value
       /\ content'[n] = (content[n] \ gone) \cup {entry}
       /\ \A x, y \in gone : x = y
       /\ Alone(n, old) => gone = Under(n, old)

\* At most one entry of the key goes: the one there is, if the key is alone.
Delete(n, key) ==
  /\ \E gone \in SUBSET Under(n, key) :
       /\ content'[n] = content[n] \ gone
       /\ \A x, y \in gone : x = y
       /\ Alone(n, key) => gone = Under(n, key)

\* Entries move from a node to empty ones; none is lost, and none is doubled whose key
\* is alone.
Spread(n) ==
  LET Open == {k \in MapNode : k = n \/ content[k] = {}}
  IN  /\ \A m \in MapNode \ Open : content'[m] = content[m]
      /\ content[n] = UNION {content'[m] : m \in Open}
      /\ \A m, k \in Open : m # k =>
           \A x \in content'[m] \cap content'[k] : ~Alone(n, x.key)
      /\ UNCHANGED loaded

KeyMapNext ==
  \E n \in MapNode :
    \/ \E page \in DOMAIN Stored : Load(page, n)
    \/ OnlyChanges(n) /\ \E old, new \in Key, value \in Value : Store(n, old, new, value)
    \/ OnlyChanges(n) /\ \E key \in Key : Delete(n, key)
    \/ Spread(n)

KeyMapInit ==
  /\ content = [n \in MapNode |-> {}]
  /\ loaded = {}

KeyMapSpec == KeyMapInit /\ [][KeyMapNext]_<<content, loaded>>
=============================================================================
