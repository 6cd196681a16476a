---------------------------- MODULE VersionStore ----------------------------
(***************************************************************************)
(* What the prompt registry promises its clients: a (name, version_tag)    *)
(* pair is published at most once, whole, and its content never changes    *)
(* afterwards.  README.md: "Every version is immutable and traceable" and  *)
(* "Atomic Prompt Writes".                                                 *)
(***************************************************************************)
CONSTANTS Keys,       \* the (name, version_tag) pairs
          Creates,    \* create calls; a call stands for the content it carries
          NoContent   \* nothing published under this key

VARIABLE published    \* published[k]: the content clients see under key k

TypeOK == published \in [Keys -> Creates \union {NoContent}]

Init == published = [k \in Keys |-> NoContent]

\* A create call puts its content under a key that has none.
Publish(c, k) ==
    /\ published[k] = NoContent
    /\ published' = [published EXCEPT ![k] = c]

Next == \E c \in Creates, k \in Keys : Publish(c, k)

Spec == Init /\ [][Next]_published
=============================================================================
