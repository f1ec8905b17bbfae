-------------------------- MODULE DependencyGraph --------------------------
(***************************************************************************)
(* What the node storage of lvtldr promises to those who edit a project:   *)
(* packages, components and their dependencies as one graph, with no       *)
(* caches.  NodeStorage implements it.                                     *)
(***************************************************************************)
CONSTANTS Packages, Components, Standalones, NoParent

Entities == Packages \cup Components

VARIABLES rows, home, concrete, allowed
gvars == <<rows, home, concrete, allowed>>

Uses(s, t) == <<s, t>> \in concrete \cup allowed

Init == /\ rows = {}
        /\ home = [e \in Entities |-> NoParent]
        /\ concrete = {} /\ allowed = {}

(***************************************************************************)
(* A package stands alone or in another package, a component in a package. *)
(* An identifier is never given out again while something still names it.  *)
(***************************************************************************)
Add(e, p) ==
  /\ e \notin rows
  /\ \A x \in Entities : ~Uses(e, x) /\ ~Uses(x, e)
  /\ p \in rows \cap Packages \/ (p = NoParent /\ e \in Packages)
  /\ rows' = rows \cup {e}
  /\ home' = [home EXCEPT ![e] = p]
  /\ UNCHANGED <<concrete, allowed>>

(***************************************************************************)
(* Only what is empty goes away, and what nothing depends on.  Allowing    *)
(* somebody to use it is no dependency.                                    *)
(***************************************************************************)
Remove(e) ==
  /\ e \in rows
  /\ \A x \in rows : home[x] # e
  /\ \A x \in Entities : <<x, e>> \notin concrete /\ ~Uses(e, x)
  /\ rows' = rows \ {e}
  /\ home' = [home EXCEPT ![e] = NoParent]
  /\ UNCHANGED <<concrete, allowed>>

(***************************************************************************)
(* Entities of one kind depend on each other.  Two components that are in  *)
(* different packages do so only if the one package uses the other; where  *)
(* package groups or standalone packages take part nothing is promised     *)
(* about them.                                                             *)
(***************************************************************************)
Related(s, t) ==
  LET p == home[s]
      q == home[t]
  IN  p = q \/ Uses(p, q) \/ home[p] = NoParent \/ home[q] = NoParent \/ q \in Standalones

SameLevel(s, t) ==
  \/ {s, t} \subseteq Packages /\ (home[s] = NoParent <=> home[t] = NoParent)
  \/ {s, t} \subseteq Packages /\ home[s] = NoParent /\ t \in Standalones
  \/ {s, t} \subseteq Components /\ Related(s, t)

Connect(s, t) ==
  /\ {s, t} \subseteq rows /\ s # t /\ SameLevel(s, t)
  /\ concrete' = concrete \cup {<<s, t>>}
  /\ UNCHANGED <<rows, home, allowed>>

Allow(s, t) ==
  /\ {s, t} \subseteq rows \cap Packages /\ s # t /\ SameLevel(s, t)
  /\ allowed' = allowed \cup {<<s, t>>}
  /\ UNCHANGED <<rows, home, concrete>>

Disconnect(s, t) ==
  /\ concrete' = concrete \ {<<s, t>>}
  /\ UNCHANGED <<rows, home, allowed>>

Disallow(s, t) ==
  /\ allowed' = allowed \ {<<s, t>>}
  /\ UNCHANGED <<rows, home, concrete>>

Move(c, p) ==
  /\ c \in rows \cap Components /\ p \in rows \cap Packages
  /\ home' = [home EXCEPT ![c] = p]
  /\ UNCHANGED <<rows, concrete, allowed>>

Next ==
  \/ \E s, t \in rows : Connect(s, t) \/ Allow(s, t) \/ Disconnect(s, t) \/ Disallow(s, t)
  \/ \E e \in rows : Remove(e)
  \/ \E e \in Entities \ rows : \E p \in rows \cup {NoParent} : Add(e, p)
  \/ \E c \in Components, p \in Packages : Move(c, p)

Spec == Init /\ [][Next]_gvars
=============================================================================
