-------------------------- MODULE CollapsedJobSpec --------------------------
(***************************************************************************)
(* How a job's spec and the containers and image it is derived from become *)
(* one spec:                                                               *)
(*   crates/maelstrom-client-process/src/collapsed_job_spec.rs.            *)
(*                                                                         *)
(* A container has a parent and a value for each field that can be         *)
(* inherited, the ContainerUses.  ListUse are the fields that are strung   *)
(* together from all of the ancestors, SingleUse those that the nearest    *)
(* ancestor with a value decides.  A parent is named together with the     *)
(* fields that may be used from it.                                        *)
(*                                                                         *)
(* A definition named D_Slip, just before D, is D with a plausible slip;   *)
(* no behaviour uses it, PROJECT.json lists the property it would break.   *)
(***************************************************************************)
EXTENDS Integers, Sequences, SequencesExt, FiniteSets

CONSTANTS
  ListUse,    \* layers, environment, mounts
  SingleUse,  \* working_directory, network, user, group, ...
  ImageUse,   \* the fields an image has
  Name,       \* the names of containers
  None        \* Option::None

ASSUME UseAssumption ==
  /\ ListUse \cap SingleUse = {} /\ ImageUse \subseteq ListUse \cup SingleUse
  /\ IsFiniteSet(Name)

ContainerUse == ListUse \cup SingleUse

NoParent == [kind |-> "none"]
ParentContainer(k, use) == [kind |-> "container", name |-> k, use |-> use]
ParentImage(i, use) == [kind |-> "image", name |-> i, use |-> use]

\* The fields of F that ancestors may still decide, given the values so far.
Open_All(F, val) == F
Open(F, val) == {u \in F : u \in ListUse \/ val[u] = None}

\* What the loop knows after some of the ancestors.
Beginning(c) ==
  [next |-> c.parent, val |-> c.val, mask |-> Open(ContainerUse, c.val),
   ancestors |-> {}, image |-> None, err |-> FALSE]

\* The values val, and those of the fields mask of a more distant ancestor.
Inherited(val, mask, parent) ==
  [u \in ContainerUse |->
     IF u \notin mask THEN val[u]
     ELSE IF u \in ListUse THEN parent.val[u] \o val[u]
     ELSE parent.val[u]]

\* The image is worth getting only if some field of it is to be used.
AtImage(s) ==
  LET use == s.next.use \cap s.mask \cap ImageUse IN
  [s EXCEPT !.next = NoParent,
            !.image = IF use = {} THEN None ELSE [name |-> s.next.name, use |-> use]]

AtContainer(s, containers) ==
  LET mask == s.mask \cap s.next.use
      name == s.next.name
      val == Inherited(s.val, mask, containers[name])
  IN
  IF mask = {} THEN [s EXCEPT !.next = NoParent]
  ELSE IF containers[name] = None \/ name \in s.ancestors
  THEN [s EXCEPT !.next = NoParent, !.err = TRUE]
  ELSE [s EXCEPT !.next = containers[name].parent, !.val = val,
                 !.mask = Open(mask, val), !.ancestors = @ \cup {name}]

\* One turn of the loop of CollapsedJobSpec::new.
Turn(s, containers) ==
  CASE s.next.kind = "none" -> s
    [] s.next.kind = "image" -> AtImage(s)
    [] s.next.kind = "container" -> AtContainer(s, containers)

\* CollapsedJobSpec::new: a loop meets every name at most once, then an image.
Collapse(c, containers) ==
  LET turns == [n \in 1 .. Cardinality(Name) + 2 |-> n]
      end == FoldLeft(LAMBDA s, n : Turn(s, containers), Beginning(c), turns)
  IN  [err |-> end.err, val |-> end.val, image |-> end.image,
       imageVal |-> [u \in ImageUse |-> IF u \in ListUse THEN <<>> ELSE None]]

\* integrate_image: the fields of the image that are used; None if one of them
\* is not valid.
IntegrateImage(spec, image) ==
  LET use == spec.image.use IN
  IF use \cap image.invalid # {} THEN None
  ELSE [spec EXCEPT !.image = None,
          !.imageVal = [u \in ImageUse |->
             IF u \in use /\ u \in ListUse THEN image.val[u] ELSE @[u]],
          !.val = [u \in ContainerUse |->
             IF u \in use /\ u \in SingleUse THEN image.val[u] ELSE @[u]]]

-----------------------------------------------------------------------------
(***************************************************************************)
(* What a spec should be collapsed to, by the distance of its ancestors.   *)
(***************************************************************************)
\* The ancestor behind c; None if there is none.
ParentOf(c, containers) ==
  IF c = None \/ c.parent.kind # "container" THEN None ELSE containers[c.parent.name]

\* The ancestors by their distance, from the spec itself at 0.
AncestorAt(c, containers) ==
  LET distances == [n \in 1 .. Cardinality(Name) + 1 |-> n]
      line == FoldLeft(LAMBDA s, n : Append(s, ParentOf(Last(s), containers)), <<c>>, distances)
  IN  [n \in 0 .. Cardinality(Name) + 1 |-> line[n + 1]]

\* Up to which distance there are ancestors, before one comes again.
Farthest(at) ==
  LET Fresh(n) ==
        /\ at[n] # None
        /\ \A i, k \in 0 .. n - 1 : i # k => at[i].parent.name # at[k].parent.name
  IN  CHOOSE n \in DOMAIN at :
        /\ \A i \in 0 .. n : Fresh(i)
        /\ n + 1 \in DOMAIN at => ~Fresh(n + 1)

\* Every reference on the way to distance n lets field u through, and no nearer
\* ancestor has decided it.
Sought(at, u, n) ==
  /\ \A i \in 0 .. n - 1 : u \in at[i].parent.use
  /\ u \in SingleUse => \A i \in 0 .. n - 1 : at[i].val[u] = None

Wanted(at, n) == {u \in ContainerUse : Sought(at, u, n)}

\* Each field is the nearest value, or all of them from the most distant on,
\* that the references on the way let through; an ancestor that is missing or
\* comes again is an error, if anything is sought there; and the image is got
\* for the fields that are sought there still.
CollapsedAsDescribed(c, containers) ==
  LET at == AncestorAt(c, containers)
      end == Farthest(at)
      parent == at[end].parent
      got == Collapse(c, containers)
      From(u) == {n \in 0 .. end : Sought(at, u, n)}
      Deciders(u) == {n \in From(u) : at[n].val[u] # None}
      Parts(u) == [i \in 1 .. end + 1 |->
                     IF end + 1 - i \in From(u) THEN at[end + 1 - i].val[u] ELSE <<>>]
      sought == IF parent.kind = "none" THEN {} ELSE Wanted(at, end + 1)
      use == sought \cap ImageUse
  IN
  /\ got.err = (parent.kind = "container" /\ sought # {})
  /\ \A u \in ListUse : got.val[u] = FlattenSeq(Parts(u))
  /\ \A u \in SingleUse :
       IF Deciders(u) = {} THEN got.val[u] = None
       ELSE \E n \in Deciders(u) : got.val[u] = at[n].val[u]
  /\ got.image =
       IF parent.kind # "image" \/ use = {} THEN None
       ELSE [name |-> parent.name, use |-> use]
=============================================================================
