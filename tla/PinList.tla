------------------------------ MODULE PinList ------------------------------
(***************************************************************************)
(* The intrusive list behind the queue of turns (src/pin_list.rs): the     *)
(* links live in the elements, and an element records the list it is in.   *)
(*                                                                         *)
(* A list is used through an exclusive reference, so its operations do not *)
(* overlap.  Operations of different lists do: what they share is the      *)
(* owner of an element.  An operation is therefore two steps: claim an     *)
(* element and link it, or unlink an element and release it.               *)
(***************************************************************************)
EXTENDS Integers, FiniteSets, SequencesExt

CONSTANTS
  Lists,
  Elements,
  None       \* no list, no element: 0 and Option::None

ASSUME PinListAssumption ==
  /\ IsFiniteSet(Elements)
  /\ None \notin Lists \cup Elements

VARIABLES
  owner,      \* per element: the list it is in
  links,      \* per element: prev and next
  head, tail, \* per list: the ends
  len,
  refs,       \* per element: strong references that lists hold
  linking,    \* per list: the element push_back claimed and has not linked
  unlinked,   \* per list: the element unlink has not released
  dropped     \* lists that are being dropped

vars == <<owner, links, head, tail, len, refs, linking, unlinked, dropped>>

Links == [prev : Elements \cup {None}, next : Elements \cup {None}]
NoLinks == [prev |-> None, next |-> None]

Init ==
  /\ owner = [e \in Elements |-> None]
  /\ links = [e \in Elements |-> NoLinks]
  /\ head = [l \in Lists |-> None]
  /\ tail = [l \in Lists |-> None]
  /\ len = [l \in Lists |-> 0]
  /\ refs = [e \in Elements |-> 0]
  /\ linking = [l \in Lists |-> None]
  /\ unlinked = [l \in Lists |-> None]
  /\ dropped = {}

idle(l) == linking[l] = None /\ unlinked[l] = None

contains_unowned(l, e) == owner[e] \in {l, None}
contains(l, e) == owner[e] = l

-----------------------------------------------------------------------------
(* push_back.  An element of this list is left where it is, and one of     *)
(* another list is refused with a panic, before anything changed.          *)

push_back(l, e) ==
  /\ idle(l) /\ l \notin dropped
  /\ owner[e] = None
  /\ owner' = [owner EXCEPT ![e] = l]
  /\ linking' = [linking EXCEPT ![l] = e]
  /\ UNCHANGED <<links, head, tail, len, refs, unlinked, dropped>>

link(l, e) ==
  [k \in Elements |->
     IF k = e THEN [prev |-> tail[l], next |-> None]
     ELSE IF k = tail[l] THEN [links[k] EXCEPT !.next = e]
     ELSE links[k]]

push_front_links(l) ==
  LET e == linking[l]
  IN  /\ e # None
      /\ links' = [k \in Elements |->
                     IF k = e THEN [prev |-> None, next |-> head[l]]
                     ELSE IF k = head[l] THEN [links[k] EXCEPT !.prev = e]
                     ELSE links[k]]
      /\ tail' = IF head[l] = None THEN [tail EXCEPT ![l] = e] ELSE tail
      /\ head' = [head EXCEPT ![l] = e]
      /\ len' = [len EXCEPT ![l] = @ + 1]
      /\ refs' = [refs EXCEPT ![e] = @ + 1]
      /\ linking' = [linking EXCEPT ![l] = None]
      /\ UNCHANGED <<owner, unlinked, dropped>>
push_back_links(l) ==
  LET e == linking[l]
  IN  /\ e # None
      /\ links' = link(l, e)
      /\ head' = IF tail[l] = None THEN [head EXCEPT ![l] = e] ELSE head
      /\ tail' = [tail EXCEPT ![l] = e]
      /\ len' = [len EXCEPT ![l] = @ + 1]
      /\ refs' = [refs EXCEPT ![e] = @ + 1]
      /\ linking' = [linking EXCEPT ![l] = None]
      /\ UNCHANGED <<owner, unlinked, dropped>>

-----------------------------------------------------------------------------
(* unlink, and what calls it.                                              *)

unlink_released(l, e) ==
  LET prev == links[e].prev
      next == links[e].next
  IN  /\ links' = [k \in Elements |->
                     IF k = e THEN NoLinks
                     ELSE [prev |-> IF k = next THEN prev ELSE links[k].prev,
                           next |-> IF k = prev THEN next ELSE links[k].next]]
      /\ head' = IF prev = None THEN [head EXCEPT ![l] = next] ELSE head
      /\ tail' = IF next = None THEN [tail EXCEPT ![l] = prev] ELSE tail
      /\ len' = [len EXCEPT ![l] = @ - 1]
      /\ unlinked' = [unlinked EXCEPT ![l] = e]
      /\ owner' = [owner EXCEPT ![e] = None]
      /\ UNCHANGED <<refs, linking, dropped>>
unlink(l, e) ==
  LET prev == links[e].prev
      next == links[e].next
  IN  /\ links' = [k \in Elements |->
                     IF k = e THEN NoLinks
                     ELSE [prev |-> IF k = next THEN prev ELSE links[k].prev,
                           next |-> IF k = prev THEN next ELSE links[k].next]]
      /\ head' = IF prev = None THEN [head EXCEPT ![l] = next] ELSE head
      /\ tail' = IF next = None THEN [tail EXCEPT ![l] = prev] ELSE tail
      /\ len' = [len EXCEPT ![l] = @ - 1]
      /\ unlinked' = [unlinked EXCEPT ![l] = e]
      /\ UNCHANGED <<owner, refs, linking, dropped>>

\* The pointer to unlink is taken from the neighbour, or from the head.
remove(l, e) ==
  /\ idle(l) /\ l \notin dropped
  /\ contains(l, e)
  /\ LET prev == links[e].prev
         ptr  == IF prev = None THEN head[l] ELSE links[prev].next
     IN  ptr # None /\ unlink(l, ptr)

pop_front_last_stays(l) ==
  /\ idle(l)
  /\ len[l] > 1
  /\ unlink(l, head[l])
pop_front(l) ==
  /\ idle(l)
  /\ head[l] # None
  /\ unlink(l, head[l])

\* The owner is reset last, and the reference of the list is given up.
release(l) ==
  LET e == unlinked[l]
  IN  /\ e # None
      /\ owner' = [owner EXCEPT ![e] = None]
      /\ refs' = [refs EXCEPT ![e] = @ - 1]
      /\ unlinked' = [unlinked EXCEPT ![l] = None]
      /\ UNCHANGED <<links, head, tail, len, linking, dropped>>

\* PinList::drop pops until the list is empty.
drop(l) ==
  /\ idle(l) /\ l \notin dropped
  /\ dropped' = dropped \cup {l}
  /\ UNCHANGED <<owner, links, head, tail, len, refs, linking, unlinked>>

Next ==
  \E l \in Lists :
    \/ \E e \in Elements : push_back(l, e) \/ remove(l, e)
    \/ push_back_links(l)
    \/ pop_front(l)
    \/ release(l)
    \/ drop(l)

Spec == Init /\ [][Next]_vars

\* An operation that started finishes, and a list that is dropped is emptied.
Fairness ==
  \A l \in Lists :
    /\ WF_vars(push_back_links(l))
    /\ WF_vars(release(l))
    /\ WF_vars(l \in dropped /\ pop_front(l))

FairSpec == Spec /\ Fairness

-----------------------------------------------------------------------------
(* Properties.                                                             *)

\* Iter: the elements from the head on, along the links.
Walk(l) ==
  LET nth[i \in 1 .. len[l]] ==
        IF i = 1 THEN head[l]
        ELSE IF nth[i - 1] = None THEN None ELSE links[nth[i - 1]].next
  IN  nth

\* The same from the tail back.
WalkBack(l) ==
  LET nth[i \in 1 .. len[l]] ==
        IF i = 1 THEN tail[l]
        ELSE IF nth[i - 1] = None THEN None ELSE links[nth[i - 1]].prev
  IN  nth

Queues == INSTANCE TurnQueue WITH queue <- [l \in Lists |-> Walk(l)]

\* The lists implement independent queues: push_back joins at the back, remove
\* and pop_front take out one element and leave the order of the others, and
\* no step does anything else to any list, whatever the other lists do.
ImplementsQueues == Queues!Spec

\* remove unlinks the element it is given, although it reaches it through the
\* links of its neighbour.
RemovesTheElement ==
  [][\A l \in Lists, e \in Elements : remove(l, e) => unlinked'[l] = e]_vars

\* The links are consistent in both directions, and a list keeps alive
\* exactly the elements that it points to: an element on a list is owned by it
\* and holds one strong reference, and one that is in no list, claimed or
\* about to be released has no links that could dangle.
WellLinked ==
  /\ \A l \in Lists :
       /\ len[l] \in 0 .. Cardinality(Elements)
       /\ Walk(l) = Reverse(WalkBack(l))
       /\ \A i \in 1 .. len[l] :
            Walk(l)[i] # None /\ owner[Walk(l)[i]] = l /\ refs[Walk(l)[i]] = 1
       /\ len[l] = 0 => head[l] = None /\ tail[l] = None
  /\ \A e \in Elements :
       (\A l \in Lists : ~Contains(Walk(l), e)) =>
         links[e] = NoLinks /\ (owner[e] = None => refs[e] = 0)

\* A list that is dropped gives up every element, while other lists work.
DropReleasesAll ==
  \A l \in Lists : l \in dropped ~> \A e \in Elements : owner[e] # l
=============================================================================
