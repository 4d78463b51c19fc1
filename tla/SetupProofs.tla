---------------------------- MODULE SetupProofs ----------------------------
(***************************************************************************)
(* Proofs about Setup for every set of configurations, tree of paths and   *)
(* file systems.                                                           *)
(*                                                                         *)
(* 1. Prefixes of paths.                                                   *)
(* 2. What the kernel's operations do to a mount state; Good is their      *)
(*    invariant: what exists has its parents, and ids are fresh.           *)
(* 3. The namespaces: NsInv.  mnt is the last kind that JoinOrder has.     *)
(* 4. The identity: CredInv says at every step which privileges are left   *)
(*    and which credentials are final.                                     *)
(* 5. The mounts: MntInv, that nothing shows on the host, and HardInv,     *)
(*    what is masked or read-only so far.  No later step undoes it.        *)
(* 6. That nothing fails: FitInv, of a sensible configuration, says that   *)
(*    what a later step needs is there.                                    *)
(* 7. The overlay: induction over sequences, of which only a set version   *)
(*    can be applied; what reading a text character by character amounts   *)
(*    to, and so that Split undoes Escape; that a path's text is read      *)
(*    back, absolute or below a directory; the fields of the options.      *)
(***************************************************************************)
EXTENDS Setup, SequenceTheorems, FiniteSetTheorems, WellFoundedInduction, TLAPS

-----------------------------------------------------------------------------
(* Prefixes.                                                               *)

LEMMA Cut ==
  ASSUME NEW p \in Seq(STRING), NEW n \in 0 .. Len(p)
  PROVE  /\ SubSeq(p, 1, n) \in Seq(STRING) /\ Len(SubSeq(p, 1, n)) = n
         /\ \A i \in 1 .. n : SubSeq(p, 1, n)[i] = p[i]
<1>1. Len(p) \in Nat /\ \A i \in 1 .. n : p[i] \in STRING
  BY ElementOfSeq, LenProperties
<1> QED
  BY <1>1, SubSeqProperties

LEMMA PrefixMeans ==
  ASSUME NEW p \in Seq(STRING), NEW q \in Seq(STRING)
  PROVE  IsPrefix(p, q) <=> Len(p) <= Len(q) /\ \A i \in 1 .. Len(p) : p[i] = q[i]
<1>1. Len(p) \in Nat /\ Len(q) \in Nat
  BY LenProperties
<1>2. CASE ~(Len(p) <= Len(q))
  BY <1>2 DEF IsPrefix
<1>3. CASE Len(p) <= Len(q)
  <2>1. /\ SubSeq(p, 1, Len(p)) \in Seq(STRING) /\ Len(SubSeq(p, 1, Len(p))) = Len(p)
        /\ \A i \in 1 .. Len(p) : SubSeq(p, 1, Len(p))[i] = p[i]
    BY <1>1, Cut
  <2>2. /\ SubSeq(q, 1, Len(p)) \in Seq(STRING) /\ Len(SubSeq(q, 1, Len(p))) = Len(p)
        /\ \A i \in 1 .. Len(p) : SubSeq(q, 1, Len(p))[i] = q[i]
    BY <1>1, <1>3, Cut
  <2>3. SubSeq(p, 1, Len(p)) = SubSeq(q, 1, Len(p)) <=> \A i \in 1 .. Len(p) : p[i] = q[i]
    BY <2>1, <2>2, SeqEqual
  <2> QED
    BY <1>3, <2>3 DEF IsPrefix
<1> QED
  BY <1>2, <1>3

LEMMA Reflexive == ASSUME NEW p \in Seq(STRING) PROVE IsPrefix(p, p)
BY PrefixMeans, LenProperties

LEMMA Transitive ==
  ASSUME NEW p \in Seq(STRING), NEW q \in Seq(STRING), NEW r \in Seq(STRING), IsPrefix(p, q), IsPrefix(q, r)
  PROVE  IsPrefix(p, r)
<1>1. Len(p) \in Nat /\ Len(q) \in Nat /\ Len(r) \in Nat
  BY LenProperties
<1>2. Len(p) <= Len(q) /\ Len(q) <= Len(r) /\ (\A i \in 1 .. Len(p) : p[i] = q[i]) /\ \A i \in 1 .. Len(q) : q[i] = r[i]
  BY PrefixMeans
<1>3. \A i \in 1 .. Len(p) : p[i] = r[i]
  BY <1>1, <1>2
<1> QED
  BY <1>1, <1>2, <1>3, PrefixMeans

LEMMA Antisymmetric ==
  ASSUME NEW p \in Seq(STRING), NEW q \in Seq(STRING), IsPrefix(p, q), IsPrefix(q, p)
  PROVE  p = q
<1>1. Len(p) \in Nat /\ Len(q) \in Nat
  BY LenProperties
<1>2. Len(p) <= Len(q) /\ Len(q) <= Len(p) /\ \A i \in 1 .. Len(p) : p[i] = q[i]
  BY PrefixMeans
<1>3. Len(p) = Len(q)
  BY <1>1, <1>2
<1> QED
  BY <1>2, <1>3, SeqEqual

(* Of two prefixes of a path one is a prefix of the other.                 *)
LEMMA Linear ==
  ASSUME NEW p \in Seq(STRING), NEW q \in Seq(STRING), NEW r \in Seq(STRING), IsPrefix(p, r), IsPrefix(q, r)
  PROVE  IsPrefix(p, q) \/ IsPrefix(q, p)
<1>1. Len(p) \in Nat /\ Len(q) \in Nat /\ Len(r) \in Nat
  BY LenProperties
<1>2. (\A i \in 1 .. Len(p) : p[i] = r[i]) /\ \A i \in 1 .. Len(q) : q[i] = r[i]
  BY PrefixMeans
<1>3. CASE Len(p) <= Len(q)
  BY <1>1, <1>2, <1>3, PrefixMeans
<1>4. CASE Len(q) <= Len(p)
  BY <1>1, <1>2, <1>4, PrefixMeans
<1> QED
  BY <1>1, <1>3, <1>4

LEMMA FrontOf ==
  ASSUME NEW p \in Paths \ {<<>>}
  PROVE  /\ Front(p) \in Paths /\ IsPrefix(Front(p), p) /\ Front(p) # p
         /\ \A q \in Paths : IsPrefix(q, p) /\ q # p => IsPrefix(q, Front(p))
<1>1. p \in Seq(STRING) /\ Front(p) \in Paths /\ Front(p) \in Seq(STRING)
  BY PathsAssumption
<1>2. Len(p) \in Nat \ {0}
  BY <1>1, EmptySeq
<1>3. Len(Front(p)) = Len(p) - 1 /\ \A i \in 1 .. Len(p) - 1 : Front(p)[i] = p[i]
  <2>1. Len(p) - 1 \in 0 .. Len(p)
    BY <1>2
  <2> QED
    BY <1>1, <2>1, Cut DEF Front
<1>4. IsPrefix(Front(p), p) /\ Front(p) # p
  BY <1>1, <1>2, <1>3, PrefixMeans
<1>5. ASSUME NEW q \in Paths, IsPrefix(q, p), q # p PROVE IsPrefix(q, Front(p))
  <2>1. q \in Seq(STRING) /\ Len(q) \in Nat /\ Len(q) <= Len(p) /\ \A i \in 1 .. Len(q) : q[i] = p[i]
    BY <1>1, <1>5, PrefixMeans, LenProperties, PathsAssumption
  <2>2. Len(q) # Len(p)
    BY <1>1, <1>5, <2>1, SeqEqual
  <2> QED
    BY <1>1, <1>2, <1>3, <2>1, <2>2, PrefixMeans
<1> QED
  BY <1>1, <1>4, <1>5

LEMMA Deeper ==
  ASSUME NEW q \in Seq(STRING), NEW r \in Seq(STRING)
  PROVE  /\ IsPrefix(q, q \o r)
         /\ \A p \in Seq(STRING) : IsPrefix(p, q \o r) =>
              IsPrefix(p, q) \/ \E n \in 1 .. Len(r) : p = q \o SubSeq(r, 1, n)
<1>1. /\ q \o r \in Seq(STRING) /\ Len(q) \in Nat /\ Len(r) \in Nat /\ Len(q \o r) = Len(q) + Len(r)
      /\ \A i \in 1 .. Len(q) + Len(r) : (q \o r)[i] = IF i <= Len(q) THEN q[i] ELSE r[i - Len(q)]
  BY ConcatProperties, LenProperties
<1>2. IsPrefix(q, q \o r)
  <2>1. Len(q) <= Len(q \o r) /\ \A i \in 1 .. Len(q) : q[i] = (q \o r)[i]
    BY <1>1
  <2> QED
    BY <1>1, <2>1, PrefixMeans
<1>3. ASSUME NEW p \in Seq(STRING), IsPrefix(p, q \o r), ~IsPrefix(p, q)
      PROVE  \E n \in 1 .. Len(r) : p = q \o SubSeq(r, 1, n)
  <2>1. Len(p) \in Nat /\ Len(p) <= Len(q) + Len(r) /\ \A i \in 1 .. Len(p) : p[i] = (q \o r)[i]
    BY <1>1, <1>3, PrefixMeans, LenProperties
  <2>2. Len(q) < Len(p)
    BY <1>1, <1>3, <2>1, PrefixMeans
  <2> DEFINE n == Len(p) - Len(q)
  <2>3. n \in 1 .. Len(r)
    BY <1>1, <2>1, <2>2
  <2>4. SubSeq(r, 1, n) \in Seq(STRING) /\ Len(SubSeq(r, 1, n)) = n /\ \A i \in 1 .. n : SubSeq(r, 1, n)[i] = r[i]
    BY <1>1, <2>3, Cut
  <2>5. /\ q \o SubSeq(r, 1, n) \in Seq(STRING) /\ Len(q \o SubSeq(r, 1, n)) = Len(p)
        /\ \A i \in 1 .. Len(p) : (q \o SubSeq(r, 1, n))[i] = IF i <= Len(q) THEN q[i] ELSE SubSeq(r, 1, n)[i - Len(q)]
    BY <1>1, <2>1, <2>3, <2>4, ConcatProperties
  <2>6. \A i \in 1 .. Len(p) : p[i] = (q \o SubSeq(r, 1, n))[i]
    BY <1>1, <2>1, <2>3, <2>4, <2>5
  <2> QED
    BY <2>3, <2>5, <2>6, SeqEqual
<1> QED
  BY <1>2, <1>3

-----------------------------------------------------------------------------
(* Mount states.                                                           *)

Views == [id : Seq(Nat), fs : Systems, ro : BOOLEAN, unbindable : BOOLEAN]

MountStates ==
  [view : [Paths -> Views], exists : SUBSET Paths, next : Nat, private : BOOLEAN,
   root : {"none", "mounted", "pivoted"}, propagated : BOOLEAN, devicesOwned : BOOLEAN]

Closed(s) ==
  <<>> \in s.exists /\ \A p \in s.exists, q \in Paths : IsPrefix(q, p) => q \in s.exists

Fresh(s) == \A p \in Paths : \A i \in 1 .. Len(s.view[p].id) : s.view[p].id[i] < s.next

Good(s) == s \in MountStates /\ Closed(s) /\ Fresh(s)

(* What none of the operations on single mounts changes.                   *)
Steady(s, t) ==
  /\ t.private = s.private /\ t.root = s.root /\ t.devicesOwned = s.devicesOwned
  /\ t.propagated => s.propagated \/ ~s.private

LEMMA PathsAre ==
  ASSUME NEW p \in Paths
  PROVE  p \in Seq(STRING) /\ IsPrefix(p, p) /\ IsPrefix(<<>>, p)
<1>1. p \in Seq(STRING) /\ <<>> \in Seq(STRING) /\ Len(<<>>) = 0 /\ Len(p) \in Nat
  BY PathsAssumption, EmptySeq, LenProperties
<1>2. Len(<<>>) <= Len(p) /\ \A i \in 1 .. Len(<<>>) : <<>>[i] = p[i]
  BY <1>1
<1> QED
  BY <1>1, <1>2, PrefixMeans, Reflexive

(* The names of the kernel's file system in a mount.                       *)
Made(s, fs, ro) == [id |-> <<s.next>>, fs |-> fs, ro |-> ro, unbindable |-> FALSE]

LEMMA Attached ==
  ASSUME NEW s, Good(s), NEW q \in Paths, NEW fs \in Systems, NEW ro \in BOOLEAN, NEW t \in Attach(s, q, fs, ro)
  PROVE  /\ q \in s.exists /\ Steady(s, t) /\ t.next = s.next + 1
         /\ \A p \in Paths : t.view[p] = IF IsPrefix(q, p) THEN Made(s, fs, ro) ELSE s.view[p]
         /\ t.exists = (s.exists \ Under(q)) \cup {q} \cup ({q \o r : r \in Provides[fs]} \cap Paths)
         /\ t \in MountStates
<1>1. s \in MountStates
  BY DEF Good
<1>2. q \in s.exists /\ fs # "cgroup"
  BY DEF Attach
<1>3. t = [s EXCEPT !.view = [p \in Paths |-> IF p \in Under(q) THEN Made(s, fs, ro) ELSE @[p]],
                    !.exists = (@ \ Under(q)) \cup {q} \cup ({q \o r : r \in Provides[fs]} \cap Paths),
                    !.next = @ + 1, !.propagated = Propagates(s)]
  BY <1>2 DEF Attach, Made
<1> DEFINE view == [p \in Paths |-> IF p \in Under(q) THEN Made(s, fs, ro) ELSE s.view[p]]
           exists == (s.exists \ Under(q)) \cup {q} \cup ({q \o r : r \in Provides[fs]} \cap Paths)
<1>4. t = [s EXCEPT !.view = view, !.exists = exists, !.next = s.next + 1, !.propagated = Propagates(s)]
  BY <1>1, <1>3 DEF MountStates
<1>5. s.next \in Nat /\ <<s.next>> \in Seq(Nat)
  BY <1>1 DEF MountStates
<1>6. Made(s, fs, ro) \in Views
  BY <1>5 DEF Views, Made
<1>7. view \in [Paths -> Views]
  BY <1>1, <1>6 DEF MountStates
<1>8. exists \subseteq Paths
  BY <1>1 DEF MountStates
<1>9. Propagates(s) \in BOOLEAN /\ s.next + 1 \in Nat
  BY <1>1, <1>5 DEF Propagates, MountStates
<1>10. \A p \in Paths : view[p] = IF IsPrefix(q, p) THEN Made(s, fs, ro) ELSE s.view[p]
  BY DEF Under
<1> HIDE DEF view, exists
<1>11. t.view = view /\ t.exists = exists /\ t.next = s.next + 1 /\ t.propagated = Propagates(s)
  BY <1>1, <1>4 DEF MountStates
<1>12. t.private = s.private /\ t.root = s.root /\ t.devicesOwned = s.devicesOwned
  BY <1>1, <1>4 DEF MountStates
<1>13. t \in MountStates
  BY <1>1, <1>4, <1>7, <1>8, <1>9 DEF MountStates
<1>14. Steady(s, t)
  BY <1>11, <1>12 DEF Steady, Propagates
<1> QED
  BY <1>2, <1>10, <1>11, <1>13, <1>14 DEF exists

(* Made or bound, a mount keeps what exists closed and the ids fresh.      *)
LEMMA AttachGood ==
  ASSUME NEW s, Good(s), NEW q \in Paths, NEW fs \in Systems, NEW ro \in BOOLEAN, NEW t \in Attach(s, q, fs, ro)
  PROVE  Good(t)
<1>1. /\ q \in s.exists /\ t.next = s.next + 1
      /\ \A p \in Paths : t.view[p] = IF IsPrefix(q, p) THEN Made(s, fs, ro) ELSE s.view[p]
      /\ t.exists = (s.exists \ Under(q)) \cup {q} \cup ({q \o r : r \in Provides[fs]} \cap Paths)
      /\ t \in MountStates
  BY Attached
<1>2. s.next \in Nat /\ s.exists \subseteq Paths
  BY DEF Good, MountStates
<1>3. Fresh(t)
  <2> SUFFICES ASSUME NEW p \in Paths, NEW i \in 1 .. Len(t.view[p].id) PROVE t.view[p].id[i] < t.next
    BY DEF Fresh
  <2>1. CASE IsPrefix(q, p)
    <3>1. t.view[p].id = <<s.next>>
      BY <1>1, <2>1 DEF Made
    <3> QED
      BY <1>1, <1>2, <3>1
  <2>2. CASE ~IsPrefix(q, p)
    <3>1. t.view[p] = s.view[p]
      BY <1>1, <2>2
    <3>2. s.view[p].id \in Seq(Nat)
      BY DEF Good, MountStates, Views
    <3>3. s.view[p].id[i] < s.next /\ s.view[p].id[i] \in Nat
      BY <3>1, <3>2, ElementOfSeq DEF Good, Fresh
    <3> QED
      BY <1>1, <1>2, <3>1, <3>3
  <2> QED
    BY <2>1, <2>2
<1>4. ASSUME NEW p \in Paths, IsPrefix(p, q) PROVE p \in t.exists
  <2>1. p \in s.exists
    BY <1>1, <1>4 DEF Good, Closed
  <2>2. IsPrefix(q, p) => p = q
    BY <1>4, PathsAre, Antisymmetric
  <2> QED
    BY <1>1, <2>1, <2>2 DEF Under
<1>5. ASSUME NEW p \in t.exists, NEW r \in Paths, IsPrefix(r, p) PROVE r \in t.exists
  <2>1. p \in Paths /\ p \in Seq(STRING) /\ r \in Seq(STRING) /\ q \in Seq(STRING)
    BY <1>1, PathsAre DEF MountStates
  <2>2. CASE IsPrefix(r, q)
    BY <1>4, <2>2
  <2>3. CASE p \in s.exists \ Under(q)
    <3>1. r \in s.exists
      BY <1>5, <2>3 DEF Good, Closed
    <3>2. ~IsPrefix(q, r)
      BY <1>5, <2>1, <2>3, Transitive DEF Under
    <3> QED
      BY <1>1, <3>1, <3>2 DEF Under
  <2>4. CASE p \in {q \o x : x \in Provides[fs]} /\ ~IsPrefix(r, q)
    <3>1. PICK x \in Provides[fs] : p = q \o x
      BY <2>4
    <3>2. x \in Seq(STRING) /\ \A n \in 1 .. Len(x) : SubSeq(x, 1, n) \in Provides[fs]
      BY ProvidesAssumption
    <3>3. PICK n \in 1 .. Len(x) : r = q \o SubSeq(x, 1, n)
      BY <1>5, <2>1, <2>4, <3>1, <3>2, Deeper
    <3> QED
      BY <1>1, <3>2, <3>3
  <2> QED
    BY <1>1, <1>5, <2>2, <2>3, <2>4
<1>6. <<>> \in t.exists
  BY <1>4, PathsAre, PathsAssumption
<1> QED
  BY <1>1, <1>3, <1>5, <1>6 DEF Good, Closed

LEMMA MakeGood ==
  ASSUME NEW s, Good(s), NEW q \in Paths, NEW t \in Make(s, q)
  PROVE  /\ Good(t) /\ t = [s EXCEPT !.exists = t.exists]
         /\ t.exists = s.exists \cup {p \in Paths : IsPrefix(p, q)} /\ q \in t.exists
<1>1. s \in MountStates /\ Closed(s) /\ IsPrefix(q, q)
  BY PathsAre DEF Good
<1>2. s.exists \subseteq Paths
  BY <1>1 DEF MountStates
<1>3. t = [s EXCEPT !.exists = s.exists \cup {p \in Paths : IsPrefix(p, q)}]
  <2>1. CASE q \in s.exists
    <3>1. {p \in Paths : IsPrefix(p, q)} \subseteq s.exists
      BY <1>1, <2>1 DEF Closed
    <3>2. s.exists \cup {p \in Paths : IsPrefix(p, q)} = s.exists
      BY <3>1
    <3>3. t = s
      BY <2>1 DEF Make
    <3> QED
      BY <1>1, <3>2, <3>3 DEF MountStates
  <2>2. CASE q \notin s.exists
    <3> DEFINE missing == {p \in Paths : IsPrefix(p, q)} \ s.exists
    <3>1. t = [s EXCEPT !.exists = s.exists \cup missing]
      BY <1>1, <2>2 DEF Make, MountStates
    <3>2. s.exists \cup missing = s.exists \cup {p \in Paths : IsPrefix(p, q)}
      OBVIOUS
    <3> QED
      BY <3>1, <3>2
  <2> QED
    BY <2>1, <2>2
<1> DEFINE exists == s.exists \cup {p \in Paths : IsPrefix(p, q)}
<1>4. exists \subseteq Paths /\ q \in exists /\ <<>> \in exists
  BY <1>1, <1>2 DEF Closed
<1>5. ASSUME NEW p \in exists, NEW r \in Paths, IsPrefix(r, p) PROVE r \in exists
  <2>1. CASE p \in s.exists
    BY <1>1, <1>5, <2>1 DEF Closed
  <2>2. CASE IsPrefix(p, q) /\ p \in Paths
    <3>1. IsPrefix(r, q)
      BY <1>5, <2>2, PathsAre, Transitive
    <3> QED
      BY <3>1
  <2> QED
    BY <2>1, <2>2
<1> HIDE DEF exists
<1>6. t = [s EXCEPT !.exists = exists]
  BY <1>3 DEF exists
<1>7. t.exists = exists /\ t.view = s.view /\ t.next = s.next /\ t \in MountStates
  BY <1>1, <1>4, <1>6 DEF MountStates
<1>8. Good(t)
  BY <1>4, <1>5, <1>7 DEF Good, Closed, Fresh
<1> QED
  BY <1>4, <1>6, <1>7, <1>8 DEF exists

(* It is possible where nothing that is missing would be in a mount that   *)
(* is read-only.                                                           *)
LEMMA MakePossible ==
  ASSUME NEW s, NEW q \in Paths,
         \A p \in Paths : IsPrefix(p, q) /\ p \notin s.exists => ~s.view[p].ro
  PROVE  Make(s, q) # {}
BY DEF Make

LEMMA BindGood ==
  ASSUME NEW s, Good(s), NEW q \in Paths, NEW t \in BindSelf(s, q)
  PROVE  /\ Good(t) /\ Steady(s, t) /\ t.exists = s.exists
         /\ \A p \in Paths : /\ t.view[p].fs = s.view[p].fs /\ t.view[p].ro = s.view[p].ro
                             /\ t.view[p].unbindable = s.view[p].unbindable
                             /\ t.view[p].id = IF IsPrefix(q, p) THEN Append(s.view[p].id, s.next)
                                               ELSE s.view[p].id
<1>1. s \in MountStates /\ s.next \in Nat
  BY DEF Good, MountStates
<1> DEFINE view == [p \in Paths |-> IF p \in Under(q) THEN [s.view[p] EXCEPT !.id = Append(@, s.next)]
                                    ELSE s.view[p]]
<1>2. t = [s EXCEPT !.view = view, !.next = s.next + 1]
  <2>1. t = [s EXCEPT !.view = [p \in Paths |-> IF p \in Under(q) THEN [s.view[p] EXCEPT !.id = Append(@, s.next)]
                                                ELSE s.view[p]],
                      !.next = @ + 1]
    BY DEF BindSelf
  <2> QED
    BY <1>1, <2>1 DEF MountStates
<1>3. ASSUME NEW p \in Paths
      PROVE  /\ view[p] \in Views
             /\ view[p].fs = s.view[p].fs /\ view[p].ro = s.view[p].ro
             /\ view[p].unbindable = s.view[p].unbindable
             /\ view[p].id = IF IsPrefix(q, p) THEN Append(s.view[p].id, s.next) ELSE s.view[p].id
  <2>1. s.view[p] \in Views /\ s.view[p].id \in Seq(Nat)
    BY <1>1 DEF MountStates, Views
  <2>2. Append(s.view[p].id, s.next) \in Seq(Nat)
    BY <1>1, <2>1, AppendProperties
  <2>3. view[p] = IF IsPrefix(q, p) THEN [s.view[p] EXCEPT !.id = Append(s.view[p].id, s.next)] ELSE s.view[p]
    BY <2>1 DEF Under, Views
  <2> QED
    BY <2>1, <2>2, <2>3 DEF Views
<1>4. view \in [Paths -> Views]
  BY <1>3
<1> HIDE DEF view
<1>5. /\ t \in MountStates /\ t.view = view /\ t.next = s.next + 1 /\ t.exists = s.exists
      /\ t.private = s.private /\ t.root = s.root /\ t.devicesOwned = s.devicesOwned
      /\ t.propagated = s.propagated
  <2>1. t.view = view /\ t.next = s.next + 1
    BY <1>1, <1>2 DEF MountStates
  <2>2. /\ t.exists = s.exists /\ t.private = s.private /\ t.root = s.root
        /\ t.devicesOwned = s.devicesOwned /\ t.propagated = s.propagated
    BY <1>1, <1>2 DEF MountStates
  <2>3. s.next + 1 \in Nat
    BY <1>1
  <2>4. t \in MountStates
    BY <1>1, <1>2, <1>4, <2>3 DEF MountStates
  <2> QED
    BY <2>1, <2>2, <2>4
<1>6. Fresh(t)
  <2> SUFFICES ASSUME NEW p \in Paths, NEW i \in 1 .. Len(t.view[p].id) PROVE t.view[p].id[i] < t.next
    BY DEF Fresh
  <2>1. s.view[p].id \in Seq(Nat) /\ Len(s.view[p].id) \in Nat
    BY <1>1, LenProperties DEF MountStates, Views
  <2>2. \A j \in 1 .. Len(s.view[p].id) : s.view[p].id[j] \in Nat /\ s.view[p].id[j] < s.next
    BY <2>1, ElementOfSeq DEF Good, Fresh
  <2>3. CASE ~IsPrefix(q, p)
    BY <1>1, <1>3, <1>5, <2>2, <2>3
  <2>4. CASE IsPrefix(q, p)
    <3>1. t.view[p].id = Append(s.view[p].id, s.next)
      BY <1>3, <1>5, <2>4
    <3>2. /\ Len(Append(s.view[p].id, s.next)) = Len(s.view[p].id) + 1
          /\ \A j \in 1 .. Len(s.view[p].id) : Append(s.view[p].id, s.next)[j] = s.view[p].id[j]
          /\ Append(s.view[p].id, s.next)[Len(s.view[p].id) + 1] = s.next
      BY <1>1, <2>1, AppendProperties
    <3>3. i \in 1 .. Len(s.view[p].id) \/ i = Len(s.view[p].id) + 1
      BY <2>1, <3>1, <3>2
    <3> QED
      BY <1>1, <1>5, <2>2, <3>1, <3>2, <3>3
  <2> QED
    BY <2>3, <2>4
<1> QED
  BY <1>3, <1>5, <1>6 DEF Good, Closed, Steady

LEMMA RemountGood ==
  ASSUME NEW s, Good(s), NEW q \in Paths, NEW t \in RemountReadonly(s, q)
  PROVE  /\ Good(t) /\ Steady(s, t) /\ t.exists = s.exists
         /\ \A p \in Paths : /\ t.view[p].fs = s.view[p].fs /\ t.view[p].id = s.view[p].id
                             /\ t.view[p].unbindable = s.view[p].unbindable
                             /\ t.view[p].ro = (s.view[p].ro \/ s.view[p].id = s.view[q].id)
<1>1. s \in MountStates
  BY DEF Good
<1> DEFINE view == [p \in Paths |-> [s.view[p] EXCEPT !.ro = @ \/ s.view[p].id = s.view[q].id]]
<1>2. t = [s EXCEPT !.view = view]
  <2>1. t = [s EXCEPT !.view = [p \in Paths |-> [s.view[p] EXCEPT !.ro = @ \/ s.view[p].id = s.view[q].id]]]
    BY DEF RemountReadonly
  <2> QED
    BY <1>1, <2>1 DEF MountStates
<1>3. ASSUME NEW p \in Paths
      PROVE  /\ view[p] \in Views
             /\ view[p].fs = s.view[p].fs /\ view[p].id = s.view[p].id
             /\ view[p].unbindable = s.view[p].unbindable
             /\ view[p].ro = (s.view[p].ro \/ s.view[p].id = s.view[q].id)
  <2>1. s.view[p] \in Views
    BY <1>1 DEF MountStates
  <2>2. view[p] = [s.view[p] EXCEPT !.ro = s.view[p].ro \/ s.view[p].id = s.view[q].id]
    BY <2>1 DEF Views
  <2>3. (s.view[p].ro \/ s.view[p].id = s.view[q].id) \in BOOLEAN
    OBVIOUS
  <2> QED
    BY <2>1, <2>2, <2>3 DEF Views
<1>4. view \in [Paths -> Views]
  BY <1>3
<1> HIDE DEF view
<1>5. /\ t \in MountStates /\ t.view = view /\ t.next = s.next /\ t.exists = s.exists
      /\ t.private = s.private /\ t.root = s.root /\ t.devicesOwned = s.devicesOwned
      /\ t.propagated = s.propagated
  BY <1>1, <1>2, <1>4 DEF MountStates
<1>6. Fresh(t)
  BY <1>3, <1>5 DEF Good, Fresh
<1> QED
  BY <1>3, <1>5, <1>6 DEF Good, Closed, Steady

-----------------------------------------------------------------------------
(* The bodies of the loops, and the single operations.                     *)

HostMounted == \E i \in 1 .. Len(config.mounts) : config.mounts[i].fs = "host"

(* Where the nodes of the host can be seen.                                *)
Origin(s) ==
  \A p \in Paths : /\ s.view[p].fs = "device" => Bound
                   /\ s.view[p].fs = "host" => HostMounted

LEMMA SteadyTwice ==
  ASSUME NEW s, NEW t, NEW u, Steady(s, t), Steady(t, u)
  PROVE  Steady(s, u)
BY DEF Steady

LEMMA MakeSteady ==
  ASSUME NEW s, Good(s), NEW q \in Paths, NEW t \in Make(s, q)
  PROVE  /\ Good(t) /\ Steady(s, t) /\ t.view = s.view /\ t.next = s.next
         /\ t.exists = s.exists \cup {p \in Paths : IsPrefix(p, q)} /\ q \in t.exists
<1>1. s \in MountStates /\ t = [s EXCEPT !.exists = t.exists]
  BY MakeGood DEF Good
<1>2. /\ t.view = s.view /\ t.next = s.next /\ t.private = s.private /\ t.root = s.root
      /\ t.propagated = s.propagated /\ t.devicesOwned = s.devicesOwned
  BY <1>1 DEF MountStates
<1> QED
  BY <1>2, MakeGood DEF Steady

(* The file system of an entry of mounts.                                  *)
LEMMA Entry ==
  ASSUME config \in Configs, NEW i \in 1 .. Len(config.mounts)
  PROVE  /\ Destination(i) \in Paths
         /\ config.mounts[i].fs \in (Systems \cup {"cgroup"}) \ {"device", "masked"}
         /\ EffectiveFstype(config.mounts[i].fs) \in Systems \ {"device", "masked"}
         /\ EffectiveFstype(config.mounts[i].fs) = "host" => config.mounts[i].fs = "host"
<1>1. /\ Destination(i) \in Paths
      /\ config.mounts[i].fs \in (Systems \cup {"cgroup"}) \ {"device", "masked"}
  BY ConfigsAssumption DEF Destination
<1> QED
  BY <1>1, ProvidesAssumption DEF EffectiveFstype

LEMMA NamedPaths ==
  /\ {<<>>, <<"proc", "sys">>, <<"dev">>, <<"dev", "null">>, <<"dev", "ptmx">>, <<"dev", "console">>} \subseteq Paths
  /\ \A p \in Paths : IsPrefix(p, <<"dev", "ptmx">>) => p = <<"dev", "ptmx">> \/ IsPrefix(p, <<"dev">>)
<1>1. {<<>>, <<"proc", "sys">>, <<"dev">>, <<"dev", "null">>, <<"dev", "ptmx">>, <<"dev", "console">>} \subseteq Paths
  BY PathsAssumption
<1>2. ASSUME NEW p \in Paths, IsPrefix(p, <<"dev", "ptmx">>), p # <<"dev", "ptmx">>
      PROVE  IsPrefix(p, <<"dev">>)
  <2>1. p \in Seq(STRING) /\ <<"dev">> \in Seq(STRING) /\ <<"dev", "ptmx">> \in Seq(STRING)
    BY <1>1, PathsAre
  <2>2. Len(p) \in Nat /\ Len(p) <= 2 /\ \A j \in 1 .. Len(p) : p[j] = <<"dev", "ptmx">>[j]
    BY <1>2, <2>1, PrefixMeans, LenProperties
  <2>3. Len(p) # 2
    <3>1. Len(p) = 2 => p = <<"dev", "ptmx">>
      BY <2>1, <2>2, SeqEqual
    <3> QED
      BY <1>2, <3>1
  <2>4. Len(p) <= Len(<<"dev">>) /\ \A j \in 1 .. Len(p) : p[j] = <<"dev">>[j]
    BY <2>2, <2>3
  <2> QED
    BY <2>1, <2>4, PrefixMeans
<1> QED
  BY <1>1, <1>2

LEMMA LinkGood ==
  ASSUME NEW s, Good(s), NEW t \in LinkPtmx(s)
  PROVE  /\ Good(t) /\ Steady(s, t) /\ t.view = s.view /\ t.next = s.next
         /\ t.exists = s.exists \cup {<<"dev", "ptmx">>}
<1>1. <<"dev">> \in s.exists /\ t = [s EXCEPT !.exists = @ \cup {<<"dev", "ptmx">>}]
  BY DEF LinkPtmx
<1>2. s \in MountStates
  BY DEF Good
<1>3. /\ t.view = s.view /\ t.next = s.next /\ t.private = s.private /\ t.root = s.root
      /\ t.propagated = s.propagated /\ t.devicesOwned = s.devicesOwned
      /\ t.exists = s.exists \cup {<<"dev", "ptmx">>}
  BY <1>1, <1>2 DEF MountStates
<1>4. <<"dev", "ptmx">> \in Paths
  BY NamedPaths
<1>5. t \in MountStates
  BY <1>1, <1>2, <1>4 DEF MountStates
<1>6. ASSUME NEW p \in t.exists, NEW q \in Paths, IsPrefix(q, p) PROVE q \in t.exists
  <2>1. CASE p \in s.exists
    BY <1>3, <1>6, <2>1 DEF Good, Closed
  <2>2. CASE p = <<"dev", "ptmx">>
    BY <1>1, <1>3, <1>6, <2>2, NamedPaths DEF Good, Closed
  <2> QED
    BY <1>3, <2>1, <2>2
<1>7. Good(t)
  BY <1>3, <1>5, <1>6 DEF Good, Closed, Fresh
<1> QED
  BY <1>3, <1>7 DEF Steady

(* mounts.rs: apply_one.  The path is made, then mounted on, unless only a *)
(* propagation is changed, and dev/ptmx linked for a devpts.               *)
LEMMA Applied ==
  ASSUME config \in Configs, NEW s, Good(s), NEW i \in 1 .. Len(config.mounts),
         NEW t \in ApplyOne(s, config.mounts[i])
  PROVE  LET q == Destination(i)
             m == config.mounts[i]
             f == Flags(m.options)
             fs == IF f.bind THEN m.fs ELSE EffectiveFstype(m.fs)
         IN  \E u \in Make(s, q) : \E v :
               /\ \/ v \in Attach(u, q, fs, ~f.bind /\ f.ro) /\ fs \in Systems
                  \/ v = u /\ ~f.bind /\ f.propagation
               /\ IF m.fs = "devpts" THEN t \in LinkPtmx(v) ELSE t = v
<1> DEFINE q == Destination(i)
           m == config.mounts[i]
           f == Flags(m.options)
           fs == IF f.bind THEN m.fs ELSE EffectiveFstype(m.fs)
           Mounted(u) ==
             CASE f.bind -> Attach(u, q, m.fs, FALSE)
               [] ~f.bind /\ f.propagation -> IF IsMountPoint(u, q) /\ ~f.ro THEN {u} ELSE {}
               [] OTHER -> Attach(u, q, EffectiveFstype(m.fs), f.ro)
<1>1. t \in UNION {IF m.fs = "devpts" THEN UNION {LinkPtmx(w) : w \in Mounted(u)} ELSE Mounted(u)
                   : u \in Make(s, q)}
  BY DEF ApplyOne, Destination
<1>2. PICK u \in Make(s, q) : t \in IF m.fs = "devpts" THEN UNION {LinkPtmx(w) : w \in Mounted(u)} ELSE Mounted(u)
  BY <1>1
<1>3. \A v \in Mounted(u) : v \in Attach(u, q, fs, ~f.bind /\ f.ro) \/ (v = u /\ ~f.bind /\ f.propagation)
  <2>1. CASE f.bind
    <3>1. (~f.bind /\ f.ro) = FALSE
      BY <2>1
    <3> QED
      BY <2>1, <3>1
  <2>2. CASE ~f.bind /\ f.propagation
    BY <2>2
  <2>3. CASE ~f.bind /\ ~f.propagation
    <3>1. Mounted(u) = Attach(u, q, EffectiveFstype(m.fs), f.ro)
      BY <2>3
    <3>2. f.ro \in BOOLEAN
      BY DEF Flags
    <3>3. (~f.bind /\ f.ro) = f.ro
      BY <2>3, <3>2
    <3> QED
      BY <2>3, <3>1, <3>3
  <2> QED
    BY <2>1, <2>2, <2>3
<1>4. ASSUME NEW v \in Attach(u, q, fs, ~f.bind /\ f.ro) PROVE fs \in Systems
  <2>1. fs # "cgroup"
    BY <1>4 DEF Attach
  <2> QED
    BY <2>1, Entry
<1> HIDE DEF Mounted, q, f, fs
<1>5. PICK v \in Mounted(u) : IF m.fs = "devpts" THEN t \in LinkPtmx(v) ELSE t = v
  BY <1>2
<1>6. (v \in Attach(u, q, fs, ~f.bind /\ f.ro) /\ fs \in Systems) \/ (v = u /\ ~f.bind /\ f.propagation)
  BY <1>3, <1>4, <1>5
<1>7. \E x \in Make(s, q) : \E y :
               /\ \/ y \in Attach(x, q, fs, ~f.bind /\ f.ro) /\ fs \in Systems
                  \/ y = x /\ ~f.bind /\ f.propagation
               /\ IF m.fs = "devpts" THEN t \in LinkPtmx(y) ELSE t = y
  BY <1>2, <1>5, <1>6
<1> QED
  BY <1>7 DEF q, f, fs

LEMMA AttachedFs ==
  ASSUME NEW s, Good(s), NEW q \in Paths, NEW fs \in Systems, NEW ro \in BOOLEAN, NEW t \in Attach(s, q, fs, ro)
  PROVE  \A p \in Paths : t.view[p].fs \in {fs, s.view[p].fs}
<1>1. \A p \in Paths : t.view[p] = IF IsPrefix(q, p) THEN Made(s, fs, ro) ELSE s.view[p]
  BY Attached
<1> QED
  BY <1>1 DEF Made

LEMMA ApplyKeeps ==
  ASSUME config \in Configs, NEW s, Good(s), NEW i \in 1 .. Len(config.mounts),
         NEW t \in ApplyOne(s, config.mounts[i])
  PROVE  Good(t) /\ Steady(s, t) /\ (Origin(s) => Origin(t))
<1> DEFINE q == Destination(i)
           m == config.mounts[i]
           f == Flags(m.options)
           fs == IF f.bind THEN m.fs ELSE EffectiveFstype(m.fs)
<1>0. PICK u \in Make(s, q) : \E v :
        /\ \/ v \in Attach(u, q, fs, ~f.bind /\ f.ro) /\ fs \in Systems
           \/ v = u /\ ~f.bind /\ f.propagation
        /\ IF m.fs = "devpts" THEN t \in LinkPtmx(v) ELSE t = v
  BY Applied
<1>1. PICK v :
        /\ \/ v \in Attach(u, q, fs, ~f.bind /\ f.ro) /\ fs \in Systems
           \/ v = u /\ ~f.bind /\ f.propagation
        /\ IF m.fs = "devpts" THEN t \in LinkPtmx(v) ELSE t = v
  BY <1>0
<1>2. q \in Paths /\ fs \notin {"device", "masked"} /\ (fs = "host" => HostMounted)
  BY Entry DEF HostMounted
<1>3. Good(u) /\ Steady(s, u) /\ u.view = s.view
  BY <1>2, MakeSteady
<1> DEFINE ro == ~f.bind /\ f.ro
<1>4. ro \in BOOLEAN
  OBVIOUS
<1> HIDE DEF q, f, fs, ro
<1>5. Good(v) /\ Steady(u, v) /\ (Origin(u) => Origin(v))
  <2>1. CASE v \in Attach(u, q, fs, ro) /\ fs \in Systems
    <3>1. Good(v) /\ Steady(u, v)
      BY <1>2, <1>3, <1>4, <2>1, AttachGood, Attached
    <3>2. \A p \in Paths : v.view[p].fs \in {fs, u.view[p].fs}
      BY <1>2, <1>3, <1>4, <2>1, AttachedFs
    <3> QED
      BY <1>2, <3>1, <3>2 DEF Origin
  <2>2. CASE v = u
    BY <1>3, <2>2 DEF Steady
  <2> QED
    BY <1>1, <2>1, <2>2 DEF ro
<1>6. Good(t) /\ Steady(v, t) /\ t.view = v.view
  BY <1>1, <1>5, LinkGood DEF Steady
<1> QED
  BY <1>3, <1>5, <1>6, SteadyTwice DEF Origin

(* devices.rs: the body of create.                                         *)
LEMMA CreateKeeps ==
  ASSUME NEW s, Good(s), NEW d \in [path : Paths, owned : BOOLEAN], NEW t \in CreateOne(s, d, Bound)
  PROVE  /\ Good(t) /\ t.private = s.private /\ t.root = s.root
         /\ t.propagated => s.propagated \/ ~s.private
         /\ Origin(s) => /\ Origin(t)
                         /\ t.devicesOwned => s.devicesOwned \/ (d.owned /\ (Bound \/ HostMounted))
<1> DEFINE Owns(u) == d.owned /\ u.view[d.path].fs \in {"device", "host"}
<1>1. PICK u \in Node(s, d, Bound) : t = [u EXCEPT !.devicesOwned = @ \/ Owns(u)]
  BY DEF CreateOne
<1>2. d.path \in Paths /\ d.owned \in BOOLEAN /\ "device" \in Systems
  BY ProvidesAssumption
<1>3. Good(u) /\ Steady(s, u) /\ (Origin(s) => Origin(u))
  <2>1. CASE d.path \in s.exists
    BY <2>1 DEF Node, Steady
  <2>2. CASE d.path \notin s.exists
    <3>1. PICK v \in Make(s, d.path) : u \in IF Bound THEN Attach(v, d.path, "device", FALSE) ELSE {v}
      BY <2>2 DEF Node
    <3>2. Good(v) /\ Steady(s, v) /\ v.view = s.view
      BY <1>2, MakeSteady
    <3>3. CASE Bound
      <4>1. u \in Attach(v, d.path, "device", FALSE)
        BY <3>1, <3>3
      <4>2. Good(u) /\ Steady(v, u)
        BY <1>2, <3>2, <4>1, AttachGood, Attached
      <4>3. \A p \in Paths : u.view[p].fs \in {"device", v.view[p].fs}
        BY <1>2, <3>2, <4>1, AttachedFs
      <4> QED
        BY <3>2, <3>3, <4>2, <4>3, SteadyTwice DEF Origin
    <3>4. CASE ~Bound
      BY <3>1, <3>2, <3>4 DEF Origin
    <3> QED
      BY <3>3, <3>4
  <2> QED
    BY <2>1, <2>2
<1>4. u \in MountStates /\ u.devicesOwned \in BOOLEAN
  BY <1>3 DEF Good, MountStates
<1>5. Owns(u) \in BOOLEAN /\ (Owns(u) /\ Origin(u) => d.owned /\ (Bound \/ HostMounted))
  BY <1>2 DEF Origin
<1> HIDE DEF Owns
<1>6. /\ t \in MountStates /\ t.view = u.view /\ t.next = u.next /\ t.exists = u.exists
      /\ t.private = u.private /\ t.root = u.root /\ t.propagated = u.propagated
      /\ t.devicesOwned = (u.devicesOwned \/ Owns(u))
  BY <1>1, <1>4, <1>5 DEF MountStates
<1>7. Good(t)
  BY <1>3, <1>6 DEF Good, Closed, Fresh
<1> QED
  BY <1>3, <1>5, <1>6, <1>7 DEF Steady, Origin

(* harden.rs: what is masked, all of it, and nothing is unmasked.          *)
LEMMA MaskKeeps ==
  ASSUME NEW s, Good(s), NEW q \in Paths, NEW t \in MaskOne(s, q)
  PROVE  /\ Good(t) /\ Steady(s, t) /\ t.exists \subseteq s.exists
         /\ \A p \in Paths : t.view[p].fs \in {s.view[p].fs, "masked"}
         /\ \A p \in Under(q) \cap t.exists : t.view[p].fs = "masked"
<1>1. CASE q \notin s.exists
  <2>1. t = s
    BY <1>1 DEF MaskOne
  <2>2. Under(q) \cap s.exists = {}
    BY <1>1 DEF Under, Good, Closed
  <2> QED
    BY <2>1, <2>2 DEF Steady
<1>2. CASE q \in s.exists
  <2>1. PICK ro \in BOOLEAN : t \in Attach(s, q, "masked", ro)
    BY <1>2 DEF MaskOne
  <2>2. "masked" \in Systems /\ Provides["masked"] = {}
    BY ProvidesAssumption
  <2>3. Good(t) /\ Steady(s, t)
    BY <2>1, <2>2, AttachGood, Attached
  <2>4. /\ \A p \in Paths : t.view[p] = IF IsPrefix(q, p) THEN Made(s, "masked", ro) ELSE s.view[p]
        /\ t.exists = (s.exists \ Under(q)) \cup {q} \cup ({q \o r : r \in Provides["masked"]} \cap Paths)
    BY <2>1, <2>2, Attached
  <2>5. t.exists \subseteq s.exists
    BY <1>2, <2>2, <2>4
  <2>6. \A p \in Paths : IF IsPrefix(q, p) THEN t.view[p].fs = "masked" ELSE t.view[p].fs = s.view[p].fs
    BY <2>4 DEF Made
  <2> QED
    BY <2>3, <2>5, <2>6 DEF Under
<1> QED
  BY <1>1, <1>2

(* A step that only makes mounts read-only, or binds them onto themselves. *)
Tightens(s, t) ==
  /\ Good(t) /\ Steady(s, t) /\ t.exists = s.exists
  /\ \A p \in Paths : t.view[p].fs = s.view[p].fs /\ (s.view[p].ro => t.view[p].ro)

LEMMA RemountTightens ==
  ASSUME NEW s, Good(s), NEW q \in Paths, NEW t \in RemountReadonly(s, q)
  PROVE  Tightens(s, t) /\ t.view[q].ro
<1>1. /\ Good(t) /\ Steady(s, t) /\ t.exists = s.exists
      /\ \A p \in Paths : /\ t.view[p].fs = s.view[p].fs
                          /\ t.view[p].ro = (s.view[p].ro \/ s.view[p].id = s.view[q].id)
  BY RemountGood
<1>2. t.view[q].ro
  BY <1>1
<1>3. \A p \in Paths : s.view[p].ro => t.view[p].ro
  BY <1>1
<1> QED
  BY <1>1, <1>2, <1>3 DEF Tightens

LEMMA ReadonlyKeeps ==
  ASSUME NEW s, Good(s), NEW q \in Paths, NEW t \in ReadonlyOne(s, q)
  PROVE  Tightens(s, t) /\ (q \in t.exists => t.view[q].ro)
<1>1. CASE q \notin s.exists
  BY <1>1 DEF ReadonlyOne, Tightens, Steady
<1>2. CASE q \in s.exists
  <2>1. PICK u \in BindSelf(s, q) : t \in RemountReadonly(u, q)
    BY <1>2 DEF ReadonlyOne
  <2>2. Tightens(s, u)
    BY BindGood DEF Tightens
  <2>3. Tightens(u, t) /\ t.view[q].ro
    BY <2>1, <2>2, RemountTightens DEF Tightens
  <2> QED
    BY <2>2, <2>3, SteadyTwice DEF Tightens
<1> QED
  BY <1>1, <1>2

LEMMA TmpfsKeeps ==
  ASSUME config \in Configs, NEW s, Good(s), NEW i \in 1 .. Len(config.mounts),
         NEW t \in RemountTmpfs(s, config.mounts[i])
  PROVE  Tightens(s, t) /\ (ReadonlyTmpfs(i) => t.view[Destination(i)].ro)
<1>1. Destination(i) \in Paths
  BY Entry
<1>2. t \in IF ReadonlyTmpfs(i) THEN RemountReadonly(s, Destination(i)) ELSE {s}
  BY DEF RemountTmpfs, ReadonlyTmpfs, Destination
<1> QED
  BY <1>1, <1>2, RemountTightens DEF Tightens, Steady

LEMMA ConsoleKeeps ==
  ASSUME NEW s, Good(s), NEW t \in SetupConsole(s)
  PROVE  Good(t) /\ Steady(s, t)
<1>1. PICK u \in Make(s, <<"dev", "console">>) : t \in Attach(u, <<"dev", "console">>, "device", FALSE)
  BY DEF SetupConsole
<1>2. <<"dev", "console">> \in Paths /\ "device" \in Systems
  BY NamedPaths, ProvidesAssumption
<1>3. Good(u) /\ Steady(s, u)
  BY <1>2, MakeSteady
<1>4. Good(t) /\ Steady(u, t)
  BY <1>1, <1>2, <1>3, AttachGood, Attached
<1> QED
  BY <1>3, <1>4, SteadyTwice

LEMMA PivotKeeps ==
  ASSUME NEW s, Good(s), NEW u \in Pivot(s), NEW t \in SetPropagation(u, config.propagation)
  PROVE  /\ Good(t) /\ t.private = s.private /\ t.devicesOwned = s.devicesOwned
         /\ t.propagated = s.propagated /\ t.exists = s.exists
         /\ \A p \in Paths : /\ t.view[p].fs = s.view[p].fs /\ t.view[p].ro = s.view[p].ro
                             /\ t.view[p].id = s.view[p].id
                             /\ t.view[p].unbindable = ("unbindable" \in config.propagation)
<1>1. u = [s EXCEPT !.root = "pivoted"] /\ s \in MountStates
  BY DEF Pivot, Good
<1>2. /\ u \in MountStates /\ u.view = s.view /\ u.next = s.next /\ u.exists = s.exists /\ u.private = s.private
      /\ u.devicesOwned = s.devicesOwned /\ u.propagated = s.propagated
  BY <1>1 DEF MountStates
<1> DEFINE view == [p \in Paths |-> [u.view[p] EXCEPT !.unbindable = "unbindable" \in config.propagation]]
<1>3. t = [u EXCEPT !.view = view]
  BY DEF SetPropagation
<1>4. ASSUME NEW p \in Paths
      PROVE  /\ view[p] \in Views /\ view[p].fs = u.view[p].fs /\ view[p].ro = u.view[p].ro
             /\ view[p].id = u.view[p].id /\ view[p].unbindable = ("unbindable" \in config.propagation)
  <2>1. u.view[p] \in Views
    BY <1>2 DEF MountStates
  <2>2. ("unbindable" \in config.propagation) \in BOOLEAN
    OBVIOUS
  <2> QED
    BY <2>1, <2>2 DEF Views
<1>5. view \in [Paths -> Views]
  BY <1>4
<1> HIDE DEF view
<1>6. /\ t \in MountStates /\ t.view = view /\ t.next = u.next /\ t.exists = u.exists /\ t.private = u.private
      /\ t.devicesOwned = u.devicesOwned /\ t.propagated = u.propagated
  BY <1>2, <1>3, <1>5 DEF MountStates
<1>7. Good(t)
  BY <1>2, <1>4, <1>6 DEF Good, Closed, Fresh
<1> QED
  BY <1>2, <1>4, <1>6, <1>7

-----------------------------------------------------------------------------
(* The steps, and what most of them leave alone.                           *)

MountPcs == {"mounts", "devices", "pivot", "console", "mask", "readonly", "tmpfs", "roRoot"}

CredPcs == {"limits", "filterFirst", "bounding", "ids", "caps", "nnp", "filterLast"}

InitPcs == MountPcs \cup CredPcs \cup {"rootfs", "identity", "ready"}

MountMove ==
  \/ MountAll \/ CreateDevices \/ PivotRoot \/ Console \/ Mask \/ Readonly \/ Tmpfs \/ RootReadonly

CredMove ==
  \/ Limits \/ FilterFirst \/ Bounding \/ Ids \/ Capabilities \/ NoNewPrivs \/ FilterLast

LEMMA Moves == Next <=> Plan \/ JoinOne \/ Unshare \/ Rootfs \/ Identity \/ MountMove \/ CredMove
BY DEF Next, MountMove, CredMove

LEMMA MountMoves ==
  ASSUME MountMove
  PROVE  /\ pc \in MountPcs /\ pc' \in MountPcs \cup {"identity", "limits", "failed"}
         /\ UNCHANGED <<config, left, ns, overlay, cred, settings>>
<1>1. CASE MountAll
  BY <1>1 DEF MountAll, Loop, MountChange, GoOn, MountPcs
<1>2. CASE CreateDevices
  BY <1>2 DEF CreateDevices, Loop, MountChange, GoOn, MountPcs
<1>3. CASE PivotRoot
  BY <1>3 DEF PivotRoot, MountStep, MountChange, GoOn, MountPcs
<1>4. CASE Console
  BY <1>4 DEF Console, MountStep, MountChange, GoOn, MountPcs
<1>5. CASE Mask
  BY <1>5 DEF Mask, Loop, MountChange, GoOn, MountPcs
<1>6. CASE Readonly
  BY <1>6 DEF Readonly, Loop, MountChange, GoOn, MountPcs
<1>7. CASE Tmpfs
  BY <1>7 DEF Tmpfs, Loop, MountChange, GoOn, MountPcs
<1>8. CASE RootReadonly
  BY <1>8 DEF RootReadonly, MountStep, MountChange, GoOn, MountPcs
<1> QED
  BY <1>1, <1>2, <1>3, <1>4, <1>5, <1>6, <1>7, <1>8 DEF MountMove

LEMMA CredMoves ==
  ASSUME CredMove
  PROVE  /\ pc \in CredPcs /\ pc' \in CredPcs \cup {"ready", "failed"}
         /\ UNCHANGED <<config, left, ns, overlay, mnt, done, settings>>
BY DEF CredMove, Limits, FilterFirst, Bounding, Ids, Capabilities, NoNewPrivs, FilterLast,
       CredStep, CredChange, GoOn, CredPcs

LEMMA OtherMoves ==
  /\ Plan => pc = "plan" /\ pc' \in {"join", "failed"} /\ UNCHANGED <<config, mnt, done, cred, settings>>
  /\ JoinOne => pc = "join" /\ pc' \in {"join", "failed"} /\ UNCHANGED <<config, mnt, done, cred, settings>>
  /\ Unshare => pc = "join" /\ pc' \in {"rootfs", "failed"} /\ UNCHANGED <<config, mnt, done, settings>>
  /\ Rootfs => /\ pc = "rootfs" /\ pc' \in {"mounts", "identity", "failed"}
               /\ UNCHANGED <<config, left, ns, done, cred, settings>>
  /\ Identity => /\ pc = "identity" /\ pc' \in {"mask", "limits", "failed"}
                 /\ UNCHANGED <<config, left, ns, mnt, done, cred>>
BY DEF Plan, JoinOne, Unshare, Rootfs, Identity, CredChange, GoOn

-----------------------------------------------------------------------------
(* The namespaces.                                                         *)

Wanted(k) ==
  IF k \in config.create THEN "new" ELSE IF k \in ToSet(config.join) THEN "joined" ELSE "host"

(* Once the host's /proc is out of sight at most the time namespace is     *)
(* still to be joined.                                                     *)
NsInv ==
  /\ config \in Configs
  /\ ns \in [Kinds -> {"host", "joined", "new", "stray"}] /\ left \subseteq Kinds
  /\ \A k \in Kinds \ {"time"} : ns[k] # "stray"
  /\ pc \in {"join"} \cup InitPcs => Valid
  /\ pc = "plan" => ns = [k \in Kinds |-> "host"]
  /\ pc = "join" =>
       /\ left \subseteq ToSet(config.join)
       /\ \A k \in Kinds \ {"time"} : ns[k] = IF k \in ToSet(config.join) \ left THEN "joined" ELSE "host"
       /\ ns["mnt"] # "host" => left \subseteq {"time"}
  /\ pc \in InitPcs => \A k \in Kinds \ {"time"} : ns[k] = Wanted(k)
  /\ <<"hostname", "host">> \notin settings

LEMMA KindsAre == Kinds = {"user", "ipc", "uts", "net", "pid", "cgroup", "mnt", "time"}
<1>1. DOMAIN JoinOrder = 1 .. 7
  BY DEF JoinOrder
<1>2. ToSet(JoinOrder) = {JoinOrder[i] : i \in 1 .. 7}
  BY <1>1 DEF ToSet
<1>3. 1 .. 7 = {1, 2, 3, 4, 5, 6, 7}
  OBVIOUS
<1>4. {JoinOrder[i] : i \in 1 .. 7} = {"user", "ipc", "uts", "net", "pid", "cgroup", "mnt"}
  BY <1>3 DEF JoinOrder
<1> QED
  BY <1>2, <1>4 DEF Kinds

(* JOIN_ORDER puts the mount namespace last of those it has.               *)
LEMMA MountLast ==
  ASSUME NEW k \in Kinds \ {"time", "mnt"}
  PROVE  Before(k, "mnt")
<1> DEFINE Here(i) == JoinOrder[i] = k /\ \A n \in 1 .. i : JoinOrder[n] # "mnt"
<1>1. DOMAIN JoinOrder = 1 .. 7
  BY DEF JoinOrder
<1>2. \A n \in 1 .. 6 : JoinOrder[n] # "mnt"
  BY DEF JoinOrder
<1>3. \E i \in 1 .. 6 : JoinOrder[i] = k
  <2>1. /\ JoinOrder[1] = "user" /\ JoinOrder[2] = "ipc" /\ JoinOrder[3] = "uts" /\ JoinOrder[4] = "net"
        /\ JoinOrder[5] = "pid" /\ JoinOrder[6] = "cgroup"
    BY DEF JoinOrder
  <2>2. k \in {"user", "ipc", "uts", "net", "pid", "cgroup"}
    BY KindsAre
  <2>3. 1 \in 1 .. 6 /\ 2 \in 1 .. 6 /\ 3 \in 1 .. 6 /\ 4 \in 1 .. 6 /\ 5 \in 1 .. 6 /\ 6 \in 1 .. 6
    OBVIOUS
  <2> QED
    BY <2>1, <2>2, <2>3
<1>4. PICK i \in 1 .. 6 : JoinOrder[i] = k
  BY <1>3
<1>5. i \in 1 .. 7 /\ \A n \in 1 .. i : n \in 1 .. 6
  OBVIOUS
<1> QED
  BY <1>1, <1>2, <1>4, <1>5 DEF Before

LEMMA NsInit == Init => NsInv
BY DEF Init, NsInv, InitPcs, MountPcs, CredPcs

LEMMA PlanNs == ASSUME NsInv, Plan PROVE NsInv'
<1>1. config \in Configs /\ config.join \in Seq(Kinds)
  BY ConfigsAssumption DEF NsInv
<1>2. ToSet(config.join) \subseteq Kinds
  BY <1>1, ElementOfSeq, LenProperties DEF ToSet
<1>3. /\ pc = "plan" /\ pc' \in {"join", "failed"} /\ (pc' = "join" => Valid)
      /\ config' = config /\ ns' = ns /\ settings' = settings /\ left' = ToSet(config.join)
  BY DEF Plan, GoOn
<1>4. Valid' <=> Valid
  BY <1>3 DEF Valid, NamespaceTypes, Listed
<1>5. "mnt" \in Kinds
  BY KindsAre
<1> QED
  BY <1>2, <1>3, <1>4, <1>5 DEF NsInv, InitPcs, MountPcs, CredPcs

LEMMA JoinNs == ASSUME NsInv, JoinOne PROVE NsInv'
<1>1. /\ config' = config /\ settings' = settings /\ pc = "join" /\ pc' \in {"join", "failed"}
  BY DEF JoinOne
<1>2. PICK k \in Kinds :
        /\ NextToJoin(k) /\ left' = left \ {k}
        /\ \/ ns["mnt"] = "host" /\ pc' = pc /\ ns' = [ns EXCEPT ![k] = "joined"]
           \/ ns["mnt"] # "host" /\ pc' = pc /\ ns' = [ns EXCEPT ![k] = "stray"]
           \/ ns["mnt"] # "host" /\ pc' = "failed" /\ ns' = ns
  BY DEF JoinOne
<1>3. k \in left /\ \A j \in left : ~Before(j, k)
  BY <1>2 DEF NextToJoin
<1>4. Valid' <=> Valid
  BY <1>1 DEF Valid, NamespaceTypes, Listed
<1>5. /\ ns \in [Kinds -> {"host", "joined", "new", "stray"}] /\ left \subseteq Kinds
      /\ \A j \in Kinds \ {"time"} : ns[j] # "stray"
      /\ left \subseteq ToSet(config.join) /\ Valid /\ config \in Configs /\ <<"hostname", "host">> \notin settings
      /\ \A j \in Kinds \ {"time"} : ns[j] = IF j \in ToSet(config.join) \ left THEN "joined" ELSE "host"
      /\ ns["mnt"] # "host" => left \subseteq {"time"}
  BY <1>1 DEF NsInv
<1>6. "mnt" \in Kinds \ {"time"}
  BY KindsAre
<1>7. CASE ns["mnt"] = "host"
  <2>1. pc' = "join" /\ ns' = [ns EXCEPT ![k] = "joined"]
    BY <1>1, <1>2, <1>7
  <2>2. \A j \in Kinds \ {"time"} : ns'[j] = IF j \in ToSet(config.join) \ left' THEN "joined" ELSE "host"
    BY <1>2, <1>3, <1>5, <2>1
  <2>3. k = "mnt" => left' \subseteq {"time"}
    BY <1>2, <1>3, <1>5, MountLast
  <2>4. ns'["mnt"] # "host" => left' \subseteq {"time"}
    BY <1>5, <1>6, <1>7, <2>1, <2>3
  <2>5. ns' \in [Kinds -> {"host", "joined", "new", "stray"}] /\ left' \subseteq ToSet(config.join) /\ left' \subseteq Kinds
    BY <1>2, <1>5, <2>1
  <2>6. \A j \in Kinds \ {"time"} : ns'[j] # "stray"
    BY <2>2
  <2> QED
    BY <1>1, <1>4, <1>5, <2>1, <2>2, <2>4, <2>5, <2>6 DEF NsInv, InitPcs, MountPcs, CredPcs
<1>8. CASE ns["mnt"] # "host"
  <2>1. k = "time" /\ left' \subseteq {"time"}
    BY <1>2, <1>3, <1>5, <1>8
  <2>2. /\ ns' \in [Kinds -> {"host", "joined", "new", "stray"}] /\ \A j \in Kinds \ {"time"} : ns'[j] = ns[j]
    BY <1>2, <1>5, <2>1
  <2>3. left' \subseteq ToSet(config.join) /\ left' \subseteq Kinds
        /\ \A j \in Kinds \ {"time"} : j \in ToSet(config.join) \ left' <=> j \in ToSet(config.join) \ left
    BY <1>2, <1>5, <2>1
  <2> QED
    BY <1>1, <1>4, <1>5, <2>1, <2>2, <2>3 DEF NsInv, InitPcs, MountPcs, CredPcs
<1> QED
  BY <1>7, <1>8

LEMMA UnshareNs == ASSUME NsInv, Unshare PROVE NsInv'
<1>1. /\ config' = config /\ settings' = settings /\ left' = left /\ left = {} /\ pc = "join" /\ pc' \in {"rootfs", "failed"}
      /\ ns' = [k \in Kinds |-> IF k \in config.create THEN "new" ELSE ns[k]]
  BY DEF Unshare, CredChange, GoOn
<1>2. Valid' <=> Valid
  BY <1>1 DEF Valid, NamespaceTypes, Listed
<1>3. \A k \in Kinds \ {"time"} : ns'[k] = Wanted(k)'
  BY <1>1 DEF NsInv, Wanted
<1> QED
  BY <1>1, <1>2, <1>3 DEF NsInv, InitPcs, MountPcs, CredPcs, Wanted

LEMMA IdentityNs == ASSUME NsInv, Identity PROVE NsInv'
<1>1. /\ config' = config /\ ns' = ns /\ left' = left /\ pc = "identity" /\ pc' \in {"mask", "limits", "failed"}
  BY OtherMoves
<1>2. "uts" \in Kinds \ {"time"} /\ pc \in InitPcs
  BY <1>1, KindsAre DEF InitPcs
<1>3. <<"hostname", "host">> \notin settings'
  <2>1. settings' = (IF config.hostname THEN {<<"hostname", ns["uts"]>>} ELSE {})
                    \cup (IF config.sysctl THEN {<<"sysctl", ns["net"]>>} ELSE {})
    BY DEF Identity
  <2>2. config.hostname => ns["uts"] # "host"
    BY <1>2 DEF NsInv, Valid, Listed, Wanted
  <2> QED
    BY <2>1, <2>2
<1>4. (Valid' <=> Valid) /\ \A k \in Kinds : Wanted(k)' = Wanted(k)
  BY <1>1 DEF Valid, NamespaceTypes, Listed, Wanted
<1> QED
  BY <1>1, <1>2, <1>3, <1>4 DEF NsInv, InitPcs, MountPcs, CredPcs

LEMMA NsNext == ASSUME NsInv, [Next]_vars PROVE NsInv'
<1>1. ASSUME UNCHANGED <<config, left, ns, settings>>,
             (pc' = pc \/ pc' = "failed") \/ (pc \in InitPcs /\ pc' \in InitPcs)
      PROVE  NsInv'
  <2>1. (Valid' <=> Valid) /\ \A k \in Kinds : Wanted(k)' = Wanted(k)
    BY <1>1 DEF Valid, NamespaceTypes, Listed, Wanted
  <2> QED
    BY <1>1, <2>1 DEF NsInv, InitPcs, MountPcs, CredPcs
<1>2. CASE MountMove
  BY <1>1, <1>2, MountMoves DEF InitPcs, CredPcs
<1>3. CASE CredMove
  BY <1>1, <1>3, CredMoves DEF InitPcs
<1>4. CASE Rootfs
  BY <1>1, <1>4, OtherMoves DEF InitPcs, MountPcs
<1>5. CASE UNCHANGED vars
  BY <1>1, <1>5 DEF vars
<1> QED
  BY <1>2, <1>3, <1>4, <1>5, PlanNs, JoinNs, UnshareNs, IdentityNs, Moves

-----------------------------------------------------------------------------
(* The identity and privileges.                                            *)

CredStates ==
  [uid : {"root", "user"}, groups : {{"staff"}, config.groups}, bounding : SUBSET Caps,
   permitted : SUBSET Caps, effective : SUBSET Caps, inheritable : SUBSET Caps, ambient : SUBSET Caps,
   nnp : BOOLEAN, keep : BOOLEAN, refused : SUBSET UNION {f.refused : f \in config.filter},
   filters : {0, 1}, groupsDenied : BOOLEAN]

Typed(c) ==
  c \in CredStates /\ c.effective \subseteq c.permitted /\ c.ambient \subseteq c.permitted \cap c.inheritable

LoadedFirst == config.filter # {} /\ ~config.nnp

(* The filter is loaded, or is not.                                        *)
Filters(c, loaded) ==
  /\ c.filters = IF loaded THEN 1 ELSE 0
  /\ loaded => \A f \in config.filter : c.refused = f.refused
  /\ ~loaded => c.refused = {}

BeforePcs == {"plan", "join", "rootfs", "identity"} \cup MountPcs

(* Everything a capability is needed for comes before it is given up: the  *)
(* capabilities of root are whole until the ids are dropped, the permitted *)
(* ones until the sets are given.                                          *)
CredInv ==
  /\ Typed(cred)
  /\ pc # "failed" => ~cred.keep
  /\ pc \in BeforePcs \cup {"limits", "filterFirst"} => Filters(cred, FALSE)
  /\ pc \in {"bounding", "ids", "caps", "nnp", "filterLast"} => Filters(cred, LoadedFirst)
  /\ pc = "ready" => Filters(cred, config.filter # {})
  /\ pc \in BeforePcs \cup {"limits", "filterFirst", "bounding"} => cred.bounding = Caps
  /\ pc \in {"ids", "caps", "nnp", "filterLast", "ready"} => \A c \in config.caps : cred.bounding = c.bounding
  /\ pc \in BeforePcs \cup {"limits", "filterFirst", "bounding", "ids"} =>
       cred.uid = "root" /\ cred.effective = Caps
  /\ pc \in BeforePcs \cup {"limits", "filterFirst", "bounding", "ids", "caps"} =>
       cred.inheritable = {} /\ ~cred.nnp /\ cred.permitted = Caps
  /\ pc \in {"caps", "nnp", "filterLast", "ready"} => cred.uid = config.uid /\ cred.groups = config.groups
  /\ pc \in {"nnp", "filterLast", "ready"} =>
       \A c \in config.caps :
         /\ cred.permitted = c.permitted /\ cred.effective = c.effective
         /\ cred.inheritable = c.inheritable /\ cred.ambient = c.ambient
  /\ pc = "nnp" => ~cred.nnp
  /\ pc \in {"filterLast", "ready"} => cred.nnp = config.nnp
  /\ config.asRoot => ~cred.groupsDenied


LEMMA CapSetsAre ==
  ASSUME config \in Configs, NEW s \in config.caps
  PROVE  /\ config.caps = {s}
         /\ s.bounding \subseteq Caps /\ s.permitted \subseteq Caps /\ s.effective \subseteq Caps
         /\ s.inheritable \subseteq Caps /\ s.ambient \subseteq Caps
<1>1. config.caps = {s} /\ s \in CapSets
  BY ConfigsAssumption
<1> QED
  BY <1>1 DEF CapSets

LEMMA CredInit == Init => CredInv
<1> SUFFICES ASSUME Init PROVE CredInv
  OBVIOUS
<1>1. cred = Root /\ pc = "plan"
  BY DEF Init
<1>2. /\ Root.uid = "root" /\ Root.effective = Caps /\ Root.permitted = Caps /\ Root.bounding = Caps
      /\ Root.inheritable = {} /\ Root.ambient = {} /\ Root.nnp = FALSE /\ Root.keep = FALSE
      /\ Root.refused = {} /\ Root.filters = 0 /\ Root.groupsDenied = FALSE
  BY DEF Root
<1>3. Root \in CredStates
  BY DEF Root, CredStates
<1>4. Typed(Root) /\ Filters(Root, FALSE)
  BY <1>2, <1>3 DEF Typed, Filters
<1> QED
  BY <1>1, <1>2, <1>4 DEF CredInv

(* seccomp.rs: apply, once.                                                *)
LEMMA Loads ==
  ASSUME NEW c, Typed(c), Filters(c, FALSE), NEW f \in config.filter, config.filter = {f}, NEW d \in ApplySeccomp(c, f)
  PROVE  /\ Typed(d) /\ Filters(d, TRUE)
         /\ d.uid = c.uid /\ d.groups = c.groups /\ d.bounding = c.bounding /\ d.permitted = c.permitted
         /\ d.effective = c.effective /\ d.inheritable = c.inheritable /\ d.ambient = c.ambient
         /\ d.nnp = c.nnp /\ d.keep = c.keep /\ d.groupsDenied = c.groupsDenied
<1>1. d = [c EXCEPT !.refused = @ \cup f.refused, !.filters = @ + 1]
  BY DEF ApplySeccomp, LoadFilter
<1>2. c \in CredStates /\ c.filters = 0 /\ c.refused = {}
  BY DEF Typed, Filters
<1>3. d = [c EXCEPT !.refused = f.refused, !.filters = 1]
  BY <1>1, <1>2 DEF CredStates
<1>4. /\ d.uid = c.uid /\ d.groups = c.groups /\ d.bounding = c.bounding /\ d.permitted = c.permitted
      /\ d.effective = c.effective /\ d.inheritable = c.inheritable /\ d.ambient = c.ambient
      /\ d.nnp = c.nnp /\ d.keep = c.keep /\ d.groupsDenied = c.groupsDenied
      /\ d.refused = f.refused /\ d.filters = 1
  BY <1>2, <1>3 DEF CredStates
<1>5. f.refused \in SUBSET UNION {g.refused : g \in config.filter}
  OBVIOUS
<1>6. d \in CredStates
  BY <1>2, <1>3, <1>5 DEF CredStates
<1> QED
  BY <1>4, <1>6 DEF Typed, Filters

(* process.rs: drop_privileges keeps what is permitted.                    *)
LEMMA Drops ==
  ASSUME config \in Configs, NEW c, Typed(c), ~c.keep, c.uid = "root", NEW d \in DropPrivileges(c, config)
  PROVE  /\ Typed(d) /\ d.uid = config.uid /\ d.groups = config.groups /\ ~d.keep
         /\ d.bounding = c.bounding /\ d.permitted = c.permitted /\ d.inheritable = c.inheritable
         /\ d.nnp = c.nnp /\ d.refused = c.refused /\ d.filters = c.filters
         /\ d.groupsDenied = c.groupsDenied
<1> DEFINE leavingRoot == c.uid = "root" /\ config.uid # "root"
           Kept(e, keep) == IF leavingRoot THEN Keep(e, keep) ELSE {e}
<1>1. d \in UNION {UNION {UNION {UNION {Kept(g, FALSE) : g \in SetUid(f, config.uid)}
                           : f \in SetGid(e)} : e \in Kept(a, TRUE)} : a \in SetGroups(c, config.groups)}
  BY DEF DropPrivileges
<1>2. PICK a \in SetGroups(c, config.groups) :
        d \in UNION {UNION {UNION {Kept(g, FALSE) : g \in SetUid(f, config.uid)} : f \in SetGid(e)} : e \in Kept(a, TRUE)}
  BY <1>1
<1>3. PICK e \in Kept(a, TRUE) : d \in UNION {UNION {Kept(g, FALSE) : g \in SetUid(f, config.uid)} : f \in SetGid(e)}
  BY <1>2
<1>4. PICK f \in SetGid(e) : d \in UNION {Kept(g, FALSE) : g \in SetUid(f, config.uid)}
  BY <1>3
<1>5. PICK g \in SetUid(f, config.uid) : d \in Kept(g, FALSE)
  BY <1>4
<1>6. c \in CredStates /\ c.effective \subseteq c.permitted /\ c.ambient \subseteq c.permitted \cap c.inheritable
  BY DEF Typed
<1>7. /\ a \in CredStates /\ a.groups = config.groups /\ a.uid = "root" /\ a.keep = FALSE
      /\ a.bounding = c.bounding /\ a.permitted = c.permitted /\ a.inheritable = c.inheritable
      /\ a.effective = c.effective /\ a.ambient = c.ambient
      /\ a.nnp = c.nnp /\ a.refused = c.refused /\ a.filters = c.filters /\ a.groupsDenied = c.groupsDenied
  <2>1. a = [c EXCEPT !.groups = config.groups]
    BY <1>2 DEF SetGroups
  <2> QED
    BY <1>6, <2>1 DEF CredStates
<1>8. /\ e \in CredStates /\ e.groups = config.groups /\ e.uid = "root" /\ (leavingRoot => e.keep)
      /\ (~leavingRoot => ~e.keep)
      /\ e.bounding = c.bounding /\ e.permitted = c.permitted /\ e.inheritable = c.inheritable
      /\ e.effective = c.effective /\ e.ambient = c.ambient
      /\ e.nnp = c.nnp /\ e.refused = c.refused /\ e.filters = c.filters /\ e.groupsDenied = c.groupsDenied
  <2>1. CASE leavingRoot
    <3>1. e = [a EXCEPT !.keep = TRUE]
      BY <1>3, <2>1 DEF Keep
    <3> QED
      BY <1>7, <2>1, <3>1 DEF CredStates
  <2>2. CASE ~leavingRoot
    <3>1. e = a
      BY <1>3, <2>2
    <3> QED
      BY <1>7, <2>2, <3>1
  <2> QED
    BY <2>1, <2>2
<1>9. f = e
  BY <1>4 DEF SetGid
<1>10. config.uid \in {"root", "user"}
  BY ConfigsAssumption
<1>11. /\ g \in CredStates /\ g.groups = config.groups /\ g.uid = config.uid /\ (leavingRoot => g.keep)
       /\ (~leavingRoot => ~g.keep)
       /\ g.bounding = c.bounding /\ g.permitted = c.permitted /\ g.inheritable = c.inheritable
       /\ g.effective \subseteq g.permitted /\ g.ambient \subseteq g.permitted \cap g.inheritable
       /\ g.nnp = c.nnp /\ g.refused = c.refused /\ g.filters = c.filters /\ g.groupsDenied = c.groupsDenied
  <2>1. CASE leavingRoot
    <3>1. g = [e EXCEPT !.uid = config.uid, !.effective = {}, !.ambient = {}, !.permitted = IF e.keep THEN @ ELSE {}]
      BY <1>5, <1>8, <1>9, <2>1 DEF SetUid
    <3>2. g = [e EXCEPT !.uid = config.uid, !.effective = {}, !.ambient = {}]
      BY <1>8, <2>1, <3>1 DEF CredStates
    <3> QED
      BY <1>8, <1>10, <2>1, <3>2 DEF CredStates
  <2>2. CASE ~leavingRoot
    <3>1. g = [e EXCEPT !.uid = config.uid]
      BY <1>5, <1>8, <1>9, <2>2 DEF SetUid
    <3> QED
      BY <1>6, <1>8, <1>10, <2>2, <3>1 DEF CredStates
  <2> QED
    BY <2>1, <2>2
<1>12. CASE leavingRoot
  <2>1. d = [g EXCEPT !.keep = FALSE]
    BY <1>5, <1>12 DEF Keep
  <2>2. /\ d \in CredStates /\ d.keep = FALSE /\ d.groups = g.groups /\ d.uid = g.uid
        /\ d.bounding = g.bounding /\ d.permitted = g.permitted /\ d.inheritable = g.inheritable
        /\ d.effective = g.effective /\ d.ambient = g.ambient
        /\ d.nnp = g.nnp /\ d.refused = g.refused /\ d.filters = g.filters /\ d.groupsDenied = g.groupsDenied
    BY <1>11, <2>1 DEF CredStates
  <2> QED
    BY <1>11, <2>2 DEF Typed
<1>13. CASE ~leavingRoot
  <2>1. d = g
    BY <1>5, <1>13
  <2> QED
    BY <1>11, <1>13, <2>1 DEF Typed
<1> QED
  BY <1>12, <1>13

(* One capset(2).                                                          *)
LEMMA Sets ==
  ASSUME NEW c, Typed(c), NEW e \in SUBSET Caps, NEW p \in SUBSET Caps, NEW i \in SUBSET Caps, NEW d \in CapSet(c, e, p, i)
  PROVE  /\ Typed(d) /\ d.effective = e /\ d.permitted = p /\ d.inheritable = i
         /\ d.uid = c.uid /\ d.groups = c.groups /\ d.bounding = c.bounding
         /\ d.nnp = c.nnp /\ d.keep = c.keep /\ d.refused = c.refused /\ d.filters = c.filters
         /\ d.groupsDenied = c.groupsDenied
<1>1. /\ d = [c EXCEPT !.effective = e, !.permitted = p, !.inheritable = i, !.ambient = @ \cap p \cap i]
      /\ e \subseteq p
  BY DEF CapSet
<1>2. c \in CredStates /\ c.ambient \in SUBSET Caps
  BY DEF Typed, CredStates
<1> DEFINE amb == c.ambient \cap p \cap i
<1>3. d = [c EXCEPT !.effective = e, !.permitted = p, !.inheritable = i, !.ambient = amb]
  BY <1>1, <1>2 DEF CredStates
<1>4. amb \in SUBSET Caps /\ amb \subseteq p \cap i
  OBVIOUS
<1> HIDE DEF amb
<1>5. /\ d \in CredStates /\ d.effective = e /\ d.permitted = p /\ d.inheritable = i /\ d.ambient = amb
      /\ d.uid = c.uid /\ d.groups = c.groups /\ d.bounding = c.bounding
      /\ d.nnp = c.nnp /\ d.keep = c.keep /\ d.refused = c.refused /\ d.filters = c.filters
      /\ d.groupsDenied = c.groupsDenied
  BY <1>2, <1>3, <1>4 DEF CredStates
<1> QED
  BY <1>1, <1>4, <1>5 DEF Typed

(* capabilities.rs: apply ends with exactly the sets that were asked for.  *)
LEMMA Applies ==
  ASSUME config \in Configs, NEW s \in config.caps, NEW c, Typed(c), NEW d \in ApplyCaps(c, s)
  PROVE  /\ Typed(d) /\ d.effective = s.effective /\ d.permitted = s.permitted
         /\ d.inheritable = s.inheritable /\ d.ambient = s.ambient
         /\ d.uid = c.uid /\ d.groups = c.groups /\ d.bounding = c.bounding
         /\ d.nnp = c.nnp /\ d.keep = c.keep /\ d.refused = c.refused /\ d.filters = c.filters
         /\ d.groupsDenied = c.groupsDenied
<1> DEFINE A(x) == IF s.ambient \subseteq s.permitted \cap s.inheritable /\ Allowed(x, "prctl")
                   THEN {[x EXCEPT !.ambient = s.ambient]} ELSE {}
           E(x) == CapSet(x, s.effective, x.permitted, x.inheritable)
           P(x) == CapSet(x, x.effective, s.permitted, x.inheritable)
           I(x) == CapSet(x, x.effective, x.permitted, s.inheritable)
<1>1. d \in UNION {UNION {UNION {A(z) : z \in I(y)} : y \in P(x)} : x \in E(c)}
  BY DEF ApplyCaps
<1>2. PICK x \in E(c) : d \in UNION {UNION {A(z) : z \in I(y)} : y \in P(x)}
  BY <1>1
<1>3. PICK y \in P(x) : d \in UNION {A(z) : z \in I(y)}
  BY <1>2
<1>4. PICK z \in I(y) : d \in A(z)
  BY <1>3
<1>5. /\ s.permitted \in SUBSET Caps /\ s.effective \in SUBSET Caps
      /\ s.inheritable \in SUBSET Caps /\ s.ambient \in SUBSET Caps
  BY CapSetsAre
<1>6. ASSUME NEW w, Typed(w)
      PROVE  w.permitted \in SUBSET Caps /\ w.effective \in SUBSET Caps /\ w.inheritable \in SUBSET Caps
  BY <1>6 DEF Typed, CredStates
<1>7. /\ Typed(x) /\ x.effective = s.effective
      /\ x.uid = c.uid /\ x.groups = c.groups /\ x.bounding = c.bounding
      /\ x.nnp = c.nnp /\ x.keep = c.keep /\ x.refused = c.refused /\ x.filters = c.filters
      /\ x.groupsDenied = c.groupsDenied
  BY <1>2, <1>5, <1>6, Sets
<1>8. /\ Typed(y) /\ y.effective = s.effective /\ y.permitted = s.permitted
      /\ y.uid = c.uid /\ y.groups = c.groups /\ y.bounding = c.bounding
      /\ y.nnp = c.nnp /\ y.keep = c.keep /\ y.refused = c.refused /\ y.filters = c.filters
      /\ y.groupsDenied = c.groupsDenied
  BY <1>3, <1>5, <1>6, <1>7, Sets
<1>9. /\ Typed(z) /\ z.effective = s.effective /\ z.permitted = s.permitted /\ z.inheritable = s.inheritable
      /\ z.uid = c.uid /\ z.groups = c.groups /\ z.bounding = c.bounding
      /\ z.nnp = c.nnp /\ z.keep = c.keep /\ z.refused = c.refused /\ z.filters = c.filters
      /\ z.groupsDenied = c.groupsDenied
  BY <1>4, <1>5, <1>6, <1>8, Sets
<1>10. d = [z EXCEPT !.ambient = s.ambient] /\ s.ambient \subseteq s.permitted \cap s.inheritable
  BY <1>4
<1>11. z \in CredStates /\ z.effective \subseteq z.permitted
  BY <1>9 DEF Typed
<1>12. /\ d \in CredStates /\ d.ambient = s.ambient /\ d.effective = z.effective /\ d.permitted = z.permitted
       /\ d.inheritable = z.inheritable /\ d.uid = z.uid /\ d.groups = z.groups /\ d.bounding = z.bounding
       /\ d.nnp = z.nnp /\ d.keep = z.keep /\ d.refused = z.refused /\ d.filters = z.filters
       /\ d.groupsDenied = z.groupsDenied
  BY <1>5, <1>10, <1>11 DEF CredStates
<1> QED
  BY <1>9, <1>10, <1>11, <1>12 DEF Typed

(* A credential of the next state is judged by the same configuration.     *)
LEMMA CredPrimed ==
  ASSUME config' = config
  PROVE  /\ Typed(cred') <=> Typed(cred)'
         /\ \A b \in BOOLEAN : Filters(cred', b) <=> Filters(cred, b)'
         /\ LoadedFirst' = LoadedFirst
BY DEF Typed, CredStates, Filters, LoadedFirst

LEMMA CredSame ==
  ASSUME CredInv, config' = config, cred' = cred,
         pc' \in {pc, "failed"} \/ {pc, pc'} \subseteq BeforePcs \cup {"limits"}
  PROVE  CredInv'
<1>1. Typed(cred)' /\ (Filters(cred, FALSE)' <=> Filters(cred, FALSE)) /\ LoadedFirst' = LoadedFirst
      /\ (Filters(cred, LoadedFirst)' <=> Filters(cred, LoadedFirst))
      /\ (Filters(cred, config.filter # {})' <=> Filters(cred, config.filter # {}))
  BY DEF CredInv, Typed, CredStates, Filters, LoadedFirst
<1>2. CASE pc' = pc
  BY <1>1, <1>2 DEF CredInv
<1>3. CASE pc' = "failed"
  BY <1>1, <1>3 DEF CredInv, BeforePcs, MountPcs
<1>4. CASE {pc, pc'} \subseteq BeforePcs \cup {"limits"}
  BY <1>1, <1>4 DEF CredInv, BeforePcs, MountPcs
<1> QED
  BY <1>2, <1>3, <1>4

LEMMA UnshareCred == ASSUME CredInv, Unshare PROVE CredInv'
<1>1. /\ config' = config /\ pc = "join" /\ pc' \in {"rootfs", "failed"}
      /\ cred' = cred \/ cred' \in WriteMappings(cred, config.mappings, config.asRoot)
  BY DEF Unshare, CredChange, GoOn
<1>2. CASE cred' = cred
  BY <1>1, <1>2, CredSame DEF BeforePcs
<1>3. CASE cred' \in WriteMappings(cred, config.mappings, config.asRoot)
  <2>1. cred' = [cred EXCEPT !.groupsDenied = ~config.asRoot]
    BY <1>3 DEF WriteMappings
  <2>2. cred \in CredStates /\ Typed(cred) /\ Filters(cred, FALSE) /\ (~config.asRoot) \in BOOLEAN
    BY <1>1 DEF CredInv, Typed, BeforePcs
  <2>3. /\ cred' \in CredStates /\ cred'.groupsDenied = ~config.asRoot
        /\ cred'.uid = cred.uid /\ cred'.groups = cred.groups /\ cred'.bounding = cred.bounding
        /\ cred'.permitted = cred.permitted /\ cred'.effective = cred.effective
        /\ cred'.inheritable = cred.inheritable /\ cred'.ambient = cred.ambient
        /\ cred'.nnp = cred.nnp /\ cred'.keep = cred.keep /\ cred'.refused = cred.refused
        /\ cred'.filters = cred.filters
    BY <2>1, <2>2 DEF CredStates
  <2>4. Typed(cred') /\ Filters(cred', FALSE)
    BY <2>2, <2>3 DEF Typed, Filters
  <2>5. Typed(cred)' /\ Filters(cred, FALSE)'
    BY <1>1, <2>4, CredPrimed
  <2> QED
    BY <1>1, <2>3, <2>5 DEF CredInv, BeforePcs, MountPcs
<1> QED
  BY <1>1, <1>2, <1>3

LEMMA LimitsCred == ASSUME CredInv, Limits PROVE CredInv'
<1>1. /\ config' = config /\ pc = "limits" /\ pc' \in {"filterFirst", "failed"} /\ cred' = cred
  BY DEF Limits, CredStep, CredChange, GoOn, ApplyLimits
<1>2. Typed(cred)' /\ (Filters(cred, FALSE)' <=> Filters(cred, FALSE))
  BY <1>1 DEF CredInv, Typed, CredStates, Filters
<1> QED
  BY <1>1, <1>2 DEF CredInv, BeforePcs, MountPcs

LEMMA FilterFirstCred == ASSUME NsInv, CredInv, FilterFirst PROVE CredInv'
<1>1. /\ config' = config /\ pc = "filterFirst" /\ pc' \in {"bounding", "failed"}
      /\ \/ cred' = cred /\ (pc' = "bounding" => ~LoadedFirst)
         \/ LoadedFirst /\ \E f \in config.filter : cred' \in ApplySeccomp(cred, f)
  BY DEF FilterFirst, CredStep, CredChange, GoOn, Filtered, LoadedFirst
<1>2. CASE pc' = "failed" /\ cred' = cred
  BY <1>1, <1>2, CredSame
<1>3. CASE pc' = "bounding" /\ cred' = cred /\ ~LoadedFirst
  <2>1. Typed(cred') /\ Filters(cred', LoadedFirst)
    BY <1>1, <1>3 DEF CredInv, Filters
  <2>2. Typed(cred)' /\ Filters(cred, LoadedFirst)'
    BY <1>1, <2>1 DEF Typed, CredStates, Filters, LoadedFirst
  <2> QED
    BY <1>1, <1>3, <2>2 DEF CredInv, BeforePcs, MountPcs
<1>4. CASE LoadedFirst /\ \E f \in config.filter : cred' \in ApplySeccomp(cred, f)
  <2>1. PICK f \in config.filter : cred' \in ApplySeccomp(cred, f)
    BY <1>4
  <2>2. config.filter = {f}
    BY ConfigsAssumption DEF NsInv
  <2>5. Typed(cred) /\ Filters(cred, FALSE)
    BY <1>1 DEF CredInv
  <2>3. /\ Typed(cred') /\ Filters(cred', TRUE)
        /\ cred'.uid = cred.uid /\ cred'.groups = cred.groups /\ cred'.bounding = cred.bounding
        /\ cred'.permitted = cred.permitted /\ cred'.effective = cred.effective
        /\ cred'.inheritable = cred.inheritable /\ cred'.ambient = cred.ambient
        /\ cred'.nnp = cred.nnp /\ cred'.keep = cred.keep /\ cred'.groupsDenied = cred.groupsDenied
    BY <2>1, <2>2, <2>5, Loads
  <2>4. Typed(cred)' /\ Filters(cred, LoadedFirst)'
    BY <1>1, <1>4, <2>3 DEF Typed, CredStates, Filters, LoadedFirst
  <2> QED
    BY <1>1, <2>3, <2>4 DEF CredInv, BeforePcs, MountPcs
<1> QED
  BY <1>1, <1>2, <1>3, <1>4

LEMMA BoundingCred == ASSUME NsInv, CredInv, Bounding PROVE CredInv'
<1>1. /\ config' = config /\ pc = "bounding" /\ pc' \in {"ids", "failed"}
      /\ \/ cred' = cred /\ (pc' = "ids" => config.caps = {})
         \/ \E c \in config.caps : cred' \in DropBounding(cred, c)
  BY DEF Bounding, CredStep, CredChange, GoOn
<1>2. CASE pc' = "failed" /\ cred' = cred
  BY <1>1, <1>2, CredSame
<1>3. CASE pc' = "ids" /\ cred' = cred /\ config.caps = {}
  <2>1. Typed(cred)' /\ Filters(cred, LoadedFirst)'
    BY <1>1, <1>3 DEF CredInv, Typed, CredStates, Filters, LoadedFirst
  <2> QED
    BY <1>1, <1>3, <2>1 DEF CredInv, BeforePcs, MountPcs
<1>4. CASE \E c \in config.caps : cred' \in DropBounding(cred, c)
  <2>1. PICK c \in config.caps : cred' \in DropBounding(cred, c)
    BY <1>4
  <2>2. config.caps = {c} /\ c.bounding \subseteq Caps
    BY CapSetsAre DEF NsInv
  <2>3. cred \in CredStates /\ Typed(cred) /\ cred.bounding = Caps /\ Filters(cred, LoadedFirst)
    BY <1>1 DEF CredInv, Typed
  <2>4. /\ cred' \in CredStates /\ cred'.bounding = c.bounding
        /\ cred'.uid = cred.uid /\ cred'.groups = cred.groups
        /\ cred'.permitted = cred.permitted /\ cred'.effective = cred.effective
        /\ cred'.inheritable = cred.inheritable /\ cred'.ambient = cred.ambient
        /\ cred'.nnp = cred.nnp /\ cred'.keep = cred.keep /\ cred'.groupsDenied = cred.groupsDenied
        /\ cred'.refused = cred.refused /\ cred'.filters = cred.filters
    <3>1. CASE Caps \subseteq c.bounding
      <4>1. cred' = cred /\ c.bounding = Caps
        BY <2>1, <2>2, <2>3, <3>1 DEF DropBounding
      <4> QED
        BY <2>3, <4>1
    <3>2. CASE ~(Caps \subseteq c.bounding)
      <4>1. cred' = [cred EXCEPT !.bounding = @ \cap c.bounding]
        BY <2>1, <2>3, <3>2 DEF DropBounding
      <4>2. Caps \cap c.bounding = c.bounding /\ c.bounding \in SUBSET Caps
        BY <2>2
      <4>3. cred' = [cred EXCEPT !.bounding = c.bounding]
        BY <2>3, <4>1, <4>2 DEF CredStates
      <4> QED
        BY <2>3, <4>2, <4>3 DEF CredStates
    <3> QED
      BY <3>1, <3>2
  <2>5. Typed(cred') /\ Filters(cred', LoadedFirst)
    BY <2>3, <2>4 DEF Typed, Filters
  <2>6. Typed(cred)' /\ Filters(cred, LoadedFirst)'
    BY <1>1, <2>5 DEF Typed, CredStates, Filters, LoadedFirst
  <2>7. \A s \in config'.caps : cred'.bounding = s.bounding
    BY <1>1, <2>2, <2>4
  <2> QED
    BY <1>1, <2>4, <2>6, <2>7 DEF CredInv, BeforePcs, MountPcs
<1> QED
  BY <1>1, <1>2, <1>3, <1>4

LEMMA IdsCred == ASSUME NsInv, CredInv, Ids PROVE CredInv'
<1>1. /\ config' = config /\ pc = "ids" /\ pc' \in {"caps", "failed"}
      /\ (cred' = cred /\ pc' = "failed") \/ cred' \in DropPrivileges(cred, config)
  BY DEF Ids, CredStep, CredChange, GoOn
<1>2. CASE pc' = "failed" /\ cred' = cred
  BY <1>1, <1>2, CredSame
<1>3. CASE cred' \in DropPrivileges(cred, config)
  <2>1. Typed(cred) /\ ~cred.keep /\ cred.uid = "root" /\ config \in Configs
    BY <1>1 DEF CredInv, NsInv
  <2>2. /\ Typed(cred') /\ cred'.uid = config.uid /\ cred'.groups = config.groups /\ ~cred'.keep
        /\ cred'.bounding = cred.bounding /\ cred'.permitted = cred.permitted
        /\ cred'.inheritable = cred.inheritable
        /\ cred'.nnp = cred.nnp /\ cred'.refused = cred.refused /\ cred'.filters = cred.filters
        /\ cred'.groupsDenied = cred.groupsDenied
    BY <1>3, <2>1, Drops
  <2>3. Typed(cred)' /\ Filters(cred, LoadedFirst)'
    BY <1>1, <2>2 DEF CredInv, Typed, CredStates, Filters, LoadedFirst
  <2> QED
    BY <1>1, <2>2, <2>3 DEF CredInv, BeforePcs, MountPcs
<1> QED
  BY <1>1, <1>2, <1>3

LEMMA CapabilitiesCred == ASSUME NsInv, CredInv, Capabilities PROVE CredInv'
<1>1. /\ config' = config /\ pc = "caps" /\ pc' \in {"nnp", "failed"}
      /\ \/ cred' = cred /\ (pc' = "nnp" => config.caps = {})
         \/ \E c \in config.caps : cred' \in ApplyCaps(cred, c)
  BY DEF Capabilities, CredStep, CredChange, GoOn
<1>2. CASE pc' = "failed" /\ cred' = cred
  BY <1>1, <1>2, CredSame
<1>3. CASE pc' = "nnp" /\ cred' = cred /\ config.caps = {}
  <2>1. Typed(cred)' /\ Filters(cred, LoadedFirst)'
    BY <1>1, <1>3 DEF CredInv, Typed, CredStates, Filters, LoadedFirst
  <2> QED
    BY <1>1, <1>3, <2>1 DEF CredInv, BeforePcs, MountPcs
<1>4. CASE \E c \in config.caps : cred' \in ApplyCaps(cred, c)
  <2>1. PICK c \in config.caps : cred' \in ApplyCaps(cred, c)
    BY <1>4
  <2>2. config.caps = {c} /\ config \in Configs /\ Typed(cred)
    BY CapSetsAre DEF NsInv, CredInv
  <2>3. /\ Typed(cred') /\ cred'.effective = c.effective /\ cred'.permitted = c.permitted
        /\ cred'.inheritable = c.inheritable /\ cred'.ambient = c.ambient
        /\ cred'.uid = cred.uid /\ cred'.groups = cred.groups /\ cred'.bounding = cred.bounding
        /\ cred'.nnp = cred.nnp /\ cred'.keep = cred.keep /\ cred'.refused = cred.refused
        /\ cred'.filters = cred.filters /\ cred'.groupsDenied = cred.groupsDenied
    BY <2>1, <2>2, Applies
  <2>4. Typed(cred)' /\ Filters(cred, LoadedFirst)'
    BY <1>1, <2>3 DEF CredInv, Typed, CredStates, Filters, LoadedFirst
  <2>5. \A s \in config'.caps :
          /\ cred'.permitted = s.permitted /\ cred'.effective = s.effective
          /\ cred'.inheritable = s.inheritable /\ cred'.ambient = s.ambient
    BY <1>1, <2>2, <2>3
  <2> QED
    BY <1>1, <2>3, <2>4, <2>5 DEF CredInv, BeforePcs, MountPcs
<1> QED
  BY <1>1, <1>2, <1>3, <1>4

LEMMA NoNewPrivsCred == ASSUME NsInv, CredInv, NoNewPrivs PROVE CredInv'
<1>1. /\ config' = config /\ pc = "nnp" /\ pc' \in {"filterLast", "failed"}
      /\ \/ cred' = cred /\ (pc' = "filterLast" => config.nnp = FALSE)
         \/ config.nnp = TRUE /\ cred' = [cred EXCEPT !.nnp = TRUE]
  <2>1. config.nnp \in BOOLEAN
    BY ConfigsAssumption DEF NsInv
  <2> QED
    BY <2>1 DEF NoNewPrivs, CredStep, CredChange, GoOn, SetNoNewPrivs
<1>2. CASE pc' = "failed" /\ cred' = cred
  BY <1>1, <1>2, CredSame
<1>3. CASE pc' = "filterLast" /\ cred' = cred /\ config.nnp = FALSE
  <2>1. Typed(cred)' /\ Filters(cred, LoadedFirst)' /\ cred.nnp \in BOOLEAN
    BY <1>1, <1>3 DEF CredInv, Typed, CredStates, Filters, LoadedFirst
  <2> QED
    BY <1>1, <1>3, <2>1 DEF CredInv, BeforePcs, MountPcs
<1>4. CASE config.nnp = TRUE /\ cred' = [cred EXCEPT !.nnp = TRUE]
  <2>1. cred \in CredStates /\ Typed(cred)
    BY DEF CredInv, Typed
  <2>2. /\ cred' \in CredStates /\ cred'.nnp = TRUE
        /\ cred'.uid = cred.uid /\ cred'.groups = cred.groups /\ cred'.bounding = cred.bounding
        /\ cred'.permitted = cred.permitted /\ cred'.effective = cred.effective
        /\ cred'.inheritable = cred.inheritable /\ cred'.ambient = cred.ambient
        /\ cred'.keep = cred.keep /\ cred'.groupsDenied = cred.groupsDenied
        /\ cred'.refused = cred.refused /\ cred'.filters = cred.filters
    BY <1>4, <2>1 DEF CredStates
  <2>3. Typed(cred)' /\ Filters(cred, LoadedFirst)'
    BY <1>1, <2>1, <2>2 DEF CredInv, Typed, CredStates, Filters, LoadedFirst
  <2> QED
    BY <1>1, <1>4, <2>2, <2>3 DEF CredInv, BeforePcs, MountPcs
<1> QED
  BY <1>1, <1>2, <1>3, <1>4

LEMMA FilterLastCred == ASSUME NsInv, CredInv, FilterLast PROVE CredInv'
<1>1. /\ config' = config /\ pc = "filterLast" /\ pc' \in {"ready", "failed"}
      /\ \/ cred' = cred /\ (pc' = "ready" => (config.filter # {} <=> LoadedFirst))
         \/ config.nnp /\ \E f \in config.filter : cred' \in ApplySeccomp(cred, f)
  BY DEF FilterLast, CredStep, CredChange, GoOn, Filtered, LoadedFirst
<1>2. CASE pc' = "failed" /\ cred' = cred
  BY <1>1, <1>2, CredSame
<1>3. CASE pc' = "ready" /\ cred' = cred /\ (config.filter # {} <=> LoadedFirst)
  <2>1. Typed(cred)' /\ Filters(cred, config.filter # {})'
    BY <1>1, <1>3 DEF CredInv, Typed, CredStates, Filters
  <2> QED
    BY <1>1, <1>3, <2>1 DEF CredInv, BeforePcs, MountPcs
<1>4. CASE config.nnp /\ \E f \in config.filter : cred' \in ApplySeccomp(cred, f)
  <2>1. PICK f \in config.filter : cred' \in ApplySeccomp(cred, f)
    BY <1>4
  <2>2. config.filter = {f} /\ Typed(cred) /\ Filters(cred, FALSE)
    <3>1. config.filter = {f}
      BY ConfigsAssumption DEF NsInv
    <3>2. LoadedFirst = FALSE
      BY <1>4 DEF LoadedFirst
    <3>3. Filters(cred, LoadedFirst) /\ Typed(cred)
      BY <1>1 DEF CredInv
    <3> QED
      BY <3>1, <3>2, <3>3 DEF Filters
  <2>3. /\ Typed(cred') /\ Filters(cred', TRUE)
        /\ cred'.uid = cred.uid /\ cred'.groups = cred.groups /\ cred'.bounding = cred.bounding
        /\ cred'.permitted = cred.permitted /\ cred'.effective = cred.effective
        /\ cred'.inheritable = cred.inheritable /\ cred'.ambient = cred.ambient
        /\ cred'.nnp = cred.nnp /\ cred'.keep = cred.keep /\ cred'.groupsDenied = cred.groupsDenied
    BY <2>1, <2>2, Loads
  <2>4. Typed(cred)' /\ Filters(cred, config.filter # {})'
    BY <1>1, <2>1, <2>3 DEF Typed, CredStates, Filters
  <2> QED
    BY <1>1, <2>3, <2>4 DEF CredInv, BeforePcs, MountPcs
<1> QED
  BY <1>1, <1>2, <1>3, <1>4

LEMMA CredNext == ASSUME NsInv, CredInv, [Next]_vars PROVE CredInv'
<1>1. CASE MountMove
  BY <1>1, MountMoves, CredSame DEF BeforePcs
<1>2. CASE Plan \/ JoinOne \/ Rootfs \/ Identity
  BY <1>2, OtherMoves, CredSame DEF BeforePcs, MountPcs
<1>3. CASE UNCHANGED vars
  BY <1>3, CredSame DEF vars
<1>4. CASE CredMove
  BY <1>4, LimitsCred, FilterFirstCred, BoundingCred, IdsCred, CapabilitiesCred, NoNewPrivsCred, FilterLastCred
  DEF CredMove
<1> QED
  BY <1>1, <1>2, <1>3, <1>4, UnshareCred, Moves

(* The invariant says what the program starts with.                        *)
LEMMA CredExact == ASSUME NsInv, CredInv PROVE IdentityExact
<1> SUFFICES ASSUME pc = "ready" PROVE IdentityExact
  BY DEF IdentityExact
<1>1. Filters(cred, config.filter # {})
  BY DEF CredInv
<1>2. cred.filters = Cardinality(config.filter)
  <2>1. CASE config.filter = {}
    BY <1>1, <2>1, FS_EmptySet DEF Filters
  <2>2. CASE config.filter # {}
    <3>1. PICK f \in config.filter : config.filter = {f}
      BY <2>2, ConfigsAssumption DEF NsInv
    <3>2. Cardinality({f}) = 1
      BY FS_Singleton
    <3> QED
      BY <1>1, <3>1, <3>2 DEF Filters
  <2> QED
    BY <2>1, <2>2
<1>3. \A f \in config.filter : cred.refused = f.refused
  BY <1>1 DEF Filters
<1> QED
  BY <1>2, <1>3 DEF IdentityExact, CredInv

-----------------------------------------------------------------------------
(* The mounts: each step goes on with a result of its operation, or fails  *)
(* because there is none.                                                  *)

LEMMA MountAllIs ==
  ASSUME MountAll
  PROVE  /\ pc = "mounts"
         /\ \/ /\ done < Len(config.mounts) /\ done' = done + 1 /\ pc' = "mounts"
               /\ mnt' \in ApplyOne(mnt, config.mounts[done + 1])
            \/ /\ done < Len(config.mounts) /\ pc' = "failed" /\ mnt' = mnt /\ done' = done + 1
               /\ ApplyOne(mnt, config.mounts[done + 1]) = {}
            \/ done = Len(config.mounts) /\ done' = 0 /\ pc' = "devices" /\ mnt' = mnt
BY DEF MountAll, Loop, MountChange, GoOn

LEMMA CreateDevicesIs ==
  ASSUME CreateDevices
  PROVE  /\ pc = "devices"
         /\ \/ /\ done < Len(Nodes) /\ done' = done + 1 /\ pc' = "devices"
               /\ mnt' \in CreateOne(mnt, Nodes[done + 1], Bound)
            \/ /\ done < Len(Nodes) /\ pc' = "failed" /\ mnt' = mnt /\ done' = done + 1
               /\ CreateOne(mnt, Nodes[done + 1], Bound) = {}
            \/ done = Len(Nodes) /\ done' = 0 /\ pc' = "pivot" /\ mnt' = mnt
BY DEF CreateDevices, Loop, MountChange, GoOn

LEMMA MaskIs ==
  ASSUME Mask
  PROVE  /\ pc = "mask"
         /\ \/ /\ done < Len(config.masked) /\ done' = done + 1 /\ pc' = "mask"
               /\ mnt' \in MaskOne(mnt, config.masked[done + 1])
            \/ /\ done < Len(config.masked) /\ pc' = "failed" /\ mnt' = mnt /\ done' = done + 1
               /\ MaskOne(mnt, config.masked[done + 1]) = {}
            \/ done = Len(config.masked) /\ done' = 0 /\ pc' = "readonly" /\ mnt' = mnt
BY DEF Mask, Loop, MountChange, GoOn

LEMMA ReadonlyIs ==
  ASSUME Readonly
  PROVE  /\ pc = "readonly"
         /\ \/ /\ done < Len(config.readonly) /\ done' = done + 1 /\ pc' = "readonly"
               /\ mnt' \in ReadonlyOne(mnt, config.readonly[done + 1])
            \/ /\ done < Len(config.readonly) /\ pc' = "failed" /\ mnt' = mnt /\ done' = done + 1
               /\ ReadonlyOne(mnt, config.readonly[done + 1]) = {}
            \/ done = Len(config.readonly) /\ done' = 0 /\ pc' = "tmpfs" /\ mnt' = mnt
BY DEF Readonly, Loop, MountChange, GoOn

LEMMA TmpfsIs ==
  ASSUME Tmpfs
  PROVE  /\ pc = "tmpfs"
         /\ \/ /\ done < Len(config.mounts) /\ done' = done + 1 /\ pc' = "tmpfs"
               /\ mnt' \in RemountTmpfs(mnt, config.mounts[done + 1])
            \/ /\ done < Len(config.mounts) /\ pc' = "failed" /\ mnt' = mnt /\ done' = done + 1
               /\ RemountTmpfs(mnt, config.mounts[done + 1]) = {}
            \/ done = Len(config.mounts) /\ done' = 0 /\ pc' = "roRoot" /\ mnt' = mnt
BY DEF Tmpfs, Loop, MountChange, GoOn

Pivoted == UNION {SetPropagation(t, config.propagation) : t \in Pivot(mnt)}

LEMMA PivotRootIs ==
  ASSUME PivotRoot
  PROVE  /\ pc = "pivot" /\ done' = done
         /\ \/ pc' = "console" /\ mnt' \in Pivoted
            \/ pc' = "failed" /\ mnt' = mnt /\ Pivoted = {}
BY DEF PivotRoot, MountStep, MountChange, GoOn, Pivoted

LEMMA ConsoleIs ==
  ASSUME Console
  PROVE  /\ pc = "console" /\ done' = done
         /\ \/ pc' = "identity" /\ mnt' \in (IF config.console THEN SetupConsole(mnt) ELSE {mnt})
            \/ pc' = "failed" /\ mnt' = mnt /\ (IF config.console THEN SetupConsole(mnt) ELSE {mnt}) = {}
BY DEF Console, MountStep, MountChange, GoOn

LEMMA RootReadonlyIs ==
  ASSUME RootReadonly
  PROVE  /\ pc = "roRoot" /\ done' = done
         /\ \/ pc' = "limits" /\ mnt' \in (IF config.roRoot THEN ReadonlyRootfs(mnt) ELSE {mnt})
            \/ pc' = "failed" /\ mnt' = mnt /\ (IF config.roRoot THEN ReadonlyRootfs(mnt) ELSE {mnt}) = {}
BY DEF RootReadonly, MountStep, MountChange, GoOn

PlainView == [p \in Paths |-> [id |-> <<0>>, fs |-> "image", ro |-> FALSE, unbindable |-> FALSE]]

(* The root file system as it is before anything is mounted.               *)
Plain(s) ==
  /\ s \in MountStates /\ s.view = PlainView /\ s.exists = {<<>>} \cup Provides["image"] /\ s.next = 1
  /\ s.propagated = FALSE /\ s.devicesOwned = FALSE

LEMMA UntouchedPlain == Plain(Untouched)
<1>1. <<0>> \in Seq(Nat) /\ "image" \in Systems
  BY ProvidesAssumption
<1>2. PlainView \in [Paths -> Views]
  BY <1>1 DEF PlainView, Views
<1>3. {<<>>} \cup Provides["image"] \subseteq Paths
  BY PathsAssumption, ProvidesAssumption
<1>4. Untouched = [view |-> PlainView, exists |-> {<<>>} \cup Provides["image"], next |-> 1, private |-> FALSE,
                   root |-> "none", propagated |-> FALSE, devicesOwned |-> FALSE]
  BY DEF Untouched, PlainView
<1>5. Untouched \in MountStates
  BY <1>2, <1>3, <1>4 DEF MountStates
<1> QED
  BY <1>4, <1>5 DEF Plain

LEMMA RootfsIs ==
  ASSUME Rootfs, mnt = Untouched
  PROVE  /\ pc = "rootfs" /\ done' = done /\ UNCHANGED <<config, left, ns, cred, settings>>
         /\ OwnMounts => pc' \in {"mounts", "failed"} /\ Plain(mnt') /\ mnt'.private /\ mnt'.root = "mounted"
         /\ ~OwnMounts => pc' \in {"identity", "failed"} /\ mnt' = mnt
<1>1. pc = "rootfs" /\ done' = done /\ UNCHANGED <<config, left, ns, cred, settings>>
  BY DEF Rootfs
<1>2. mnt' \in IF OwnMounts THEN UNION {MakeMountPoint(t) : t \in MakeRootPrivate(mnt)} ELSE {mnt}
  BY DEF Rootfs
<1>3. /\ OwnMounts => pc' \in {"mounts", "failed"}
      /\ ~OwnMounts => pc' \in {"identity", "failed"}
  BY DEF Rootfs, GoOn
<1>4. ASSUME OwnMounts PROVE Plain(mnt') /\ mnt'.private /\ mnt'.root = "mounted"
  <2> DEFINE u == [Untouched EXCEPT !.private = TRUE]
  <2>1. mnt' = [u EXCEPT !.root = "mounted", !.propagated = Propagates(u)]
    BY <1>2, <1>4 DEF MakeMountPoint, MakeRootPrivate
  <2>2. Plain(u) /\ u.private
    BY UntouchedPlain DEF Plain, MountStates
  <2> HIDE DEF u
  <2>3. Propagates(u) = FALSE
    BY <2>2 DEF Propagates, Plain
  <2> QED
    BY <2>1, <2>2, <2>3 DEF Plain, MountStates
<1> QED
  BY <1>1, <1>2, <1>3, <1>4

LEMMA PlainGood ==
  ASSUME NEW s, Plain(s)
  PROVE  /\ Good(s) /\ Origin(s)
         /\ \A p \in Paths : s.view[p] = [id |-> <<0>>, fs |-> "image", ro |-> FALSE, unbindable |-> FALSE]
<1>1. s.view = PlainView /\ s.exists = {<<>>} \cup Provides["image"] /\ s.next = 1 /\ s \in MountStates
  BY DEF Plain
<1>2. \A p \in Paths : s.view[p] = [id |-> <<0>>, fs |-> "image", ro |-> FALSE, unbindable |-> FALSE]
  BY <1>1 DEF PlainView
<1>5. Closed(s)
  <2> SUFFICES ASSUME NEW p \in s.exists, NEW q \in Paths, IsPrefix(q, p) PROVE q \in s.exists
    BY <1>1 DEF Closed
  <2>1. q \in Seq(STRING) /\ Len(q) \in Nat /\ p \in Paths /\ p \in Seq(STRING)
    BY <1>1, PathsAre, LenProperties DEF MountStates
  <2>2. Len(q) <= Len(p) /\ \A i \in 1 .. Len(q) : q[i] = p[i]
    BY <2>1, PrefixMeans
  <2>3. CASE p = <<>>
    <3>1. Len(q) = 0
      BY <2>1, <2>2, <2>3
    <3> QED
      BY <1>1, <2>1, <3>1, EmptySeq
  <2>4. CASE p \in Provides["image"]
    <3>1. CASE q = <<>>
      BY <1>1, <3>1
    <3>2. CASE q # <<>>
      <4>1. Len(q) \in 1 .. Len(p) /\ Len(q) \in 0 .. Len(p)
        BY <2>1, <2>2, <3>2, EmptySeq, LenProperties
      <4>2. /\ SubSeq(p, 1, Len(q)) \in Seq(STRING) /\ Len(SubSeq(p, 1, Len(q))) = Len(q)
            /\ \A i \in 1 .. Len(q) : SubSeq(p, 1, Len(q))[i] = p[i]
        BY <2>1, <4>1, Cut
      <4>3. SubSeq(p, 1, Len(q)) = q
        BY <2>1, <2>2, <4>2, SeqEqual
      <4>4. SubSeq(p, 1, Len(q)) \in Provides["image"]
        BY <2>4, <4>1, ProvidesAssumption
      <4> QED
        BY <1>1, <4>3, <4>4
    <3> QED
      BY <3>1, <3>2
  <2> QED
    BY <1>1, <2>3, <2>4
<1>6. Fresh(s)
  <2> SUFFICES ASSUME NEW p \in Paths, NEW i \in 1 .. Len(s.view[p].id) PROVE s.view[p].id[i] < s.next
    BY DEF Fresh
  <2>1. s.view[p].id = <<0>>
    BY <1>2
  <2>2. i = 1
    BY <2>1
  <2> QED
    BY <1>1, <2>1, <2>2
<1>7. Origin(s)
  BY <1>2 DEF Origin
<1> QED
  BY <1>1, <1>2, <1>5, <1>6, <1>7 DEF Good

-----------------------------------------------------------------------------
(* The invariant of the mounts.                                            *)

OwnerAsked ==
  (\E i \in DOMAIN config.extra : config.extra[i].owned) /\ (Bound \/ HostMounted)

MntInv ==
  /\ Good(mnt) /\ ~mnt.propagated /\ done \in Nat
  /\ pc \in {"plan", "join", "rootfs"} => mnt = Untouched
  /\ pc \in MountPcs => OwnMounts
  /\ pc \in MountPcs \cup {"identity"} => (OwnMounts => mnt.private)
  /\ pc \notin {"mounts", "devices", "mask", "readonly", "tmpfs", "failed"} => done = 0
  /\ pc = "mounts" => done <= Len(config.mounts)
  /\ pc = "devices" => done <= Len(Nodes)
  /\ pc = "mask" => done <= Len(config.masked)
  /\ pc = "readonly" => done <= Len(config.readonly)
  /\ pc = "tmpfs" => done <= Len(config.mounts)
  /\ pc \in {"mounts", "devices"} => Origin(mnt)
  /\ mnt.devicesOwned => OwnerAsked

(* What is hardened so far.                                                *)
Masked(s, n) == \A i \in 1 .. n : \A p \in Under(config.masked[i]) \cap s.exists : s.view[p].fs = "masked"

ReadonlyTo(s, n) == \A i \in 1 .. n : config.readonly[i] \in s.exists => s.view[config.readonly[i]].ro

TmpfsTo(s, n) == \A i \in 1 .. n : ReadonlyTmpfs(i) => s.view[Destination(i)].ro

MaskedAll(s) == Masked(s, Len(config.masked))

ReadonlyAll(s) == MaskedAll(s) /\ ReadonlyTo(s, Len(config.readonly))

TmpfsAll(s) == ReadonlyAll(s) /\ TmpfsTo(s, Len(config.mounts))

HardInv ==
  /\ pc = "mask" => Masked(mnt, done)
  /\ pc = "readonly" => MaskedAll(mnt) /\ ReadonlyTo(mnt, done)
  /\ pc = "tmpfs" => ReadonlyAll(mnt) /\ TmpfsTo(mnt, done)
  /\ pc = "roRoot" => TmpfsAll(mnt)
  /\ pc \in CredPcs \cup {"ready"} /\ OwnMounts => TmpfsAll(mnt) /\ (config.roRoot => mnt.view[<<>>].ro)

LEMMA Lengths ==
  ASSUME config \in Configs
  PROVE  /\ Len(config.mounts) \in Nat /\ Len(config.masked) \in Nat /\ Len(config.readonly) \in Nat
         /\ Len(Nodes) \in Nat
         /\ DOMAIN config.masked = 1 .. Len(config.masked) /\ DOMAIN config.readonly = 1 .. Len(config.readonly)
         /\ \A i \in 1 .. Len(config.masked) : config.masked[i] \in Paths
         /\ \A i \in 1 .. Len(config.readonly) : config.readonly[i] \in Paths
         /\ \A i \in 1 .. Len(Nodes) :
              /\ Nodes[i] \in [path : Paths, owned : BOOLEAN]
              /\ Nodes[i].owned => \E j \in DOMAIN config.extra : config.extra[j].owned
<1> DEFINE D == [path : Paths, owned : BOOLEAN]
<1>1. config.masked \in Seq(Paths) /\ config.readonly \in Seq(Paths) /\ config.extra \in Seq(D) /\ Len(config.mounts) \in Nat
  BY ConfigsAssumption
<1>2. /\ Len(config.masked) \in Nat /\ Len(config.readonly) \in Nat /\ Len(config.extra) \in Nat
      /\ DOMAIN config.masked = 1 .. Len(config.masked) /\ DOMAIN config.readonly = 1 .. Len(config.readonly)
      /\ DOMAIN config.extra = 1 .. Len(config.extra)
  BY <1>1, LenProperties
<1>3. /\ \A i \in 1 .. Len(config.masked) : config.masked[i] \in Paths
      /\ \A i \in 1 .. Len(config.readonly) : config.readonly[i] \in Paths
      /\ \A i \in 1 .. Len(config.extra) : config.extra[i] \in D
  BY <1>1, ElementOfSeq
<1> DEFINE null == [path |-> <<"dev", "null">>, owned |-> FALSE]
<1>4. null \in D /\ ~null.owned
  BY NamedPaths
<1> HIDE DEF null, D
<1>5. <<null>> \in Seq(D) /\ Len(<<null>>) = 1 /\ <<null>>[1] = null
  BY <1>4
<1>6. /\ Len(<<null>> \o config.extra) = 1 + Len(config.extra)
      /\ \A i \in 1 .. 1 + Len(config.extra) :
           (<<null>> \o config.extra)[i] = IF i <= 1 THEN <<null>>[i] ELSE config.extra[i - 1]
  BY <1>1, <1>5, ConcatProperties
<1>7. Nodes = <<null>> \o config.extra
  BY DEF Nodes, Devices, null
<1>8. ASSUME NEW i \in 1 .. Len(Nodes)
      PROVE  Nodes[i] \in D /\ (Nodes[i].owned => \E j \in DOMAIN config.extra : config.extra[j].owned)
  <2>1. CASE i <= 1
    <3>1. Nodes[i] = null
      BY <1>2, <1>5, <1>6, <1>7, <2>1
    <3> QED
      BY <1>4, <3>1
  <2>2. CASE ~(i <= 1)
    <3>1. i - 1 \in 1 .. Len(config.extra) /\ Nodes[i] = config.extra[i - 1]
      BY <1>2, <1>6, <1>7, <2>2
    <3> QED
      BY <1>2, <1>3, <3>1
  <2> QED
    BY <2>1, <2>2
<1> QED
  BY <1>1, <1>2, <1>3, <1>6, <1>7, <1>8 DEF D

LEMMA Tightened ==
  ASSUME NEW s, NEW t, Tightens(s, t), config \in Configs
  PROVE  /\ \A n \in 0 .. Len(config.masked) : Masked(s, n) => Masked(t, n)
         /\ \A n \in 0 .. Len(config.readonly) : ReadonlyTo(s, n) => ReadonlyTo(t, n)
         /\ \A n \in 0 .. Len(config.mounts) : TmpfsTo(s, n) => TmpfsTo(t, n)
         /\ (MaskedAll(s) => MaskedAll(t)) /\ (ReadonlyAll(s) => ReadonlyAll(t))
<1>1. t.exists = s.exists /\ \A p \in Paths : t.view[p].fs = s.view[p].fs /\ (s.view[p].ro => t.view[p].ro)
  BY DEF Tightens
<1>2. ASSUME NEW n \in 0 .. Len(config.masked), Masked(s, n) PROVE Masked(t, n)
  BY <1>1, <1>2 DEF Masked, Under
<1>3. ASSUME NEW n \in 0 .. Len(config.readonly), ReadonlyTo(s, n) PROVE ReadonlyTo(t, n)
  <2>1. \A i \in 1 .. n : config.readonly[i] \in Paths
    BY Lengths
  <2> QED
    BY <1>1, <1>3, <2>1 DEF ReadonlyTo
<1>4. ASSUME NEW n \in 0 .. Len(config.mounts), TmpfsTo(s, n) PROVE TmpfsTo(t, n)
  <2>1. \A i \in 1 .. n : Destination(i) \in Paths
    BY Lengths, Entry
  <2> QED
    BY <1>1, <1>4, <2>1 DEF TmpfsTo
<1>5. Len(config.masked) \in 0 .. Len(config.masked) /\ Len(config.readonly) \in 0 .. Len(config.readonly)
  BY Lengths
<1> QED
  BY <1>2, <1>3, <1>4, <1>5 DEF MaskedAll, ReadonlyAll

(* Under the same configuration what was said of a state still is.         *)
LEMMA MntPrimed ==
  ASSUME config' = config
  PROVE  /\ OwnMounts' = OwnMounts /\ Nodes' = Nodes /\ Bound' = Bound /\ OwnerAsked' = OwnerAsked
         /\ Origin(mnt)' = Origin(mnt') /\ Good(mnt)' = Good(mnt')
         /\ Masked(mnt, done)' = Masked(mnt', done') /\ ReadonlyTo(mnt, done)' = ReadonlyTo(mnt', done')
         /\ TmpfsTo(mnt, done)' = TmpfsTo(mnt', done')
         /\ MaskedAll(mnt)' = MaskedAll(mnt') /\ ReadonlyAll(mnt)' = ReadonlyAll(mnt')
         /\ TmpfsAll(mnt)' = TmpfsAll(mnt')
<1>1. /\ OwnMounts' = OwnMounts /\ Nodes' = Nodes /\ Bound' = Bound
  BY DEF OwnMounts, Nodes, Devices, Bound
<1>2. OwnerAsked' = OwnerAsked
  BY DEF OwnerAsked, Bound, HostMounted
<1>3. Origin(mnt)' = Origin(mnt') /\ Good(mnt)' = Good(mnt')
  BY DEF Origin, Good, Closed, Fresh, Bound, HostMounted
<1>4. Masked(mnt, done)' = Masked(mnt', done') /\ ReadonlyTo(mnt, done)' = ReadonlyTo(mnt', done')
      /\ TmpfsTo(mnt, done)' = TmpfsTo(mnt', done')
  BY DEF Masked, ReadonlyTo, TmpfsTo, ReadonlyTmpfs, Destination
<1>5. MaskedAll(mnt)' = MaskedAll(mnt')
  BY DEF Masked, MaskedAll
<1>6. ReadonlyAll(mnt)' = ReadonlyAll(mnt')
  BY <1>5 DEF ReadonlyAll, ReadonlyTo
<1>7. TmpfsAll(mnt)' = TmpfsAll(mnt')
  BY <1>6 DEF TmpfsAll, TmpfsTo, ReadonlyTmpfs, Destination
<1> QED
  BY <1>1, <1>2, <1>3, <1>4, <1>5, <1>6, <1>7

LEMMA MountSame ==
  ASSUME MntInv, HardInv, config' = config, mnt' = mnt,
         \/ pc' = pc /\ done' = done
         \/ pc' = "failed" /\ done' \in Nat
         \/ {pc, pc'} \subseteq {"plan", "join", "rootfs"} /\ done' = done
         \/ {pc, pc'} \subseteq CredPcs \cup {"ready"} /\ done' = done
  PROVE  MntInv' /\ HardInv'
<1>1. /\ OwnMounts' = OwnMounts /\ Nodes' = Nodes /\ OwnerAsked' = OwnerAsked
      /\ Origin(mnt)' = Origin(mnt) /\ Good(mnt)' = Good(mnt)
      /\ MaskedAll(mnt)' = MaskedAll(mnt) /\ ReadonlyAll(mnt)' = ReadonlyAll(mnt)
      /\ TmpfsAll(mnt)' = TmpfsAll(mnt)
  BY MntPrimed
<1>2. Untouched' = Untouched
  BY DEF Untouched
<1>3. done' = done => /\ Masked(mnt, done)' = Masked(mnt, done) /\ ReadonlyTo(mnt, done)' = ReadonlyTo(mnt, done)
                      /\ TmpfsTo(mnt, done)' = TmpfsTo(mnt, done)
  BY MntPrimed
<1>4. CASE pc' = pc /\ done' = done
  BY <1>1, <1>3, <1>4 DEF MntInv, HardInv
<1>5. CASE pc' = "failed" /\ done' \in Nat
  BY <1>1, <1>5 DEF MntInv, HardInv, MountPcs, CredPcs
<1>6. CASE {pc, pc'} \subseteq {"plan", "join", "rootfs"} /\ done' = done
  BY <1>1, <1>6 DEF MntInv, HardInv, MountPcs, CredPcs
<1>7. CASE {pc, pc'} \subseteq CredPcs \cup {"ready"} /\ done' = done
  BY <1>1, <1>7 DEF MntInv, HardInv, MountPcs, CredPcs
<1> QED
  BY <1>4, <1>5, <1>6, <1>7

LEMMA RootfsMnt == ASSUME MntInv, HardInv, Rootfs PROVE MntInv' /\ HardInv'
<1>1. mnt = Untouched /\ done = 0 /\ pc = "rootfs"
  BY RootfsIs DEF MntInv, Rootfs
<1>2. /\ done' = 0 /\ config' = config
      /\ OwnMounts => pc' \in {"mounts", "failed"} /\ Plain(mnt') /\ mnt'.private /\ mnt'.root = "mounted"
      /\ ~OwnMounts => pc' \in {"identity", "failed"} /\ mnt' = mnt
  BY <1>1, RootfsIs
<1>3. OwnMounts => Good(mnt') /\ Origin(mnt') /\ mnt'.propagated = FALSE /\ mnt'.devicesOwned = FALSE
  BY <1>2, PlainGood DEF Plain
<1>4. ~OwnMounts => Good(mnt') /\ mnt'.propagated = FALSE /\ mnt'.devicesOwned = FALSE
  BY <1>1, <1>2, UntouchedPlain, PlainGood DEF Plain
<1>5. OwnMounts' = OwnMounts /\ OwnerAsked' = OwnerAsked /\ Origin(mnt)' = Origin(mnt') /\ Good(mnt)' = Good(mnt')
  BY <1>2, MntPrimed
<1>6. CASE OwnMounts
  <2>1. CASE pc' = "mounts"
    <3>1. Len(config.mounts)' = Len(config.mounts)
      BY <1>2
    <3>2. 0 <= Len(config.mounts) \/ config \notin Configs
      BY Lengths
    <3> QED
      BY <1>2, <1>3, <1>5, <1>6, <2>1, <3>1, <3>2 DEF MntInv, HardInv, MountPcs, CredPcs
  <2>2. CASE pc' = "failed"
    BY <1>2, <1>3, <1>5, <1>6, <2>2 DEF MntInv, HardInv, MountPcs, CredPcs
  <2> QED
    BY <1>2, <1>6, <2>1, <2>2
<1>7. CASE ~OwnMounts
  BY <1>2, <1>4, <1>5, <1>7 DEF MntInv, HardInv, MountPcs, CredPcs
<1> QED
  BY <1>6, <1>7

LEMMA IdentityMnt == ASSUME config \in Configs, MntInv, HardInv, Identity PROVE MntInv' /\ HardInv'
<1>1. /\ pc = "identity" /\ UNCHANGED <<config, mnt, done>>
      /\ pc' \in {"failed"} \cup IF OwnMounts THEN {"mask"} ELSE {"limits"}
  BY DEF Identity, GoOn
<1>2. done = 0 /\ 0 <= Len(config.masked)
  BY <1>1, Lengths DEF MntInv, MountPcs
<1>3. Masked(mnt, 0)
  BY DEF Masked
<1>4. /\ OwnMounts' = OwnMounts /\ OwnerAsked' = OwnerAsked /\ Good(mnt)' = Good(mnt)
      /\ Masked(mnt, done)' = Masked(mnt, done)
  BY <1>1, MntPrimed
<1>5. CASE pc' = "mask"
  BY <1>1, <1>2, <1>3, <1>4, <1>5 DEF MntInv, HardInv, MountPcs, CredPcs
<1>6. CASE pc' \in {"failed", "limits"}
  BY <1>1, <1>2, <1>4, <1>6 DEF MntInv, HardInv, MountPcs, CredPcs
<1> QED
  BY <1>1, <1>5, <1>6

LEMMA MountAllMnt == ASSUME config \in Configs, MntInv, HardInv, MountAll PROVE MntInv' /\ HardInv'
<1>1. config' = config /\ pc = "mounts"
  BY MountMoves, MountAllIs DEF MountMove
<1>2. /\ Good(mnt) /\ ~mnt.propagated /\ done \in Nat /\ OwnMounts /\ mnt.private /\ Origin(mnt)
      /\ done <= Len(config.mounts) /\ (mnt.devicesOwned => OwnerAsked)
  BY <1>1 DEF MntInv, MountPcs
<1>3. Len(config.mounts) \in Nat /\ Len(Nodes) \in Nat
  BY Lengths
<1>4. /\ OwnMounts' = OwnMounts /\ Nodes' = Nodes /\ OwnerAsked' = OwnerAsked
      /\ Origin(mnt)' = Origin(mnt') /\ Good(mnt)' = Good(mnt')
  BY <1>1, MntPrimed
<1>5. CASE /\ done < Len(config.mounts) /\ done' = done + 1 /\ pc' = "mounts"
           /\ mnt' \in ApplyOne(mnt, config.mounts[done + 1])
  <2>1. done + 1 \in 1 .. Len(config.mounts)
    BY <1>2, <1>3, <1>5
  <2>2. Good(mnt') /\ Steady(mnt, mnt') /\ Origin(mnt')
    BY <1>2, <1>5, <2>1, ApplyKeeps
  <2>3. mnt'.private = mnt.private /\ ~mnt'.propagated /\ mnt'.devicesOwned = mnt.devicesOwned
    BY <1>2, <2>2 DEF Steady
  <2> QED
    BY <1>1, <1>2, <1>4, <1>5, <2>1, <2>2, <2>3 DEF MntInv, HardInv, MountPcs, CredPcs
<1>6. CASE pc' = "failed" /\ mnt' = mnt /\ done' = done + 1
  BY <1>1, <1>2, <1>6, MountSame
<1>7. CASE done' = 0 /\ pc' = "devices" /\ mnt' = mnt
  BY <1>1, <1>2, <1>3, <1>4, <1>7 DEF MntInv, HardInv, MountPcs, CredPcs
<1> QED
  BY <1>5, <1>6, <1>7, MountAllIs

LEMMA CreateDevicesMnt == ASSUME config \in Configs, MntInv, HardInv, CreateDevices PROVE MntInv' /\ HardInv'
<1>1. config' = config /\ pc = "devices"
  BY MountMoves, CreateDevicesIs DEF MountMove
<1>2. /\ Good(mnt) /\ ~mnt.propagated /\ done \in Nat /\ OwnMounts /\ mnt.private /\ Origin(mnt)
      /\ done <= Len(Nodes) /\ (mnt.devicesOwned => OwnerAsked)
  BY <1>1 DEF MntInv, MountPcs
<1>3. Len(Nodes) \in Nat
  BY Lengths
<1>4. /\ OwnMounts' = OwnMounts /\ Nodes' = Nodes /\ OwnerAsked' = OwnerAsked
      /\ Origin(mnt)' = Origin(mnt') /\ Good(mnt)' = Good(mnt')
  BY <1>1, MntPrimed
<1>5. CASE /\ done < Len(Nodes) /\ done' = done + 1 /\ pc' = "devices"
           /\ mnt' \in CreateOne(mnt, Nodes[done + 1], Bound)
  <2>1. done + 1 \in 1 .. Len(Nodes)
    BY <1>2, <1>3, <1>5
  <2>2. /\ Nodes[done + 1] \in [path : Paths, owned : BOOLEAN]
        /\ Nodes[done + 1].owned => \E j \in DOMAIN config.extra : config.extra[j].owned
    BY <2>1, Lengths
  <2>3. /\ Good(mnt') /\ Origin(mnt') /\ mnt'.private = mnt.private /\ (mnt'.propagated => mnt.propagated \/ ~mnt.private)
        /\ mnt'.devicesOwned => mnt.devicesOwned \/ (Nodes[done + 1].owned /\ (Bound \/ HostMounted))
    BY <1>2, <1>5, <2>2, CreateKeeps
  <2>4. mnt'.devicesOwned => OwnerAsked
    BY <1>2, <2>2, <2>3 DEF OwnerAsked
  <2> QED
    BY <1>1, <1>2, <1>4, <1>5, <2>1, <2>3, <2>4 DEF MntInv, HardInv, MountPcs, CredPcs
<1>6. CASE pc' = "failed" /\ mnt' = mnt /\ done' = done + 1
  BY <1>1, <1>2, <1>6, MountSame
<1>7. CASE done' = 0 /\ pc' = "pivot" /\ mnt' = mnt
  BY <1>1, <1>2, <1>3, <1>4, <1>7 DEF MntInv, HardInv, MountPcs, CredPcs
<1> QED
  BY <1>5, <1>6, <1>7, CreateDevicesIs

LEMMA PivotMnt == ASSUME MntInv, HardInv, PivotRoot PROVE MntInv' /\ HardInv'
<1>1. config' = config /\ pc = "pivot" /\ done' = done
  BY MountMoves, PivotRootIs DEF MountMove
<1>2. Good(mnt) /\ ~mnt.propagated /\ done = 0 /\ OwnMounts /\ mnt.private /\ (mnt.devicesOwned => OwnerAsked)
  BY <1>1 DEF MntInv, MountPcs
<1>3. OwnMounts' = OwnMounts /\ OwnerAsked' = OwnerAsked /\ Good(mnt)' = Good(mnt')
  BY <1>1, MntPrimed
<1>4. CASE pc' = "console" /\ mnt' \in Pivoted
  <2>1. PICK u \in Pivot(mnt) : mnt' \in SetPropagation(u, config.propagation)
    BY <1>4 DEF Pivoted
  <2>2. Good(mnt') /\ mnt'.private = mnt.private /\ mnt'.devicesOwned = mnt.devicesOwned
        /\ mnt'.propagated = mnt.propagated
    BY <1>2, <2>1, PivotKeeps
  <2> QED
    BY <1>1, <1>2, <1>3, <1>4, <2>2 DEF MntInv, HardInv, MountPcs, CredPcs
<1>5. CASE pc' = "failed" /\ mnt' = mnt
  BY <1>1, <1>2, <1>5, MountSame
<1> QED
  BY <1>4, <1>5, PivotRootIs

LEMMA ConsoleMnt == ASSUME MntInv, HardInv, Console PROVE MntInv' /\ HardInv'
<1>1. config' = config /\ pc = "console" /\ done' = done
  BY MountMoves, ConsoleIs DEF MountMove
<1>2. Good(mnt) /\ ~mnt.propagated /\ done = 0 /\ OwnMounts /\ mnt.private /\ (mnt.devicesOwned => OwnerAsked)
  BY <1>1 DEF MntInv, MountPcs
<1>3. OwnMounts' = OwnMounts /\ OwnerAsked' = OwnerAsked /\ Good(mnt)' = Good(mnt')
  BY <1>1, MntPrimed
<1>4. CASE pc' = "identity" /\ mnt' \in (IF config.console THEN SetupConsole(mnt) ELSE {mnt})
  <2>1. Good(mnt') /\ Steady(mnt, mnt')
    <3>1. CASE mnt' \in SetupConsole(mnt)
      BY <1>2, <3>1, ConsoleKeeps
    <3>2. CASE mnt' = mnt
      BY <1>2, <3>2 DEF Steady
    <3> QED
      BY <1>4, <3>1, <3>2
  <2>2. mnt'.private = mnt.private /\ mnt'.devicesOwned = mnt.devicesOwned /\ ~mnt'.propagated
    BY <1>2, <2>1 DEF Steady
  <2> QED
    BY <1>1, <1>2, <1>3, <1>4, <2>1, <2>2 DEF MntInv, HardInv, MountPcs, CredPcs
<1>5. CASE pc' = "failed" /\ mnt' = mnt
  BY <1>1, <1>2, <1>5, MountSame
<1> QED
  BY <1>4, <1>5, ConsoleIs

LEMMA MaskMnt == ASSUME config \in Configs, MntInv, HardInv, Mask PROVE MntInv' /\ HardInv'
<1>1. config' = config /\ pc = "mask"
  BY MountMoves, MaskIs DEF MountMove
<1>2. /\ Good(mnt) /\ ~mnt.propagated /\ done \in Nat /\ OwnMounts /\ mnt.private
      /\ done <= Len(config.masked) /\ (mnt.devicesOwned => OwnerAsked) /\ Masked(mnt, done)
  BY <1>1 DEF MntInv, HardInv, MountPcs
<1>3. Len(config.masked) \in Nat /\ Len(config.readonly) \in Nat
  BY Lengths
<1>4. /\ OwnMounts' = OwnMounts /\ OwnerAsked' = OwnerAsked /\ Good(mnt)' = Good(mnt')
      /\ Masked(mnt, done)' = Masked(mnt', done') /\ MaskedAll(mnt)' = MaskedAll(mnt')
      /\ ReadonlyTo(mnt, done)' = ReadonlyTo(mnt', done')
  BY <1>1, MntPrimed
<1>5. CASE /\ done < Len(config.masked) /\ done' = done + 1 /\ pc' = "mask"
           /\ mnt' \in MaskOne(mnt, config.masked[done + 1])
  <2>1. done + 1 \in 1 .. Len(config.masked) /\ config.masked[done + 1] \in Paths
    BY <1>2, <1>3, <1>5, Lengths
  <2>2. /\ Good(mnt') /\ Steady(mnt, mnt') /\ mnt'.exists \subseteq mnt.exists
        /\ \A p \in Paths : mnt'.view[p].fs \in {mnt.view[p].fs, "masked"}
        /\ \A p \in Under(config.masked[done + 1]) \cap mnt'.exists : mnt'.view[p].fs = "masked"
    BY <1>2, <1>5, <2>1, MaskKeeps
  <2>3. mnt'.private = mnt.private /\ ~mnt'.propagated /\ mnt'.devicesOwned = mnt.devicesOwned
    BY <1>2, <2>2 DEF Steady
  <2>4. Masked(mnt', done + 1)
    <3> SUFFICES ASSUME NEW i \in 1 .. done + 1, NEW p \in Under(config.masked[i]) \cap mnt'.exists
                 PROVE  mnt'.view[p].fs = "masked"
      BY DEF Masked
    <3>1. CASE i = done + 1
      BY <2>2, <3>1
    <3>2. CASE i \in 1 .. done
      <4>1. p \in Under(config.masked[i]) \cap mnt.exists /\ p \in Paths
        BY <2>2 DEF Under
      <4>2. mnt.view[p].fs = "masked"
        BY <1>2, <3>2, <4>1 DEF Masked
      <4> QED
        BY <2>2, <4>1, <4>2
    <3> QED
      BY <1>2, <3>1, <3>2
  <2> QED
    BY <1>1, <1>2, <1>4, <1>5, <2>1, <2>2, <2>3, <2>4 DEF MntInv, HardInv, MountPcs, CredPcs
<1>6. CASE pc' = "failed" /\ mnt' = mnt /\ done' = done + 1
  BY <1>1, <1>2, <1>6, MountSame
<1>7. CASE done = Len(config.masked) /\ done' = 0 /\ pc' = "readonly" /\ mnt' = mnt
  <2>1. MaskedAll(mnt') /\ ReadonlyTo(mnt', 0)
    BY <1>2, <1>7 DEF MaskedAll, ReadonlyTo
  <2> QED
    BY <1>1, <1>2, <1>3, <1>4, <1>7, <2>1 DEF MntInv, HardInv, MountPcs, CredPcs
<1> QED
  BY <1>5, <1>6, <1>7, MaskIs

(* What a step that tightens leaves of the invariant.                      *)
LEMMA TightensMnt ==
  ASSUME Good(mnt), ~mnt.propagated, mnt.private, mnt.devicesOwned => OwnerAsked, Tightens(mnt, mnt')
  PROVE  Good(mnt') /\ ~mnt'.propagated /\ mnt'.private /\ (mnt'.devicesOwned => OwnerAsked)
BY DEF Tightens, Steady

LEMMA ReadonlyMnt == ASSUME config \in Configs, MntInv, HardInv, Readonly PROVE MntInv' /\ HardInv'
<1>1. config' = config /\ pc = "readonly"
  BY MountMoves, ReadonlyIs DEF MountMove
<1>2. /\ Good(mnt) /\ ~mnt.propagated /\ done \in Nat /\ OwnMounts /\ mnt.private
      /\ done <= Len(config.readonly) /\ (mnt.devicesOwned => OwnerAsked)
      /\ MaskedAll(mnt) /\ ReadonlyTo(mnt, done)
  BY <1>1 DEF MntInv, HardInv, MountPcs
<1>3. Len(config.readonly) \in Nat /\ Len(config.mounts) \in Nat
  BY Lengths
<1>4. /\ OwnMounts' = OwnMounts /\ OwnerAsked' = OwnerAsked /\ Good(mnt)' = Good(mnt')
      /\ ReadonlyTo(mnt, done)' = ReadonlyTo(mnt', done') /\ MaskedAll(mnt)' = MaskedAll(mnt')
      /\ ReadonlyAll(mnt)' = ReadonlyAll(mnt') /\ TmpfsTo(mnt, done)' = TmpfsTo(mnt', done')
  BY <1>1, MntPrimed
<1>5. CASE /\ done < Len(config.readonly) /\ done' = done + 1 /\ pc' = "readonly"
           /\ mnt' \in ReadonlyOne(mnt, config.readonly[done + 1])
  <2>1. done + 1 \in 1 .. Len(config.readonly) /\ config.readonly[done + 1] \in Paths /\ done \in 0 .. Len(config.readonly)
    BY <1>2, <1>3, <1>5, Lengths
  <2>2. Tightens(mnt, mnt') /\ (config.readonly[done + 1] \in mnt'.exists => mnt'.view[config.readonly[done + 1]].ro)
    BY <1>2, <1>5, <2>1, ReadonlyKeeps
  <2>3. Good(mnt') /\ ~mnt'.propagated /\ mnt'.private /\ (mnt'.devicesOwned => OwnerAsked)
    BY <1>2, <2>2, TightensMnt
  <2>4. MaskedAll(mnt') /\ ReadonlyTo(mnt', done)
    BY <1>2, <2>1, <2>2, Tightened
  <2>5. ReadonlyTo(mnt', done + 1)
    <3>1. \A i \in 1 .. done + 1 : i = done + 1 \/ i \in 1 .. done
      BY <1>2
    <3> QED
      BY <2>2, <2>4, <3>1 DEF ReadonlyTo
  <2> QED
    BY <1>1, <1>2, <1>4, <1>5, <2>1, <2>3, <2>4, <2>5 DEF MntInv, HardInv, MountPcs, CredPcs
<1>6. CASE pc' = "failed" /\ mnt' = mnt /\ done' = done + 1
  BY <1>1, <1>2, <1>6, MountSame
<1>7. CASE done = Len(config.readonly) /\ done' = 0 /\ pc' = "tmpfs" /\ mnt' = mnt
  <2>1. ReadonlyAll(mnt') /\ TmpfsTo(mnt', 0)
    BY <1>2, <1>7 DEF ReadonlyAll, TmpfsTo
  <2> QED
    BY <1>1, <1>2, <1>3, <1>4, <1>7, <2>1 DEF MntInv, HardInv, MountPcs, CredPcs
<1> QED
  BY <1>5, <1>6, <1>7, ReadonlyIs

LEMMA TmpfsMnt == ASSUME config \in Configs, MntInv, HardInv, Tmpfs PROVE MntInv' /\ HardInv'
<1>1. config' = config /\ pc = "tmpfs"
  BY MountMoves, TmpfsIs DEF MountMove
<1>2. /\ Good(mnt) /\ ~mnt.propagated /\ done \in Nat /\ OwnMounts /\ mnt.private
      /\ done <= Len(config.mounts) /\ (mnt.devicesOwned => OwnerAsked)
      /\ ReadonlyAll(mnt) /\ TmpfsTo(mnt, done)
  BY <1>1 DEF MntInv, HardInv, MountPcs
<1>3. Len(config.mounts) \in Nat
  BY Lengths
<1>4. /\ OwnMounts' = OwnMounts /\ OwnerAsked' = OwnerAsked /\ Good(mnt)' = Good(mnt')
      /\ TmpfsTo(mnt, done)' = TmpfsTo(mnt', done') /\ ReadonlyAll(mnt)' = ReadonlyAll(mnt')
      /\ TmpfsAll(mnt)' = TmpfsAll(mnt')
  BY <1>1, MntPrimed
<1>5. CASE /\ done < Len(config.mounts) /\ done' = done + 1 /\ pc' = "tmpfs"
           /\ mnt' \in RemountTmpfs(mnt, config.mounts[done + 1])
  <2>1. done + 1 \in 1 .. Len(config.mounts) /\ done \in 0 .. Len(config.mounts)
    BY <1>2, <1>3, <1>5
  <2>2. Tightens(mnt, mnt') /\ (ReadonlyTmpfs(done + 1) => mnt'.view[Destination(done + 1)].ro)
    BY <1>2, <1>5, <2>1, TmpfsKeeps
  <2>3. Good(mnt') /\ ~mnt'.propagated /\ mnt'.private /\ (mnt'.devicesOwned => OwnerAsked)
    BY <1>2, <2>2, TightensMnt
  <2>4. ReadonlyAll(mnt') /\ TmpfsTo(mnt', done)
    BY <1>2, <2>1, <2>2, Tightened
  <2>5. TmpfsTo(mnt', done + 1)
    <3>1. \A i \in 1 .. done + 1 : i = done + 1 \/ i \in 1 .. done
      BY <1>2
    <3> QED
      BY <2>2, <2>4, <3>1 DEF TmpfsTo
  <2> QED
    BY <1>1, <1>2, <1>4, <1>5, <2>1, <2>3, <2>4, <2>5 DEF MntInv, HardInv, MountPcs, CredPcs
<1>6. CASE pc' = "failed" /\ mnt' = mnt /\ done' = done + 1
  BY <1>1, <1>2, <1>6, MountSame
<1>7. CASE done = Len(config.mounts) /\ done' = 0 /\ pc' = "roRoot" /\ mnt' = mnt
  <2>1. TmpfsAll(mnt')
    BY <1>2, <1>7 DEF TmpfsAll
  <2> QED
    BY <1>1, <1>2, <1>3, <1>4, <1>7, <2>1 DEF MntInv, HardInv, MountPcs, CredPcs
<1> QED
  BY <1>5, <1>6, <1>7, TmpfsIs

LEMMA RootReadonlyMnt == ASSUME config \in Configs, MntInv, HardInv, RootReadonly PROVE MntInv' /\ HardInv'
<1>1. config' = config /\ pc = "roRoot" /\ done' = done
  BY MountMoves, RootReadonlyIs DEF MountMove
<1>2. /\ Good(mnt) /\ ~mnt.propagated /\ done = 0 /\ OwnMounts /\ mnt.private
      /\ (mnt.devicesOwned => OwnerAsked) /\ TmpfsAll(mnt)
  BY <1>1 DEF MntInv, HardInv, MountPcs
<1>3. /\ OwnMounts' = OwnMounts /\ OwnerAsked' = OwnerAsked /\ Good(mnt)' = Good(mnt') /\ TmpfsAll(mnt)' = TmpfsAll(mnt')
  BY <1>1, MntPrimed
<1>4. CASE pc' = "limits" /\ mnt' \in (IF config.roRoot THEN ReadonlyRootfs(mnt) ELSE {mnt})
  <2>1. Tightens(mnt, mnt') /\ (config.roRoot => mnt'.view[<<>>].ro)
    <3>1. CASE config.roRoot
      <4>1. <<>> \in Paths /\ mnt' \in RemountReadonly(mnt, <<>>)
        BY <1>4, <3>1, NamedPaths DEF ReadonlyRootfs
      <4> QED
        BY <1>2, <4>1, RemountTightens
    <3>2. CASE ~config.roRoot
      BY <1>2, <1>4, <3>2 DEF Tightens, Steady
    <3> QED
      BY <3>1, <3>2
  <2>2. Good(mnt') /\ ~mnt'.propagated /\ mnt'.private /\ (mnt'.devicesOwned => OwnerAsked)
    BY <1>2, <2>1, TightensMnt
  <2>3. TmpfsAll(mnt')
    <3>1. Len(config.mounts) \in 0 .. Len(config.mounts)
      BY Lengths
    <3> QED
      BY <1>2, <2>1, <3>1, Tightened DEF TmpfsAll
  <2> QED
    BY <1>1, <1>2, <1>3, <1>4, <2>1, <2>2, <2>3 DEF MntInv, HardInv, MountPcs, CredPcs
<1>5. CASE pc' = "failed" /\ mnt' = mnt
  BY <1>1, <1>2, <1>5, MountSame
<1> QED
  BY <1>4, <1>5, RootReadonlyIs

LEMMA MntInit == Init => MntInv /\ HardInv
<1> SUFFICES ASSUME Init PROVE MntInv /\ HardInv
  OBVIOUS
<1>1. mnt = Untouched /\ pc = "plan" /\ done = 0
  BY DEF Init
<1>2. Good(Untouched) /\ Untouched.propagated = FALSE /\ Untouched.devicesOwned = FALSE
  BY UntouchedPlain, PlainGood DEF Plain
<1> QED
  BY <1>1, <1>2 DEF MntInv, HardInv, MountPcs, CredPcs

LEMMA MntNext == ASSUME config \in Configs, MntInv, HardInv, [Next]_vars PROVE MntInv' /\ HardInv'
<1>1. CASE MountMove
  BY <1>1, MountAllMnt, CreateDevicesMnt, PivotMnt, ConsoleMnt, MaskMnt, ReadonlyMnt, TmpfsMnt, RootReadonlyMnt
  DEF MountMove
<1>2. CASE Plan \/ JoinOne \/ Unshare
  <2>1. /\ config' = config /\ mnt' = mnt /\ done' = done /\ done \in Nat
        /\ pc \in {"plan", "join"} /\ pc' \in {"join", "rootfs", "failed"}
    BY <1>2, OtherMoves DEF MntInv
  <2> QED
    BY <2>1, MountSame
<1>3. CASE CredMove
  <2>1. /\ config' = config /\ mnt' = mnt /\ done' = done /\ done \in Nat
        /\ pc \in CredPcs /\ pc' \in CredPcs \cup {"ready", "failed"}
    BY <1>3, CredMoves DEF MntInv
  <2> QED
    BY <2>1, MountSame
<1>4. CASE UNCHANGED vars
  <2>1. config' = config /\ mnt' = mnt /\ done' = done /\ pc' = pc
    BY <1>4 DEF vars
  <2> QED
    BY <2>1, MountSame
<1> QED
  BY <1>1, <1>2, <1>3, <1>4, RootfsMnt, IdentityMnt, Moves

-----------------------------------------------------------------------------
IInv == NsInv /\ CredInv /\ MntInv /\ HardInv

LEMMA Inductive == Spec => []IInv
<1>1. Init => IInv
  BY NsInit, CredInit, MntInit DEF IInv
<1>2. IInv /\ [Next]_vars => IInv'
  <2> SUFFICES ASSUME IInv, [Next]_vars PROVE IInv'
    OBVIOUS
  <2>1. config \in Configs
    BY DEF IInv, NsInv
  <2> QED
    BY <2>1, NsNext, CredNext, MntNext DEF IInv
<1> QED
  BY <1>1, <1>2, PTL DEF Spec

(* Setup.TypeOK.                                                           *)
THEOREM TypeCorrect == Spec => []TypeOK
<1>1. IInv => TypeOK
  <2> SUFFICES ASSUME IInv PROVE TypeOK
    OBVIOUS
  <2>1. ns \in [Kinds -> {"host", "joined", "new", "stray"}] /\ left \subseteq Kinds /\ done \in Nat
    BY DEF IInv, NsInv, MntInv
  <2>2. mnt.exists \subseteq Paths /\ mnt.root \in {"none", "mounted", "pivoted"}
    BY DEF IInv, MntInv, Good, MountStates
  <2>3. /\ cred.effective \subseteq cred.permitted /\ cred.permitted \subseteq Caps
        /\ cred.ambient \subseteq cred.permitted \cap cred.inheritable /\ cred.filters \in {0, 1}
    BY DEF IInv, CredInv, Typed, CredStates
  <2> QED
    BY <2>1, <2>2, <2>3 DEF TypeOK
<1> QED
  BY <1>1, Inductive, PTL

(* For every configuration that parses, whichever steps fail: the process  *)
(* enters no namespace it was not asked to, the host sees nothing of the   *)
(* setup, and the program starts with exactly the identity asked for.      *)
THEOREM ConfinedAlways == Spec => []Confined
<1>1. IInv => Confined
  <2> SUFFICES ASSUME IInv PROVE Confined
    OBVIOUS
  <2>1. NamespacesAsAsked
    BY DEF IInv, NsInv, NamespacesAsAsked, InitPcs, Wanted
  <2>2. HostUntouched
    BY DEF IInv, NsInv, MntInv, HostUntouched, OwnerAsked, HostMounted
  <2>3. IdentityExact
    BY CredExact DEF IInv
  <2> QED
    BY <2>1, <2>2, <2>3 DEF Confined
<1> QED
  BY <1>1, Inductive, PTL

(* And what was to be masked or read-only is, for any tree of paths, any   *)
(* order of mounts, and masks and read-only paths above and below each     *)
(* other.                                                                  *)
THEOREM HardenedAlways == Spec => []Hardened
<1>1. IInv => Hardened
  <2> SUFFICES ASSUME IInv, pc = "ready", OwnMounts PROVE Hardened
    BY DEF Hardened
  <2>1. config \in Configs /\ TmpfsAll(mnt) /\ (config.roRoot => mnt.view[<<>>].ro)
    BY DEF IInv, NsInv, HardInv
  <2>2. DOMAIN config.masked = 1 .. Len(config.masked) /\ DOMAIN config.readonly = 1 .. Len(config.readonly)
    BY <2>1, Lengths
  <2> QED
    BY <2>1, <2>2 DEF Hardened, TmpfsAll, ReadonlyAll, MaskedAll, Masked, ReadonlyTo, TmpfsTo
<1> QED
  BY <1>1, Inductive, PTL

-----------------------------------------------------------------------------
(* What a sensible configuration needs to be there: nothing is read-only   *)
(* but at and below the mounts that asked for it from the start, what is   *)
(* still to be used is seen, and what is to be remounted is a mount point. *)

RoFirst(i) == Flags(config.mounts[i].options).ro /\ ~Flags(config.mounts[i].options).bind

RoBelow(s, n) ==
  \A p \in Paths : s.view[p].ro =>
    \E j \in 1 .. n : RoFirst(j) /\ IsPrefix(Destination(j), p) /\ Destination(j) \in s.exists

DevptsAt(s, i) ==
  config.mounts[i].fs = "devpts" /\ NotCovered(Destination(i), i) =>
    Destination(i) \in s.exists /\ s.view[Destination(i)].fs = "devpts"

ProcAt(s, i) ==
  /\ config.mounts[i].fs = "proc" /\ Destination(i) = <<"proc">>
  /\ ~Flags(config.mounts[i].options).ro /\ NotCovered(<<"proc", "sys">>, i)
  => <<"proc", "sys">> \in s.exists /\ ~s.view[<<"proc", "sys">>].ro

PointAt(s, i) == ReadonlyTmpfs(i) => Destination(i) \in s.exists /\ IsMountPoint(s, Destination(i))

Seen(s, n) == \A i \in 1 .. n : DevptsAt(s, i) /\ ProcAt(s, i) /\ PointAt(s, i)

Points(s) == \A i \in 1 .. Len(config.mounts) : ReadonlyTmpfs(i) => IsMountPoint(s, Destination(i))

Bindable(s) == \A p \in Paths : ~s.view[p].unbindable

(* One file system more, at q and below.                                   *)
Overlaid(s, t, q, fs, ro) ==
  /\ \A p \in Paths : t.view[p] = IF IsPrefix(q, p) THEN Made(s, fs, ro) ELSE s.view[p]
  /\ q \in t.exists /\ \A p \in s.exists : ~IsPrefix(q, p) => p \in t.exists
  /\ \A r \in Provides[fs] : q \o r \in Paths => q \o r \in t.exists

LEMMA AttachOverlaid ==
  ASSUME NEW s, Good(s), NEW q \in Paths, NEW fs \in Systems, NEW ro \in BOOLEAN, NEW u \in Make(s, q),
         NEW t \in Attach(u, q, fs, ro)
  PROVE  Overlaid(s, t, q, fs, ro) /\ Good(t)
<1>1. Good(u) /\ u.view = s.view /\ u.next = s.next /\ s.exists \subseteq u.exists
  BY MakeSteady
<1>2. /\ \A p \in Paths : t.view[p] = IF IsPrefix(q, p) THEN Made(u, fs, ro) ELSE u.view[p]
      /\ t.exists = (u.exists \ Under(q)) \cup {q} \cup ({q \o r : r \in Provides[fs]} \cap Paths)
  BY <1>1, Attached
<1>3. Made(u, fs, ro) = Made(s, fs, ro)
  BY <1>1 DEF Made
<1>4. Good(t)
  BY <1>1, AttachGood
<1>5. \A p \in Paths : t.view[p] = IF IsPrefix(q, p) THEN Made(s, fs, ro) ELSE s.view[p]
  BY <1>1, <1>2, <1>3
<1>6. q \in t.exists /\ \A p \in s.exists : ~IsPrefix(q, p) => p \in t.exists
  BY <1>1, <1>2 DEF Under
<1>7. \A r \in Provides[fs] : q \o r \in Paths => q \o r \in t.exists
  BY <1>2
<1> QED
  BY <1>4, <1>5, <1>6, <1>7 DEF Overlaid

(* A fresh id is in no older one.                                          *)
LEMMA NotLast ==
  ASSUME NEW a \in Seq(Nat), NEW b \in Seq(Nat), NEW x \in Nat, \A i \in 1 .. Len(a) : a[i] < x
  PROVE  a # <<x>> /\ a # Append(b, x)
<1>1. \A i \in 1 .. Len(a) : a[i] # x
  <2>1. \A i \in 1 .. Len(a) : a[i] \in Nat
    BY ElementOfSeq
  <2> QED
    BY <2>1
<1>2. a # <<x>>
  <2>1. Len(<<x>>) = 1 /\ <<x>>[1] = x
    OBVIOUS
  <2>2. a = <<x>> => 1 \in 1 .. Len(a) /\ a[1] = x
    BY <2>1
  <2> QED
    BY <1>1, <2>2
<1>3. a # Append(b, x)
  <2> DEFINE c == Append(b, x)
  <2>1. Len(b) \in Nat /\ Len(c) = Len(b) + 1 /\ c[Len(b) + 1] = x
    BY AppendProperties, LenProperties
  <2>2. Len(c) \in 1 .. Len(c) /\ c[Len(c)] = x
    BY <2>1
  <2> HIDE DEF c
  <2>3. a = c => Len(a) \in 1 .. Len(a) /\ a[Len(a)] = x
    BY ONLY <2>2, Zenon
  <2> QED
    BY <1>1, <2>3 DEF c
<1> QED
  BY <1>2, <1>3

LEMMA FreshId ==
  ASSUME NEW s, Good(s), NEW p \in Paths, NEW r \in Paths
  PROVE  s.view[p].id # <<s.next>> /\ s.view[p].id # Append(s.view[r].id, s.next)
<1>1. /\ s.view[p].id \in Seq(Nat) /\ s.view[r].id \in Seq(Nat) /\ s.next \in Nat
  BY DEF Good, MountStates, Views
<1>2. \A i \in 1 .. Len(s.view[p].id) : s.view[p].id[i] < s.next
  BY DEF Good, Fresh
<1> QED
  BY <1>1, <1>2, NotLast

(* What a mount leaves of the mount points: all that are not below it.     *)
LEMMA OverlaidPoint ==
  ASSUME NEW s, Good(s), NEW t, NEW q \in Paths, NEW fs, NEW ro, Overlaid(s, t, q, fs, ro),
         NEW d \in Paths, d = q \/ (IsMountPoint(s, d) /\ ~IsStrictPrefix(q, d))
  PROVE  IsMountPoint(t, d)
<1> SUFFICES ASSUME d # <<>> PROVE t.view[Front(d)].id # t.view[d].id
  BY DEF IsMountPoint
<1>1. Front(d) \in Paths /\ IsPrefix(Front(d), d) /\ Front(d) # d
  BY FrontOf
<1>2. d \in Seq(STRING) /\ Front(d) \in Seq(STRING) /\ q \in Seq(STRING)
  BY <1>1, PathsAre
<1>3. CASE d = q
  <2>1. ~IsPrefix(q, Front(d)) /\ IsPrefix(q, d)
    BY <1>1, <1>2, <1>3, Antisymmetric, PathsAre
  <2>2. t.view[Front(d)] = s.view[Front(d)] /\ t.view[d].id = <<s.next>>
    BY <1>1, <2>1 DEF Overlaid, Made
  <2> QED
    BY <1>1, <2>2, FreshId
<1>4. CASE d # q
  <2>1. ~IsPrefix(q, d)
    BY <1>4 DEF IsStrictPrefix
  <2>2. ~IsPrefix(q, Front(d))
    BY <1>1, <1>2, <2>1, Transitive
  <2>3. t.view[Front(d)] = s.view[Front(d)] /\ t.view[d] = s.view[d]
    BY <1>1, <2>1, <2>2 DEF Overlaid
  <2> QED
    BY <1>4, <2>3 DEF IsMountPoint
<1> QED
  BY <1>3, <1>4

LEMMA OverlaidRo ==
  ASSUME config \in Configs, NEW s, Good(s), NEW t, NEW q \in Paths, NEW fs, NEW ro, Overlaid(s, t, q, fs, ro),
         NEW n \in 0 .. Len(config.mounts), RoBelow(s, n),
         NEW m \in n .. Len(config.mounts), ro => n < m /\ RoFirst(m) /\ Destination(m) = q
  PROVE  RoBelow(t, m)
<1> SUFFICES ASSUME NEW p \in Paths, t.view[p].ro
             PROVE  \E j \in 1 .. m : RoFirst(j) /\ IsPrefix(Destination(j), p) /\ Destination(j) \in t.exists
  BY DEF RoBelow
<1>1. Len(config.mounts) \in Nat
  BY Lengths
<1>2. CASE IsPrefix(q, p)
  <2>1. ro
    BY <1>2 DEF Overlaid, Made
  <2>2. m \in 1 .. m /\ q \in t.exists
    BY <1>1, <2>1 DEF Overlaid
  <2> QED
    BY <1>2, <2>1, <2>2
<1>3. CASE ~IsPrefix(q, p)
  <2>1. s.view[p].ro
    BY <1>3 DEF Overlaid
  <2>2. PICK j \in 1 .. n : RoFirst(j) /\ IsPrefix(Destination(j), p) /\ Destination(j) \in s.exists
    BY <2>1 DEF RoBelow
  <2>3. Destination(j) \in Paths /\ j \in 1 .. m
    BY <1>1, Entry
  <2>4. ~IsPrefix(q, Destination(j))
    BY <1>3, <2>2, <2>3, PathsAre, Transitive
  <2> QED
    BY <2>2, <2>3, <2>4 DEF Overlaid
<1> QED
  BY <1>2, <1>3

(* More exists, nothing looks different.                                   *)
LEMMA GrowsFit ==
  ASSUME NEW s, NEW t, t.view = s.view, s.exists \subseteq t.exists, NEW n
  PROVE  (RoBelow(s, n) => RoBelow(t, n)) /\ (Seen(s, n) => Seen(t, n))
BY DEF RoBelow, Seen, DevptsAt, ProcAt, PointAt, IsMountPoint

(* Nothing that is missing at or above q is read-only.                     *)
LEMMA MakeFits ==
  ASSUME config \in Configs, NEW s, Good(s), NEW n \in 0 .. Len(config.mounts), RoBelow(s, n), NEW q \in Paths,
         \A j \in 1 .. n : RoFirst(j) => ~IsStrictPrefix(Destination(j), q)
  PROVE  Make(s, q) # {}
<1> SUFFICES ASSUME NEW p \in Paths, IsPrefix(p, q), p \notin s.exists, s.view[p].ro PROVE FALSE
  BY MakePossible
<1>1. PICK j \in 1 .. n : RoFirst(j) /\ IsPrefix(Destination(j), p) /\ Destination(j) \in s.exists
  BY DEF RoBelow
<1>2. Destination(j) \in Paths
  BY Lengths, Entry
<1>3. IsPrefix(Destination(j), q)
  BY <1>1, <1>2, PathsAre, Transitive
<1>4. Destination(j) # q
  <2>1. Destination(j) = q => IsPrefix(q, p)
    BY <1>1
  <2>2. IsPrefix(q, p) => p = q
    BY PathsAre, Antisymmetric
  <2> QED
    BY <1>1, <2>1, <2>2
<1> QED
  BY <1>1, <1>3, <1>4 DEF IsStrictPrefix

LEMMA AttachFits ==
  ASSUME NEW s, NEW q \in s.exists, NEW fs \in Systems, NEW ro
  PROVE  Attach(s, q, fs, ro) # {}
<1>1. fs # "cgroup"
  BY ProvidesAssumption
<1> QED
  BY <1>1 DEF Attach

LEMMA ProcSys == <<"proc", "sys">> \in Paths /\ <<"sys">> \in Seq(STRING) /\ <<"proc">> \o <<"sys">> = <<"proc", "sys">>
<1>1. <<"proc", "sys">> \in Paths /\ <<"proc", "sys">> \in Seq(STRING)
  BY NamedPaths, PathsAre
<1>2. <<"sys">> \in Seq(STRING)
  BY ProvidesAssumption
<1>3. "proc" \in STRING
  <2>1. Len(<<"proc", "sys">>) = 2 /\ <<"proc", "sys">>[1] = "proc"
    OBVIOUS
  <2> QED
    BY <1>1, <2>1, ElementOfSeq
<1>4. <<"proc">> \in Seq(STRING)
  BY <1>3
<1> DEFINE c == <<"proc">> \o <<"sys">>
<1>5. c \in Seq(STRING) /\ Len(c) = 2 /\ c[1] = "proc" /\ c[2] = "sys"
  <2>1. Len(<<"proc">>) = 1 /\ Len(<<"sys">>) = 1 /\ <<"proc">>[1] = "proc" /\ <<"sys">>[1] = "sys"
    OBVIOUS
  <2> QED
    BY <1>2, <1>4, <2>1, ConcatProperties
<1> HIDE DEF c
<1>6. c = <<"proc", "sys">>
  <2>1. \A i \in 1 .. 2 : c[i] = <<"proc", "sys">>[i]
    BY <1>5
  <2>2. Len(<<"proc", "sys">>) = 2
    OBVIOUS
  <2> QED
    BY <1>1, <1>5, <2>1, <2>2, SeqEqual
<1> QED
  BY <1>1, <1>2, <1>6 DEF c

(* A mount hides nothing that is still needed of those before it.          *)
LEMMA SeenOn ==
  ASSUME config \in Configs, MountsFit, NEW s, Good(s), NEW v, NEW q \in Paths, NEW fs, NEW ro, Overlaid(s, v, q, fs, ro),
         NEW i \in 1 .. Len(config.mounts), q = Destination(i), NEW j \in 1 .. i - 1,
         DevptsAt(s, j) /\ ProcAt(s, j) /\ PointAt(s, j)
  PROVE  DevptsAt(v, j) /\ ProcAt(v, j) /\ PointAt(v, j)
<1>1. Len(config.mounts) \in Nat
  BY Lengths
<1>2. j \in 1 .. Len(config.mounts) /\ i \in Later(j)
  BY <1>1 DEF Later
<1>3. Destination(j) \in Paths /\ <<"proc", "sys">> \in Paths
  BY <1>2, Entry, NamedPaths
<1>4. DevptsAt(v, j)
  <2>1. NotCovered(Destination(j), j) => ~IsPrefix(q, Destination(j))
    BY <1>2 DEF NotCovered
  <2> QED
    BY <1>3, <2>1 DEF DevptsAt, Overlaid
<1>5. ProcAt(v, j)
  <2>1. NotCovered(<<"proc", "sys">>, j) => ~IsPrefix(q, <<"proc", "sys">>)
    BY <1>2 DEF NotCovered
  <2> QED
    BY <1>3, <2>1 DEF ProcAt, Overlaid
<1>6. PointAt(v, j)
  <2> SUFFICES ASSUME ReadonlyTmpfs(j) PROVE Destination(j) \in v.exists /\ IsMountPoint(v, Destination(j))
    BY DEF PointAt
  <2>1. ~IsStrictPrefix(q, Destination(j))
    BY <1>2 DEF MountsFit, NothingAbove
  <2>2. Destination(j) \in s.exists /\ IsMountPoint(s, Destination(j))
    BY DEF PointAt
  <2>3. Destination(j) \in v.exists
    BY <2>1, <2>2 DEF Overlaid, IsStrictPrefix
  <2> QED
    BY <1>3, <2>1, <2>2, <2>3, OverlaidPoint
<1> QED
  BY <1>4, <1>5, <1>6

(* And shows what is needed of itself.                                     *)
LEMMA SeenOfIt ==
  ASSUME config \in Configs, NEW s, Good(s), NEW v, NEW fs, NEW ro,
         NEW i \in 1 .. Len(config.mounts), Overlaid(s, v, Destination(i), fs, ro),
         config.mounts[i].fs \in {"devpts", "proc"} => fs = config.mounts[i].fs,
         ~Flags(config.mounts[i].options).ro => ro = FALSE
  PROVE  DevptsAt(v, i) /\ ProcAt(v, i) /\ PointAt(v, i)
<1> DEFINE q == Destination(i)
<1>1. q \in Paths /\ IsPrefix(q, q)
  BY Entry, PathsAre
<1>2. q \in v.exists /\ v.view[q].fs = fs
  BY <1>1 DEF Overlaid, Made
<1>3. IsMountPoint(v, q)
  BY <1>1, OverlaidPoint
<1>4. DevptsAt(v, i)
  BY <1>2 DEF DevptsAt
<1>5. ProcAt(v, i)
  <2> SUFFICES ASSUME config.mounts[i].fs = "proc", q = <<"proc">>, ~Flags(config.mounts[i].options).ro
               PROVE  <<"proc", "sys">> \in v.exists /\ ~v.view[<<"proc", "sys">>].ro
    BY DEF ProcAt
  <2>1. fs = "proc" /\ ro = FALSE
    OBVIOUS
  <2>2. <<"sys">> \in Provides["proc"] /\ <<"proc", "sys">> \in Paths /\ q \o <<"sys">> = <<"proc", "sys">>
    BY ProvidesAssumption, ProcSys
  <2>3. IsPrefix(q, <<"proc", "sys">>)
    <3>1. q \in Seq(STRING) /\ <<"sys">> \in Seq(STRING)
      BY <1>1, PathsAre, ProcSys
    <3>2. IsPrefix(q, q \o <<"sys">>)
      BY <3>1, Deeper
    <3> QED
      BY ONLY <2>2, <3>2, Zenon
  <2>4. <<"proc", "sys">> \in v.exists
    BY <2>1, <2>2 DEF Overlaid
  <2>5. v.view[<<"proc", "sys">>].ro = FALSE
    BY <2>1, <2>2, <2>3 DEF Overlaid, Made
  <2> QED
    BY <2>4, <2>5
<1>6. PointAt(v, i)
  BY <1>2, <1>3 DEF PointAt
<1> QED
  BY <1>4, <1>5, <1>6

LEMMA MountedFits ==
  ASSUME config \in Configs, MountsFit, NEW s, Good(s), NEW i \in 1 .. Len(config.mounts),
         RoBelow(s, i - 1), Seen(s, i - 1),
         NEW fs \in Systems, NEW ro \in BOOLEAN, ro => RoFirst(i),
         config.mounts[i].fs \in {"devpts", "proc"} => fs = config.mounts[i].fs,
         NEW u \in Make(s, Destination(i)), NEW v \in Attach(u, Destination(i), fs, ro)
  PROVE  Good(v) /\ Overlaid(s, v, Destination(i), fs, ro) /\ RoBelow(v, i) /\ Seen(v, i)
<1>1. Destination(i) \in Paths /\ Len(config.mounts) \in Nat
  BY Entry, Lengths
<1>2. Good(v) /\ Overlaid(s, v, Destination(i), fs, ro)
  BY <1>1, AttachOverlaid
<1>3. i - 1 \in 0 .. Len(config.mounts) /\ i \in i - 1 .. Len(config.mounts) /\ i - 1 < i
  BY <1>1
<1>4. RoBelow(v, i)
  BY <1>1, <1>2, <1>3, OverlaidRo
<1>5. ~Flags(config.mounts[i].options).ro => ro = FALSE
  BY DEF RoFirst
<1>6. DevptsAt(v, i) /\ ProcAt(v, i) /\ PointAt(v, i)
  BY <1>2, <1>5, SeenOfIt
<1>7. \A j \in 1 .. i - 1 : DevptsAt(v, j) /\ ProcAt(v, j) /\ PointAt(v, j)
  BY <1>1, <1>2, SeenOn DEF Seen
<1>8. \A j \in 1 .. i : j = i \/ j \in 1 .. i - 1
  BY <1>1
<1>9. Seen(v, i)
  BY <1>6, <1>7, <1>8 DEF Seen
<1> QED
  BY <1>2, <1>4, <1>9

(* dev/ptmx can be linked next to a devpts.                                *)
LEMMA LinkFits ==
  ASSUME NEW s, Good(s), NEW n, RoBelow(s, n), NEW q \in Paths, IsStrictPrefix(<<"dev">>, q),
         \A j \in 1 .. n : Destination(j) \in Paths /\ (RoFirst(j) => ~IsStrictPrefix(Destination(j), q)),
         NEW fs \in Systems, NEW ro \in BOOLEAN, NEW u \in Make(s, q), NEW v \in Attach(u, q, fs, ro)
  PROVE  LinkPtmx(v) # {}
<1> SUFFICES <<"dev">> \in v.exists /\ ~v.view[<<"dev">>].ro
  BY DEF LinkPtmx
<1>1. <<"dev">> \in Paths /\ IsPrefix(<<"dev">>, q) /\ <<"dev">> # q
  BY NamedPaths DEF IsStrictPrefix
<1>2. ~IsPrefix(q, <<"dev">>)
  BY <1>1, PathsAre, Antisymmetric
<1>3. Good(u) /\ u.exists = s.exists \cup {p \in Paths : IsPrefix(p, q)}
  BY MakeSteady
<1>4. <<"dev">> \in v.exists
  <2>1. v.exists = (u.exists \ Under(q)) \cup {q} \cup ({q \o r : r \in Provides[fs]} \cap Paths)
    BY <1>3, Attached
  <2> QED
    BY <1>1, <1>2, <1>3, <2>1 DEF Under
<1>5. v.view[<<"dev">>] = s.view[<<"dev">>]
  BY <1>1, <1>2, AttachOverlaid DEF Overlaid
<1>6. ~s.view[<<"dev">>].ro
  <2> SUFFICES ASSUME s.view[<<"dev">>].ro PROVE FALSE
    OBVIOUS
  <2>1. PICK j \in 1 .. n : RoFirst(j) /\ IsPrefix(Destination(j), <<"dev">>)
    BY <1>1 DEF RoBelow
  <2>2. IsPrefix(Destination(j), q)
    BY <1>1, <2>1, PathsAre, Transitive
  <2>3. Destination(j) # q
    BY <1>2, <2>1
  <2> QED
    BY <2>1, <2>2, <2>3 DEF IsStrictPrefix
<1> QED
  BY <1>4, <1>5, <1>6

(* What apply_one does of an entry that is no change of propagation.       *)
LEMMA ApplyPossible ==
  ASSUME NEW s, NEW i, NEW u \in Make(s, Destination(i)),
         Flags(config.mounts[i].options).bind \/ ~Flags(config.mounts[i].options).propagation,
         NEW v \in Attach(u, Destination(i), IF Flags(config.mounts[i].options).bind THEN config.mounts[i].fs
                                             ELSE EffectiveFstype(config.mounts[i].fs),
                          ~Flags(config.mounts[i].options).bind /\ Flags(config.mounts[i].options).ro),
         config.mounts[i].fs = "devpts" => LinkPtmx(v) # {}
  PROVE  ApplyOne(s, config.mounts[i]) # {}
<1> DEFINE q == Destination(i)
           m == config.mounts[i]
           f == Flags(m.options)
           Mounted(t) ==
             CASE f.bind -> Attach(t, q, m.fs, FALSE)
               [] ~f.bind /\ f.propagation -> IF IsMountPoint(t, q) /\ ~f.ro THEN {t} ELSE {}
               [] OTHER -> Attach(t, q, EffectiveFstype(m.fs), f.ro)
           Linked(t) == IF m.fs = "devpts" THEN UNION {LinkPtmx(w) : w \in Mounted(t)} ELSE Mounted(t)
<1>1. ApplyOne(s, m) = UNION {Linked(t) : t \in Make(s, q)}
  BY DEF ApplyOne, Destination
<1>2. v \in Mounted(u)
  <2>1. CASE f.bind
    <3>1. (~f.bind /\ f.ro) = FALSE
      BY <2>1
    <3>2. v \in Attach(u, q, m.fs, FALSE)
      BY <2>1, <3>1
    <3> QED
      BY <2>1, <3>2
  <2>2. CASE ~f.bind
    <3>1. f.ro \in BOOLEAN
      BY DEF Flags
    <3>2. (~f.bind /\ f.ro) = f.ro
      BY <2>2, <3>1
    <3>3. v \in Attach(u, q, EffectiveFstype(m.fs), f.ro)
      BY <2>2, <3>2
    <3> QED
      BY <2>2, <3>3
  <2> QED
    BY <2>1, <2>2
<1> HIDE DEF Mounted, q
<1>3. Linked(u) # {}
  BY <1>2
<1> HIDE DEF Linked
<1>4. u \in Make(s, q)
  BY DEF q
<1> QED
  BY <1>1, <1>3, <1>4

(* The next of mounts: it can be made, and what it and those before it     *)
(* show is still to be seen.                                               *)
LEMMA ApplyFits ==
  ASSUME config \in Configs, MountsFit, NEW s, Good(s), NEW i \in 1 .. Len(config.mounts),
         RoBelow(s, i - 1), Seen(s, i - 1)
  PROVE  /\ ApplyOne(s, config.mounts[i]) # {}
         /\ \A t \in ApplyOne(s, config.mounts[i]) : RoBelow(t, i) /\ Seen(t, i)
<1> DEFINE m == config.mounts[i]
           q == Destination(i)
           f == Flags(m.options)
           ro == ~f.bind /\ f.ro
           fs == IF f.bind THEN m.fs ELSE EffectiveFstype(m.fs)
<1>1. q \in Paths /\ Len(config.mounts) \in Nat /\ i - 1 \in 0 .. Len(config.mounts)
  BY Entry, Lengths
<1>2. /\ IF f.bind THEN m.fs # "cgroup" ELSE ~f.propagation
      /\ m.fs = "devpts" => IsStrictPrefix(<<"dev">>, q)
  BY DEF MountsFit
<1>3. fs \in Systems /\ (m.fs \in {"devpts", "proc"} => fs = m.fs)
  BY <1>2, Entry DEF EffectiveFstype
<1>4. ro \in BOOLEAN /\ (ro => RoFirst(i))
  BY DEF RoFirst
<1>5. \A j \in 1 .. i - 1 : Destination(j) \in Paths /\ (RoFirst(j) => ~IsStrictPrefix(Destination(j), q))
  <2> SUFFICES ASSUME NEW j \in 1 .. i - 1
               PROVE  Destination(j) \in Paths /\ (RoFirst(j) => ~IsStrictPrefix(Destination(j), q))
    OBVIOUS
  <2>1. j \in 1 .. Len(config.mounts) /\ i \in Later(j)
    BY <1>1 DEF Later
  <2> QED
    BY <2>1, Entry DEF MountsFit, RoFirst, NothingBelow
<1>6. f.bind \/ ~f.propagation
  BY <1>2
<1>7. ASSUME NEW t \in ApplyOne(s, m) PROVE RoBelow(t, i) /\ Seen(t, i)
  <2>1. PICK u \in Make(s, q) : \E v :
          /\ \/ v \in Attach(u, q, fs, ro) /\ fs \in Systems
             \/ v = u /\ ~f.bind /\ f.propagation
          /\ IF m.fs = "devpts" THEN t \in LinkPtmx(v) ELSE t = v
    BY Applied
  <2>2. PICK v : /\ v \in Attach(u, q, fs, ro)
                 /\ IF m.fs = "devpts" THEN t \in LinkPtmx(v) ELSE t = v
    BY <1>6, <2>1
  <2> HIDE DEF fs, ro
  <2>3. Good(v) /\ RoBelow(v, i) /\ Seen(v, i)
    BY <1>3, <1>4, <2>2, MountedFits
  <2>4. t.view = v.view /\ v.exists \subseteq t.exists
    BY <2>2, <2>3, LinkGood
  <2> QED
    BY <2>3, <2>4, GrowsFit
<1>8. ApplyOne(s, m) # {}
  <2>1. PICK u \in Make(s, q) : TRUE
    BY <1>1, <1>5, MakeFits
  <2>2. q \in u.exists
    BY <1>1, <2>1, MakeSteady
  <2>3. PICK v \in Attach(u, q, fs, ro) : TRUE
    BY <1>3, <2>2, AttachFits
  <2>4. m.fs = "devpts" => LinkPtmx(v) # {}
    <3> HIDE DEF fs, ro
    <3> QED
      BY <1>1, <1>2, <1>3, <1>4, <1>5, <2>1, <2>3, LinkFits
  <2> QED
    BY <1>6, <2>1, <2>3, <2>4, ApplyPossible
<1> QED
  BY <1>7, <1>8

(* devices.rs and what is there before it.                                 *)

LEMMA NodesAre ==
  ASSUME config \in Configs
  PROVE  /\ DOMAIN Nodes = 1 .. Len(Nodes) /\ 1 \in 1 .. Len(Nodes) /\ Nodes[1].path = <<"dev", "null">>
<1> DEFINE D == [path : Paths, owned : BOOLEAN]
           null == [path |-> <<"dev", "null">>, owned |-> FALSE]
<1>1. config.extra \in Seq(D) /\ Len(config.extra) \in Nat
  BY ConfigsAssumption, LenProperties
<1>2. null \in D /\ null.path = <<"dev", "null">>
  BY NamedPaths
<1>3. Nodes = <<null>> \o config.extra
  BY DEF Nodes, Devices
<1> HIDE DEF null, D
<1>4. <<null>> \in Seq(D) /\ Len(<<null>>) = 1 /\ <<null>>[1] = null
  BY <1>2
<1>5. Nodes \in Seq(D) /\ Len(Nodes) = 1 + Len(config.extra) /\ Nodes[1] = null
  BY <1>1, <1>3, <1>4, ConcatProperties
<1> QED
  BY <1>1, <1>2, <1>5, LenProperties

NullThere(s) == <<"dev", "null">> \in s.exists

(* What exists, does so outside of what does not.                          *)
LEMMA NewKeeps ==
  ASSUME config \in Configs, NEW s, Good(s), NEW q \in Paths, q \notin s.exists, NEW fs, NEW ro, NEW t,
         Overlaid(s, t, q, fs, ro), NEW n \in 0 .. Len(config.mounts), Seen(s, n)
  PROVE  s.exists \subseteq t.exists /\ Seen(t, n)
<1>1. s.exists \subseteq Paths /\ \A p \in s.exists : ~IsPrefix(q, p)
  BY DEF Good, MountStates, Closed
<1>2. \A p \in s.exists : p \in t.exists /\ t.view[p] = s.view[p]
  BY <1>1 DEF Overlaid
<1>3. ASSUME NEW i \in 1 .. n PROVE DevptsAt(t, i) /\ ProcAt(t, i) /\ PointAt(t, i)
  <2>1. Destination(i) \in Paths
    BY Lengths, Entry
  <2>2. DevptsAt(s, i) /\ ProcAt(s, i) /\ PointAt(s, i)
    BY DEF Seen
  <2>3. DevptsAt(t, i) /\ ProcAt(t, i)
    BY <1>2, <2>2 DEF DevptsAt, ProcAt
  <2>4. PointAt(t, i)
    <3> SUFFICES ASSUME ReadonlyTmpfs(i) PROVE Destination(i) \in t.exists /\ IsMountPoint(t, Destination(i))
      BY DEF PointAt
    <3>1. Destination(i) \in s.exists /\ IsMountPoint(s, Destination(i))
      BY <2>2 DEF PointAt
    <3>2. ~IsStrictPrefix(q, Destination(i))
      BY <1>1, <3>1 DEF IsStrictPrefix
    <3>3. IsMountPoint(t, Destination(i))
      BY <2>1, <3>1, <3>2, OverlaidPoint
    <3> QED
      BY <1>2, <3>1, <3>3
  <2> QED
    BY <2>3, <2>4
<1> QED
  BY <1>2, <1>3 DEF Seen

(* More exists, nothing looks different.                                   *)
LEMMA AlikeFits ==
  ASSUME config \in Configs, NEW s, NEW t, s.exists \subseteq t.exists, NEW n \in 0 .. Len(config.mounts),
         \A p \in Paths : t.view[p].fs = s.view[p].fs /\ t.view[p].ro = s.view[p].ro /\ t.view[p].id = s.view[p].id
  PROVE  (RoBelow(s, n) => RoBelow(t, n)) /\ (Seen(s, n) => Seen(t, n))
<1>1. \A i \in 1 .. n : Destination(i) \in Paths
  BY Lengths, Entry
<1>2. \A i \in 1 .. n : IsMountPoint(s, Destination(i)) => IsMountPoint(t, Destination(i))
  <2> SUFFICES ASSUME NEW i \in 1 .. n, IsMountPoint(s, Destination(i)), Destination(i) # <<>>
               PROVE  t.view[Front(Destination(i))].id # t.view[Destination(i)].id
    BY DEF IsMountPoint
  <2>1. Destination(i) \in Paths /\ Front(Destination(i)) \in Paths
    BY <1>1, FrontOf
  <2> QED
    BY <2>1 DEF IsMountPoint
<1>3. RoBelow(s, n) => RoBelow(t, n)
  BY DEF RoBelow
<1>4. <<"proc", "sys">> \in Paths
  BY NamedPaths
<1>5. Seen(s, n) => Seen(t, n)
  BY <1>1, <1>2, <1>4 DEF Seen, DevptsAt, ProcAt, PointAt
<1> QED
  BY <1>3, <1>5

LEMMA CreateFits ==
  ASSUME config \in Configs, MountsFit, NEW s, Good(s), RoBelow(s, Len(config.mounts)), Seen(s, Len(config.mounts)),
         NEW k \in 1 .. Len(Nodes)
  PROVE  /\ CreateOne(s, Nodes[k], Bound) # {}
         /\ \A t \in CreateOne(s, Nodes[k], Bound) :
              /\ RoBelow(t, Len(config.mounts)) /\ Seen(t, Len(config.mounts))
              /\ s.exists \subseteq t.exists /\ Nodes[k].path \in t.exists
<1> DEFINE n == Len(config.mounts)
           d == Nodes[k]
           q == d.path
           b == Bound
<1>1. n \in Nat /\ n \in 0 .. n /\ n \in n .. n /\ q \in Paths /\ k \in DOMAIN Nodes /\ "device" \in Systems
  BY Lengths, NodesAre, ProvidesAssumption
<1>2. \A j \in 1 .. n : RoFirst(j) => ~IsStrictPrefix(Destination(j), q)
  BY <1>1 DEF MountsFit, RoFirst, NothingBelow
<1>3. Make(s, q) # {}
  BY <1>1, <1>2, MakeFits
<1>4. Node(s, d, b) # {}
  <2>1. CASE q \in s.exists
    BY <2>1 DEF Node
  <2>2. CASE q \notin s.exists
    <3>1. PICK u \in Make(s, q) : TRUE
      BY <1>3
    <3>2. q \in u.exists
      BY <1>1, <3>1, MakeSteady
    <3>3. Attach(u, q, "device", FALSE) # {}
      BY <1>1, <3>2, AttachFits
    <3>4. Node(s, d, b) = UNION {IF b THEN Attach(t, q, "device", FALSE) ELSE {t} : t \in Make(s, q)}
      BY <2>2 DEF Node
    <3>5. (IF b THEN Attach(u, q, "device", FALSE) ELSE {u}) # {}
      BY <3>3
    <3> QED
      BY <3>1, <3>4, <3>5
  <2> QED
    BY <2>1, <2>2
<1>5. ASSUME NEW u \in Node(s, d, b)
      PROVE  RoBelow(u, n) /\ Seen(u, n) /\ s.exists \subseteq u.exists /\ q \in u.exists /\ u \in MountStates
  <2>1. CASE q \in s.exists
    BY <2>1 DEF Node, Good
  <2>2. CASE q \notin s.exists
    <3>1. PICK v \in Make(s, q) : u \in IF b THEN Attach(v, q, "device", FALSE) ELSE {v}
      BY <2>2 DEF Node
    <3>2. CASE b
      <4>1. u \in Attach(v, q, "device", FALSE)
        BY <3>1, <3>2
      <4>2. Overlaid(s, u, q, "device", FALSE) /\ Good(u)
        BY <1>1, <4>1, AttachOverlaid
      <4>3. RoBelow(u, n)
        BY <1>1, <4>2, OverlaidRo
      <4>4. s.exists \subseteq u.exists /\ Seen(u, n)
        BY <1>1, <2>2, <4>2, NewKeeps
      <4> QED
        BY <4>2, <4>3, <4>4 DEF Overlaid, Good
    <3>3. CASE ~b
      <4>1. u = v
        BY <3>1, <3>3
      <4>2. v.view = s.view /\ s.exists \subseteq v.exists /\ q \in v.exists /\ Good(v)
        BY <1>1, MakeSteady
      <4> QED
        BY <4>1, <4>2, GrowsFit DEF Good
    <3> QED
      BY <3>2, <3>3
  <2> QED
    BY <2>1, <2>2
<1>6. CreateOne(s, d, b) # {}
  BY <1>4 DEF CreateOne
<1>7. ASSUME NEW t \in CreateOne(s, d, b)
      PROVE  RoBelow(t, n) /\ Seen(t, n) /\ s.exists \subseteq t.exists /\ q \in t.exists
  <2>1. PICK u \in Node(s, d, b) :
          t = [u EXCEPT !.devicesOwned = @ \/ (d.owned /\ u.view[q].fs \in {"device", "host"})]
    BY DEF CreateOne
  <2>2. u \in MountStates
    BY <1>5
  <2>3. t.view = u.view /\ t.exists = u.exists
    BY <2>1, <2>2 DEF MountStates
  <2> QED
    BY <1>5, <2>3, GrowsFit
<1> QED
  BY <1>6, <1>7

(* pivot.rs: the root is a private mount, and nothing becomes unbindable   *)
(* that was not asked to.                                                  *)
LEMMA PivotFits ==
  ASSUME config \in Configs, NEW s, Good(s), s.private, s.root = "mounted", "unbindable" \notin config.propagation
  PROVE  /\ UNION {SetPropagation(u, config.propagation) : u \in Pivot(s)} # {}
         /\ \A t \in UNION {SetPropagation(u, config.propagation) : u \in Pivot(s)} :
              /\ Bindable(t) /\ t.exists = s.exists
              /\ RoBelow(s, Len(config.mounts)) => RoBelow(t, Len(config.mounts))
              /\ Seen(s, Len(config.mounts)) => Seen(t, Len(config.mounts))
<1>1. UNION {SetPropagation(u, config.propagation) : u \in Pivot(s)} # {}
  BY DEF Pivot, SetPropagation
<1>2. ASSUME NEW t \in UNION {SetPropagation(u, config.propagation) : u \in Pivot(s)}
      PROVE  /\ Bindable(t) /\ t.exists = s.exists
             /\ RoBelow(s, Len(config.mounts)) => RoBelow(t, Len(config.mounts))
             /\ Seen(s, Len(config.mounts)) => Seen(t, Len(config.mounts))
  <2>1. PICK u \in Pivot(s) : t \in SetPropagation(u, config.propagation)
    OBVIOUS
  <2>2. /\ t.exists = s.exists
        /\ \A p \in Paths : /\ t.view[p].fs = s.view[p].fs /\ t.view[p].ro = s.view[p].ro
                            /\ t.view[p].id = s.view[p].id
                            /\ t.view[p].unbindable = ("unbindable" \in config.propagation)
    BY <2>1, PivotKeeps
  <2>3. Len(config.mounts) \in 0 .. Len(config.mounts)
    BY Lengths
  <2> QED
    BY <2>2, <2>3, AlikeFits DEF Bindable
<1> QED
  BY <1>1, <1>2

(* What is seen of all mounts is what the later steps need.                *)
LEMMA SeenAll ==
  ASSUME NEW s, Seen(s, Len(config.mounts))
  PROVE  Points(s) /\ \A i \in 1 .. Len(config.mounts) : ProcAt(s, i)
BY DEF Seen, Points, PointAt

LEMMA ConsoleApart ==
  ~IsPrefix(<<"dev", "console">>, <<"dev", "null">>) /\ ~IsPrefix(<<"dev", "console">>, <<"proc", "sys">>)
<1>1. /\ <<"dev", "console">> \in Seq(STRING) /\ <<"dev", "null">> \in Seq(STRING)
      /\ <<"proc", "sys">> \in Seq(STRING)
  BY NamedPaths, PathsAre
<1> DEFINE c == <<"dev", "console">>
           n == <<"dev", "null">>
           y == <<"proc", "sys">>
<1>2. Len(c) = 2 /\ c[2] = "console" /\ n[2] = "null" /\ y[2] = "sys"
  OBVIOUS
<1>3. "console" # "null" /\ "console" # "sys" /\ 2 \in 1 .. 2
  OBVIOUS
<1> HIDE DEF c, n, y
<1>4. c \in Seq(STRING) /\ n \in Seq(STRING) /\ y \in Seq(STRING)
  BY <1>1 DEF c, n, y
<1>5. ~IsPrefix(c, n)
  BY <1>2, <1>3, <1>4, PrefixMeans
<1>6. ~IsPrefix(c, y)
  BY <1>2, <1>3, <1>4, PrefixMeans
<1> QED
  BY <1>5, <1>6 DEF c, n, y

(* console.rs: the devpts is there, and the bind hides nothing needed.     *)
LEMMA ConsoleFits ==
  ASSUME config \in Configs, MountsFit, config.console, NEW s, Good(s), Bindable(s), NullThere(s),
         RoBelow(s, Len(config.mounts)), Seen(s, Len(config.mounts))
  PROVE  /\ SetupConsole(s) # {}
         /\ \A t \in SetupConsole(s) :
              NullThere(t) /\ Bindable(t) /\ Points(t) /\ \A i \in 1 .. Len(config.mounts) : ProcAt(t, i)
<1> DEFINE c == <<"dev", "console">>
           n == Len(config.mounts)
<1>1. c \in Paths /\ <<"dev", "null">> \in Paths /\ <<"proc", "sys">> \in Paths
  BY NamedPaths
<1>2. n \in Nat /\ n \in 0 .. n /\ "device" \in Systems
  BY Lengths, ProvidesAssumption
<1>3. \E p \in s.exists : s.view[p].fs = "devpts" /\ ~s.view[p].unbindable
  <2>1. PICK i \in 1 .. n : config.mounts[i].fs = "devpts" /\ NotCovered(Destination(i), i)
    BY DEF MountsFit
  <2>2. Destination(i) \in s.exists /\ s.view[Destination(i)].fs = "devpts"
    BY <2>1 DEF Seen, DevptsAt
  <2>3. Destination(i) \in Paths
    BY Entry
  <2> QED
    BY <2>2, <2>3 DEF Bindable
<1>4. SetupConsole(s) = UNION {Attach(u, c, "device", FALSE) : u \in Make(s, c)}
  BY <1>3 DEF SetupConsole
<1>5. \A j \in 1 .. n : RoFirst(j) => ~IsStrictPrefix(Destination(j), c)
  BY DEF MountsFit, RoFirst, NothingBelow
<1>6. SetupConsole(s) # {}
  <2>1. PICK u \in Make(s, c) : TRUE
    BY <1>1, <1>2, <1>5, MakeFits
  <2>2. c \in u.exists
    BY <1>1, MakeSteady
  <2>3. Attach(u, c, "device", FALSE) # {}
    BY <1>2, <2>2, AttachFits
  <2> QED
    BY <1>4, <2>1, <2>3
<1>7. ASSUME NEW t \in SetupConsole(s)
      PROVE  NullThere(t) /\ Bindable(t) /\ Points(t) /\ \A i \in 1 .. n : ProcAt(t, i)
  <2>1. PICK u \in Make(s, c) : t \in Attach(u, c, "device", FALSE)
    BY <1>4
  <2>2. Overlaid(s, t, c, "device", FALSE)
    BY <1>1, <1>2, <2>1, AttachOverlaid
  <2> HIDE DEF c
  <2>3. NullThere(t)
    BY <1>1, <2>2, ConsoleApart DEF Overlaid, NullThere, c
  <2>4. Bindable(t)
    BY <2>2 DEF Overlaid, Bindable, Made
  <2>5. Points(t)
    <3> SUFFICES ASSUME NEW i \in 1 .. n, ReadonlyTmpfs(i) PROVE IsMountPoint(t, Destination(i))
      BY DEF Points
    <3>1. Destination(i) \in Paths /\ IsMountPoint(s, Destination(i))
      BY Entry, SeenAll DEF Points
    <3>2. ~IsStrictPrefix(c, Destination(i))
      BY DEF MountsFit, NothingAbove, c
    <3> QED
      BY <1>1, <2>2, <3>1, <3>2, OverlaidPoint
  <2>6. ASSUME NEW i \in 1 .. n PROVE ProcAt(t, i)
    <3>1. ProcAt(s, i)
      BY DEF Seen
    <3>2. ~IsPrefix(c, <<"proc", "sys">>)
      BY ConsoleApart DEF c
    <3>3. /\ t.view[<<"proc", "sys">>] = s.view[<<"proc", "sys">>]
          /\ <<"proc", "sys">> \in s.exists => <<"proc", "sys">> \in t.exists
      BY <1>1, <2>2, <3>2 DEF Overlaid
    <3> QED
      BY <3>1, <3>3 DEF ProcAt
  <2> QED
    BY <2>3, <2>4, <2>5, <2>6
<1> QED
  BY <1>6, <1>7

(* harden.rs: what is masked leaves dev/null and the points below it.      *)
LEMMA MaskFits ==
  ASSUME config \in Configs, NEW s, Good(s), NullThere(s), Bindable(s), Points(s), NEW q \in Paths,
         ~IsStrictPrefix(q, <<"dev", "null">>),
         \A i \in 1 .. Len(config.mounts) : ReadonlyTmpfs(i) => ~IsStrictPrefix(q, Destination(i))
  PROVE  /\ MaskOne(s, q) # {}
         /\ \A t \in MaskOne(s, q) : NullThere(t) /\ Bindable(t) /\ Points(t)
<1>1. <<"dev", "null">> \in Paths /\ "masked" \in Systems
  BY NamedPaths, ProvidesAssumption
<1>2. CASE q \notin s.exists
  BY <1>2 DEF MaskOne
<1>3. CASE q \in s.exists
  <2>1. PICK ro \in BOOLEAN : MaskOne(s, q) = Attach(s, q, "masked", ro)
    BY <1>1, <1>3 DEF MaskOne, NullThere, Bindable
  <2>2. MaskOne(s, q) # {}
    BY <1>1, <1>3, <2>1, AttachFits
  <2>3. ASSUME NEW t \in MaskOne(s, q)
        PROVE  NullThere(t) /\ Bindable(t) /\ Points(t)
    <3>1. s \in Make(s, q)
      BY <1>3 DEF Make
    <3>2. Overlaid(s, t, q, "masked", ro)
      BY <1>1, <2>1, <3>1, AttachOverlaid
    <3>3. NullThere(t)
      BY <1>1, <3>2 DEF Overlaid, NullThere, IsStrictPrefix
    <3>4. Bindable(t)
      BY <3>2 DEF Overlaid, Bindable, Made
    <3>5. Points(t)
      <4> SUFFICES ASSUME NEW i \in 1 .. Len(config.mounts), ReadonlyTmpfs(i) PROVE IsMountPoint(t, Destination(i))
        BY DEF Points
      <4>1. Destination(i) \in Paths /\ IsMountPoint(s, Destination(i)) /\ ~IsStrictPrefix(q, Destination(i))
        BY Entry DEF Points
      <4> QED
        BY <3>2, <4>1, OverlaidPoint
    <3> QED
      BY <3>3, <3>4, <3>5
  <2> QED
    BY <2>2, <2>3
<1> QED
  BY <1>2, <1>3

(* A bind of q onto itself makes it a mount point and takes none away.     *)
LEMMA BindPoint ==
  ASSUME NEW s, Good(s), NEW q \in Paths, NEW t \in BindSelf(s, q), NEW d \in Paths, d = q \/ IsMountPoint(s, d)
  PROVE  IsMountPoint(t, d)
<1> SUFFICES ASSUME d # <<>> PROVE t.view[Front(d)].id # t.view[d].id
  BY DEF IsMountPoint
<1>1. /\ Front(d) \in Paths /\ IsPrefix(Front(d), d) /\ Front(d) # d
      /\ IsPrefix(q, d) /\ q # d => IsPrefix(q, Front(d))
  BY FrontOf
<1>2. d \in Seq(STRING) /\ Front(d) \in Seq(STRING) /\ q \in Seq(STRING) /\ IsPrefix(q, q)
  BY <1>1, PathsAre
<1>3. \A p \in Paths : t.view[p].id = IF IsPrefix(q, p) THEN Append(s.view[p].id, s.next) ELSE s.view[p].id
  BY BindGood
<1>4. s.view[d].id \in Seq(Nat) /\ s.view[Front(d)].id \in Seq(Nat) /\ s.next \in Nat
  BY <1>1 DEF Good, MountStates, Views
<1>5. CASE d = q
  <2>1. ~IsPrefix(q, Front(d))
    BY <1>1, <1>2, <1>5, Antisymmetric
  <2>2. t.view[Front(d)].id = s.view[Front(d)].id /\ t.view[d].id = Append(s.view[d].id, s.next)
    BY <1>1, <1>2, <1>3, <1>5, <2>1
  <2> QED
    BY <1>1, <2>2, FreshId
<1>6. CASE d # q
  <2>1. s.view[Front(d)].id # s.view[d].id
    BY <1>6 DEF IsMountPoint
  <2>2. CASE IsPrefix(q, d)
    <3>1. IsPrefix(q, Front(d))
      BY <1>1, <1>6, <2>2
    <3>2. /\ t.view[Front(d)].id = Append(s.view[Front(d)].id, s.next)
          /\ t.view[d].id = Append(s.view[d].id, s.next)
      BY <1>1, <1>3, <2>2, <3>1
    <3> DEFINE a == s.view[Front(d)].id
               b == s.view[d].id
               x == s.next
    <3>3. a \in Seq(Nat) /\ b \in Seq(Nat) /\ x \in Nat /\ a # b
      BY <1>4, <2>1
    <3> HIDE DEF a, b, x
    <3>4. Append(a, x) # Append(b, x)
      BY <3>3, AppendInjective
    <3> QED
      BY <3>2, <3>4 DEF a, b, x
  <2>3. CASE ~IsPrefix(q, d)
    <3>1. ~IsPrefix(q, Front(d))
      BY <1>1, <1>2, <2>3, Transitive
    <3> QED
      BY <1>1, <1>3, <2>1, <2>3, <3>1
  <2> QED
    BY <2>2, <2>3
<1> QED
  BY <1>5, <1>6

(* A remount changes neither.                                              *)
LEMMA RemountFits ==
  ASSUME config \in Configs, NEW s, Good(s), NEW q \in Paths, NEW t \in RemountReadonly(s, q)
  PROVE  (Bindable(s) => Bindable(t)) /\ (Points(s) => Points(t))
<1>1. \A p \in Paths : t.view[p].id = s.view[p].id /\ t.view[p].unbindable = s.view[p].unbindable
  BY RemountGood
<1>2. Bindable(s) => Bindable(t)
  BY <1>1 DEF Bindable
<1>3. ASSUME Points(s), NEW i \in 1 .. Len(config.mounts), ReadonlyTmpfs(i) PROVE IsMountPoint(t, Destination(i))
  <2> DEFINE d == Destination(i)
  <2>1. d \in Paths /\ IsMountPoint(s, d)
    BY <1>3, Entry DEF Points
  <2>2. d # <<>> => Front(d) \in Paths
    BY <2>1, FrontOf
  <2> HIDE DEF d
  <2>3. IsMountPoint(t, d)
    BY <1>1, <2>1, <2>2 DEF IsMountPoint
  <2> QED
    BY <2>3 DEF d
<1> QED
  BY <1>2, <1>3 DEF Points

LEMMA ReadonlyFits ==
  ASSUME config \in Configs, NEW s, Good(s), Bindable(s), Points(s), NEW q \in Paths
  PROVE  ReadonlyOne(s, q) # {} /\ \A t \in ReadonlyOne(s, q) : Bindable(t) /\ Points(t)
<1>1. CASE q \notin s.exists
  BY <1>1 DEF ReadonlyOne
<1>2. CASE q \in s.exists
  <2>1. ReadonlyOne(s, q) = UNION {RemountReadonly(u, q) : u \in BindSelf(s, q)}
    BY <1>2 DEF ReadonlyOne
  <2>2. PICK b \in BindSelf(s, q) : TRUE
    BY DEF BindSelf, Bindable
  <2>3. IsMountPoint(b, q)
    BY BindPoint
  <2>4. RemountReadonly(b, q) # {}
    BY <2>3 DEF RemountReadonly
  <2>5. ASSUME NEW t \in ReadonlyOne(s, q) PROVE Bindable(t) /\ Points(t)
    <3>1. PICK u \in BindSelf(s, q) : t \in RemountReadonly(u, q)
      BY <2>1
    <3>2. Good(u) /\ \A p \in Paths : u.view[p].unbindable = s.view[p].unbindable
      BY BindGood
    <3>3. Bindable(u)
      BY <3>2 DEF Bindable
    <3>4. Points(u)
      BY Entry, BindPoint DEF Points
    <3> QED
      BY <3>1, <3>2, <3>3, <3>4, RemountFits
  <2> QED
    BY <2>1, <2>4, <2>5
<1> QED
  BY <1>1, <1>2

LEMMA TmpfsFits ==
  ASSUME config \in Configs, NEW s, Good(s), Points(s), NEW i \in 1 .. Len(config.mounts)
  PROVE  RemountTmpfs(s, config.mounts[i]) # {} /\ \A t \in RemountTmpfs(s, config.mounts[i]) : Points(t)
<1>1. CASE ReadonlyTmpfs(i)
  <2>1. RemountTmpfs(s, config.mounts[i]) = RemountReadonly(s, Destination(i))
    BY <1>1 DEF RemountTmpfs, ReadonlyTmpfs, Destination
  <2>2. Destination(i) \in Paths /\ IsMountPoint(s, Destination(i))
    BY <1>1, Entry DEF Points
  <2>3. RemountReadonly(s, Destination(i)) # {}
    BY <2>2 DEF RemountReadonly
  <2> QED
    BY <2>1, <2>2, <2>3, RemountFits
<1>2. CASE ~ReadonlyTmpfs(i)
  BY <1>2 DEF RemountTmpfs, ReadonlyTmpfs
<1> QED
  BY <1>1, <1>2

-----------------------------------------------------------------------------
(* The credentials: each step is still permitted.                          *)

LEMMA NotRefused ==
  ASSUME IdentityFits, NEW c, Filters(c, LoadedFirst)
  PROVE  \A call \in {"setgroups", "setgid", "setuid", "prctl", "capset"} : Allowed(c, call)
<1>1. CASE LoadedFirst
  <2>1. PICK f \in config.filter : TRUE
    BY <1>1 DEF LoadedFirst
  <2>2. c.refused = f.refused
    BY <1>1 DEF Filters
  <2>3. f.refused \cap {"setgroups", "setgid", "setuid", "prctl", "capset"} = {}
    BY <1>1 DEF LoadedFirst, IdentityFits
  <2> QED
    BY <2>2, <2>3 DEF Allowed
<1>2. CASE ~LoadedFirst
  <2>1. c.refused = {}
    BY <1>2 DEF Filters
  <2> QED
    BY <2>1 DEF Allowed
<1> QED
  BY <1>1, <1>2

(* seccomp.rs: the first filter, with SYS_ADMIN or no_new_privs.           *)
LEMMA LoadPossible ==
  ASSUME IdentityFits, config.filter # {}, NEW c, Filters(c, FALSE), Can(c, "SYS_ADMIN") \/ c.nnp
  PROVE  UNION {ApplySeccomp(c, f) : f \in config.filter} # {}
<1>1. PICK f \in config.filter : f.sound
  BY DEF IdentityFits
<1>2. Allowed(c, "seccomp")
  BY DEF Filters, Allowed
<1>3. ApplySeccomp(c, f) # {}
  BY <1>1, <1>2 DEF ApplySeccomp, LoadFilter
<1> QED
  BY <1>3

(* process.rs: drop_privileges with all capabilities of root.              *)
LEMMA DropPossible ==
  ASSUME NEW c \in CredStates, c.effective = Caps, ~c.groupsDenied,
         \A call \in {"setgroups", "setgid", "setuid", "prctl"} : Allowed(c, call)
  PROVE  DropPrivileges(c, config) # {}
<1> DEFINE leavingRoot == c.uid = "root" /\ config.uid # "root"
           Kept(e, keep) == IF leavingRoot THEN Keep(e, keep) ELSE {e}
           a == [c EXCEPT !.groups = config.groups]
           L4(f) == UNION {Kept(g, FALSE) : g \in SetUid(f, config.uid)}
           L3(e) == UNION {L4(f) : f \in SetGid(e)}
           L2(d) == UNION {L3(e) : e \in Kept(d, TRUE)}
<1>1. DropPrivileges(c, config) = UNION {L2(d) : d \in SetGroups(c, config.groups)}
  BY DEF DropPrivileges
<1>2. \A cap \in {"SETGID", "SETUID"} : cap \in Caps
  BY CapsAssumption
<1>3. a \in SetGroups(c, config.groups) /\ a.effective = Caps /\ a.refused = c.refused
  <2>1. SetGroups(c, config.groups) = {a}
    BY <1>2 DEF SetGroups, Can
  <2>2. a.effective = c.effective /\ a.refused = c.refused
    BY DEF CredStates
  <2> QED
    BY <2>1, <2>2
<1>4. PICK e \in Kept(a, TRUE) : e.effective = Caps /\ e.refused = c.refused
  <2>1. CASE leavingRoot
    <3> DEFINE k == [a EXCEPT !.keep = TRUE]
    <3>1. k \in Kept(a, TRUE)
      BY <1>3, <2>1 DEF Keep, Allowed
    <3>2. k.effective = a.effective /\ k.refused = a.refused
      BY DEF CredStates
    <3> QED
      BY <1>3, <3>1, <3>2
  <2>2. CASE ~leavingRoot
    BY <1>3, <2>2
  <2> QED
    BY <2>1, <2>2
<1>5. e \in SetGid(e)
  BY <1>2, <1>4 DEF SetGid, Can, Allowed
<1>6. \E g \in SetUid(e, config.uid) : Kept(g, FALSE) # {}
  <2>1. e \in CredStates
    <3>1. a \in CredStates
      BY DEF CredStates
    <3>2. e = a \/ e = [a EXCEPT !.keep = TRUE]
      BY <1>4 DEF Keep
    <3> HIDE DEF a
    <3> QED
      BY <3>1, <3>2 DEF CredStates
  <2>2. PICK g \in SetUid(e, config.uid) : g.refused = e.refused
    BY <1>2, <1>4, <2>1 DEF SetUid, Can, Allowed, CredStates
  <2> QED
    BY <1>4, <2>2 DEF Keep, Allowed
<1> HIDE DEF a, Kept
<1>7. L4(e) # {}
  BY <1>6
<1> HIDE DEF L4
<1>8. L3(e) # {}
  BY <1>5, <1>7
<1> HIDE DEF L3
<1>9. L2(a) # {}
  BY <1>4, <1>8
<1> HIDE DEF L2
<1> QED
  BY <1>1, <1>3, <1>9

(* capabilities.rs: apply, of sets that fit each other and the bounding    *)
(* set.                                                                    *)
LEMMA ApplyCapsPossible ==
  ASSUME config \in Configs, IdentityFits, NEW s \in config.caps, NEW c, Typed(c), c.bounding = s.bounding,
         c.permitted = Caps, c.inheritable = {}, Allowed(c, "capset"), Allowed(c, "prctl")
  PROVE  ApplyCaps(c, s) # {}
<1> DEFINE A(x) == IF s.ambient \subseteq s.permitted \cap s.inheritable /\ Allowed(x, "prctl")
                   THEN {[x EXCEPT !.ambient = s.ambient]} ELSE {}
           E(x) == CapSet(x, s.effective, x.permitted, x.inheritable)
           P(x) == CapSet(x, x.effective, s.permitted, x.inheritable)
           I(x) == CapSet(x, x.effective, x.permitted, s.inheritable)
           L3(y) == UNION {A(z) : z \in I(y)}
           L2(x) == UNION {L3(y) : y \in P(x)}
<1>1. /\ s.permitted \in SUBSET Caps /\ s.effective \in SUBSET Caps
      /\ s.inheritable \in SUBSET Caps /\ s.ambient \in SUBSET Caps
  BY CapSetsAre
<1>2. /\ s.effective \subseteq s.permitted /\ s.ambient \subseteq s.permitted \cap s.inheritable
      /\ s.inheritable \subseteq s.permitted \cap s.bounding
  BY DEF IdentityFits
<1>3. ApplyCaps(c, s) = UNION {L2(x) : x \in E(c)}
  BY <1>2 DEF ApplyCaps
<1>4. PICK x \in E(c) : TRUE
  BY <1>1 DEF CapSet
<1>5. /\ Typed(x) /\ x.effective = s.effective /\ x.permitted = Caps /\ x.inheritable = {}
      /\ x.bounding = s.bounding /\ x.refused = c.refused
  <2>1. {} \in SUBSET Caps /\ Caps \in SUBSET Caps
    OBVIOUS
  <2> QED
    BY <1>1, <1>4, <2>1, Sets
<1>6. PICK y \in P(x) : TRUE
  BY <1>1, <1>2, <1>5 DEF CapSet, Allowed
<1>7. /\ Typed(y) /\ y.effective = s.effective /\ y.permitted = s.permitted /\ y.inheritable = {}
      /\ y.bounding = s.bounding /\ y.refused = c.refused
  <2>1. {} \in SUBSET Caps
    OBVIOUS
  <2> QED
    BY <1>1, <1>5, <1>6, <2>1, Sets
<1>8. PICK z \in I(y) : TRUE
  BY <1>1, <1>2, <1>7 DEF CapSet, Allowed
<1>9. z.refused = c.refused
  <2>1. {} \in SUBSET Caps
    OBVIOUS
  <2> QED
    BY <1>1, <1>7, <1>8, <2>1, Sets
<1>10. A(z) # {}
  BY <1>2, <1>9 DEF Allowed
<1> HIDE DEF A, E, P, I
<1>11. L3(y) # {}
  BY <1>8, <1>10
<1> HIDE DEF L3
<1>12. L2(x) # {}
  BY <1>6, <1>11
<1> HIDE DEF L2
<1> QED
  BY <1>3, <1>4, <1>12

-----------------------------------------------------------------------------
(* The invariant of a sensible configuration, which fails nowhere.         *)

Intact(s, n) == RoBelow(s, n) /\ Seen(s, n)

IntactAll(s) == Intact(s, Len(config.mounts))

ProcsAt(s) == \A i \in 1 .. Len(config.mounts) : ProcAt(s, i)

FitInv ==
  Sensible =>
    /\ pc # "failed"
    /\ pc \in {"mounts", "devices", "pivot"} => mnt.root = "mounted"
    /\ pc = "mounts" => Intact(mnt, done)
    /\ pc \in {"devices", "pivot", "console"} => IntactAll(mnt)
    /\ pc = "devices" /\ done > 0 => NullThere(mnt)
    /\ pc \in {"pivot", "console", "mask"} => NullThere(mnt)
    /\ pc = "identity" /\ OwnMounts => NullThere(mnt) /\ Bindable(mnt) /\ Points(mnt) /\ ProcsAt(mnt)
    /\ pc \in {"console", "mask", "readonly"} => Bindable(mnt)
    /\ pc \in {"mask", "readonly", "tmpfs"} => Points(mnt)

LEMMA SensiblePrimed == ASSUME config' = config PROVE (Sensible' <=> Sensible) /\ (OwnMounts' <=> OwnMounts)
<1>1. Valid' <=> Valid
  BY DEF Valid, NamespaceTypes, Listed
<1>2. NamespacesFit' <=> NamespacesFit
  BY <1>1 DEF NamespacesFit
<1>3. IdentityFits' <=> IdentityFits
  BY DEF IdentityFits
<1>4. OwnMounts' <=> OwnMounts
  BY DEF OwnMounts
<1>5. /\ \A i : Destination(i)' = Destination(i) /\ Later(i)' = Later(i) /\ (ReadonlyTmpfs(i)' <=> ReadonlyTmpfs(i))
      /\ Nodes' = Nodes
  BY DEF Destination, Later, ReadonlyTmpfs, Nodes
<1>6. \A i : /\ NothingBelow(i)' <=> NothingBelow(i)
             /\ NothingAbove(i)' <=> NothingAbove(i)
             /\ \A p : NotCovered(p, i)' <=> NotCovered(p, i)
  BY <1>5 DEF NothingBelow, NothingAbove, NotCovered
<1>7. MountsFit' <=> MountsFit
  BY <1>5, <1>6 DEF MountsFit
<1> QED
  BY <1>2, <1>3, <1>4, <1>7 DEF Sensible

LEMMA IntactPrimed ==
  ASSUME config' = config
  PROVE  /\ Intact(mnt, done)' <=> Intact(mnt', done')
         /\ IntactAll(mnt)' <=> IntactAll(mnt')
         /\ Points(mnt)' <=> Points(mnt')
         /\ ProcsAt(mnt)' <=> ProcsAt(mnt')
         /\ NullThere(mnt)' <=> NullThere(mnt')
         /\ Bindable(mnt)' <=> Bindable(mnt')
<1>1. \A i : Destination(i)' = Destination(i) /\ (ReadonlyTmpfs(i)' <=> ReadonlyTmpfs(i)) /\ (RoFirst(i)' <=> RoFirst(i))
  BY DEF Destination, ReadonlyTmpfs, RoFirst
<1>2. \A i : \A p : NotCovered(p, i)' <=> NotCovered(p, i)
  BY <1>1 DEF NotCovered, Later
<1>3. \A i : DevptsAt(mnt, i)' <=> DevptsAt(mnt', i)
  BY <1>1, <1>2 DEF DevptsAt
<1>4. \A i : ProcAt(mnt, i)' <=> ProcAt(mnt', i)
  BY <1>1, <1>2 DEF ProcAt
<1>5. \A i : PointAt(mnt, i)' <=> PointAt(mnt', i)
  BY <1>1 DEF PointAt
<1> QED
  BY <1>1, <1>3, <1>4, <1>5 DEF Intact, IntactAll, RoBelow, Seen, Points, ProcsAt, NullThere, Bindable

LEMMA FitInit == Init => FitInv
BY DEF Init, FitInv

LEMMA PlanFit == ASSUME FitInv, Plan PROVE FitInv'
<1>1. /\ pc = "plan" /\ config' = config
      /\ pc' = IF /\ Valid
                  /\ \A a \in config.layers : ~FromAnnotations(a, config.bundle).refused
                  /\ \A l \in Layers : "mnt" \in config.create /\ Prepares(l, config.there, config.device)
               THEN "join" ELSE "failed"
  BY DEF Plan, GoOn
<1>2. Sensible => pc' = "join"
  <2>1. Sensible => Valid /\ config.layers = {}
    BY DEF Sensible, NamespacesFit
  <2>2. config.layers = {} => Layers = {}
    BY DEF Layers
  <2> QED
    BY <1>1, <2>1, <2>2
<1> QED
  BY <1>1, <1>2, SensiblePrimed DEF FitInv

(* The time namespace alone is still to be joined once the mount namespace *)
(* is, and it is not asked for together with that.                         *)
LEMMA JoinFit == ASSUME NsInv, FitInv, JoinOne PROVE FitInv'
<1>1. pc = "join" /\ config' = config /\ pc' \in {"join", "failed"}
  BY OtherMoves
<1>2. ASSUME Sensible, pc' = "failed" PROVE FALSE
  <2>1. PICK k \in left : ns["mnt"] # "host"
    BY <1>1, <1>2 DEF JoinOne, NextToJoin
  <2>2. left \subseteq ToSet(config.join) /\ left \subseteq {"time"} /\ "mnt" \in Kinds \ {"time"}
        /\ ns["mnt"] = IF "mnt" \in ToSet(config.join) \ left THEN "joined" ELSE "host"
    BY <1>1, <2>1, KindsAre DEF NsInv
  <2>3. {"mnt", "time"} \subseteq ToSet(config.join)
    BY <2>1, <2>2
  <2> QED
    BY <1>2, <2>3 DEF Sensible, NamespacesFit
<1> QED
  BY <1>1, <1>2, SensiblePrimed DEF FitInv

LEMMA UnshareFit == ASSUME FitInv, Unshare PROVE FitInv'
<1> DEFINE R == IF "user" \in config.create THEN WriteMappings(cred, config.mappings, config.asRoot) ELSE {cred}
<1>1. pc = "join" /\ config' = config /\ pc' = IF R # {} THEN "rootfs" ELSE "failed"
  BY DEF Unshare, CredChange, GoOn
<1>2. Sensible => R # {}
  BY DEF Sensible, NamespacesFit, WriteMappings
<1> QED
  BY <1>1, <1>2, SensiblePrimed DEF FitInv

LEMMA RootfsFit == ASSUME MntInv, FitInv, Rootfs PROVE FitInv'
<1>1. pc = "rootfs" /\ config' = config /\ done' = done
  BY OtherMoves
<1>2. mnt = Untouched /\ done = 0
  BY <1>1 DEF MntInv, MountPcs
<1> SUFFICES ASSUME Sensible PROVE FitInv'
  BY <1>1, SensiblePrimed DEF FitInv
<1>3. pc' = IF OwnMounts THEN "mounts" ELSE "identity"
  <2>1. Layers = {}
    BY DEF Sensible, NamespacesFit, Layers
  <2> QED
    BY <2>1 DEF Rootfs, GoOn
<1>4. CASE OwnMounts
  <2>1. Plain(mnt') /\ mnt'.root = "mounted" /\ pc' = "mounts"
    BY <1>2, <1>3, <1>4, RootfsIs
  <2>2. \A p \in Paths : mnt'.view[p].ro = FALSE
    BY <2>1, PlainGood
  <2>3. Intact(mnt', 0)
    BY <2>2 DEF Intact, RoBelow, Seen
  <2>4. Intact(mnt, done)'
    BY <1>1, <1>2, <2>3, IntactPrimed
  <2> QED
    BY <2>1, <2>4 DEF FitInv
<1>5. CASE ~OwnMounts
  <2>1. ~OwnMounts' /\ pc' = "identity"
    BY <1>1, <1>3, <1>5, SensiblePrimed
  <2> QED
    BY <2>1 DEF FitInv
<1> QED
  BY <1>4, <1>5

(* In its own mount namespace a sensible configuration has fitting mounts. *)
LEMMA SensibleMounts ==
  ASSUME MntInv, Sensible, pc \in MountPcs
  PROVE  OwnMounts /\ MountsFit /\ Good(mnt) /\ mnt.private
BY DEF MntInv, Sensible

LEMMA MountAllFit == ASSUME config \in Configs, MntInv, FitInv, MountAll PROVE FitInv'
<1>1. config' = config /\ pc = "mounts"
  BY MountMoves, MountAllIs DEF MountMove
<1> SUFFICES ASSUME Sensible PROVE FitInv'
  BY <1>1, SensiblePrimed DEF FitInv
<1>2. MountsFit /\ Good(mnt) /\ done \in Nat /\ Len(config.mounts) \in Nat
  BY <1>1, SensibleMounts, Lengths DEF MountPcs, MntInv
<1>3. mnt.root = "mounted" /\ RoBelow(mnt, done) /\ Seen(mnt, done)
  BY <1>1 DEF FitInv, Intact
<1>4. done < Len(config.mounts) =>
        /\ ApplyOne(mnt, config.mounts[done + 1]) # {}
        /\ \A t \in ApplyOne(mnt, config.mounts[done + 1]) :
             t.root = "mounted" /\ RoBelow(t, done + 1) /\ Seen(t, done + 1)
  <2> SUFFICES ASSUME done < Len(config.mounts)
               PROVE  /\ ApplyOne(mnt, config.mounts[done + 1]) # {}
                      /\ \A t \in ApplyOne(mnt, config.mounts[done + 1]) :
                           t.root = "mounted" /\ RoBelow(t, done + 1) /\ Seen(t, done + 1)
    OBVIOUS
  <2> DEFINE i == done + 1
  <2>1. i \in 1 .. Len(config.mounts) /\ i - 1 = done
    BY <1>2
  <2> HIDE DEF i
  <2>2. RoBelow(mnt, i - 1) /\ Seen(mnt, i - 1)
    BY <1>3, <2>1
  <2>3. /\ ApplyOne(mnt, config.mounts[i]) # {}
        /\ \A t \in ApplyOne(mnt, config.mounts[i]) : RoBelow(t, i) /\ Seen(t, i)
    BY <1>2, <2>1, <2>2, ApplyFits
  <2>4. \A t \in ApplyOne(mnt, config.mounts[i]) : t.root = mnt.root
    BY <1>2, <2>1, ApplyKeeps DEF Steady
  <2> QED
    BY <1>3, <2>3, <2>4 DEF i
<1>5. CASE /\ done < Len(config.mounts) /\ done' = done + 1 /\ pc' = "mounts"
           /\ mnt' \in ApplyOne(mnt, config.mounts[done + 1])
  <2>1. mnt'.root = "mounted" /\ Intact(mnt', done')
    BY <1>4, <1>5 DEF Intact
  <2> QED
    BY <1>1, <1>5, <2>1, IntactPrimed DEF FitInv
<1>6. CASE done = Len(config.mounts) /\ done' = 0 /\ pc' = "devices" /\ mnt' = mnt
  <2>1. IntactAll(mnt')
    BY <1>3, <1>6 DEF IntactAll, Intact
  <2> QED
    BY <1>1, <1>3, <1>6, <2>1, IntactPrimed DEF FitInv
<1> QED
  BY <1>4, <1>5, <1>6, MountAllIs

LEMMA CreateDevicesFit == ASSUME config \in Configs, MntInv, FitInv, CreateDevices PROVE FitInv'
<1>1. config' = config /\ pc = "devices"
  BY MountMoves, CreateDevicesIs DEF MountMove
<1> SUFFICES ASSUME Sensible PROVE FitInv'
  BY <1>1, SensiblePrimed DEF FitInv
<1>2. MountsFit /\ Good(mnt) /\ done \in Nat /\ Len(Nodes) \in Nat /\ 1 \in 1 .. Len(Nodes)
  BY <1>1, SensibleMounts, Lengths, NodesAre DEF MountPcs, MntInv
<1>3. /\ mnt.root = "mounted" /\ RoBelow(mnt, Len(config.mounts)) /\ Seen(mnt, Len(config.mounts))
      /\ done > 0 => NullThere(mnt)
  BY <1>1 DEF FitInv, Intact, IntactAll
<1>4. done < Len(Nodes) =>
        /\ CreateOne(mnt, Nodes[done + 1], Bound) # {}
        /\ \A t \in CreateOne(mnt, Nodes[done + 1], Bound) :
             /\ t.root = "mounted" /\ RoBelow(t, Len(config.mounts)) /\ Seen(t, Len(config.mounts))
             /\ NullThere(t)
  <2> SUFFICES ASSUME done < Len(Nodes)
               PROVE  /\ CreateOne(mnt, Nodes[done + 1], Bound) # {}
                      /\ \A t \in CreateOne(mnt, Nodes[done + 1], Bound) :
                           /\ t.root = "mounted" /\ RoBelow(t, Len(config.mounts)) /\ Seen(t, Len(config.mounts))
                           /\ NullThere(t)
    OBVIOUS
  <2> DEFINE k == done + 1
  <2>1. k \in 1 .. Len(Nodes) /\ (k = 1 \/ done > 0)
    BY <1>2
  <2> HIDE DEF k
  <2>2. /\ CreateOne(mnt, Nodes[k], Bound) # {}
        /\ \A t \in CreateOne(mnt, Nodes[k], Bound) :
             /\ RoBelow(t, Len(config.mounts)) /\ Seen(t, Len(config.mounts))
             /\ mnt.exists \subseteq t.exists /\ Nodes[k].path \in t.exists
    BY <1>2, <1>3, <2>1, CreateFits
  <2>3. \A t \in CreateOne(mnt, Nodes[k], Bound) : t.root = mnt.root
    BY <1>2, <2>1, Lengths, CreateKeeps
  <2>4. \A t \in CreateOne(mnt, Nodes[k], Bound) : NullThere(t)
    <3>1. CASE k = 1
      BY <2>2, <3>1, NodesAre DEF NullThere
    <3>2. CASE done > 0
      BY <1>3, <2>2, <3>2 DEF NullThere
    <3> QED
      BY <2>1, <3>1, <3>2
  <2> QED
    BY <1>3, <2>2, <2>3, <2>4 DEF k
<1>5. CASE /\ done < Len(Nodes) /\ done' = done + 1 /\ pc' = "devices"
           /\ mnt' \in CreateOne(mnt, Nodes[done + 1], Bound)
  <2>1. mnt'.root = "mounted" /\ IntactAll(mnt') /\ NullThere(mnt')
    BY <1>4, <1>5 DEF IntactAll, Intact
  <2> QED
    BY <1>1, <1>5, <2>1, IntactPrimed DEF FitInv
<1>6. CASE done = Len(Nodes) /\ done' = 0 /\ pc' = "pivot" /\ mnt' = mnt
  <2>1. IntactAll(mnt') /\ NullThere(mnt')
    BY <1>2, <1>3, <1>6 DEF IntactAll, Intact
  <2> QED
    BY <1>1, <1>3, <1>6, <2>1, IntactPrimed DEF FitInv
<1> QED
  BY <1>4, <1>5, <1>6, CreateDevicesIs

LEMMA PivotFit == ASSUME config \in Configs, MntInv, FitInv, PivotRoot PROVE FitInv'
<1>1. config' = config /\ pc = "pivot"
  BY MountMoves, PivotRootIs DEF MountMove
<1> SUFFICES ASSUME Sensible PROVE FitInv'
  BY <1>1, SensiblePrimed DEF FitInv
<1>2. MountsFit /\ Good(mnt) /\ mnt.private
  BY <1>1, SensibleMounts DEF MountPcs
<1>3. mnt.root = "mounted" /\ RoBelow(mnt, Len(config.mounts)) /\ Seen(mnt, Len(config.mounts)) /\ NullThere(mnt)
  BY <1>1 DEF FitInv, Intact, IntactAll
<1>4. "unbindable" \notin config.propagation
  BY <1>2 DEF MountsFit
<1>5. /\ Pivoted # {}
      /\ \A t \in Pivoted : /\ Bindable(t) /\ t.exists = mnt.exists
                            /\ RoBelow(t, Len(config.mounts)) /\ Seen(t, Len(config.mounts))
  BY <1>2, <1>3, <1>4, PivotFits DEF Pivoted
<1>6. pc' = "console" /\ mnt' \in Pivoted
  BY <1>5, PivotRootIs
<1>7. Bindable(mnt') /\ NullThere(mnt') /\ IntactAll(mnt')
  BY <1>3, <1>5, <1>6 DEF NullThere, IntactAll, Intact
<1> QED
  BY <1>1, <1>6, <1>7, IntactPrimed DEF FitInv

LEMMA ConsoleFit == ASSUME config \in Configs, MntInv, FitInv, Console PROVE FitInv'
<1>1. config' = config /\ pc = "console"
  BY MountMoves, ConsoleIs DEF MountMove
<1> SUFFICES ASSUME Sensible PROVE FitInv'
  BY <1>1, SensiblePrimed DEF FitInv
<1>2. MountsFit /\ Good(mnt)
  BY <1>1, SensibleMounts DEF MountPcs
<1>3. /\ RoBelow(mnt, Len(config.mounts)) /\ Seen(mnt, Len(config.mounts)) /\ NullThere(mnt) /\ Bindable(mnt)
  BY <1>1 DEF FitInv, Intact, IntactAll
<1> DEFINE R == IF config.console THEN SetupConsole(mnt) ELSE {mnt}
<1>4. /\ R # {}
      /\ \A t \in R : NullThere(t) /\ Bindable(t) /\ Points(t) /\ ProcsAt(t)
  <2>1. CASE config.console
    BY <1>2, <1>3, <2>1, ConsoleFits DEF ProcsAt
  <2>2. CASE ~config.console
    BY <1>3, <2>2, SeenAll DEF ProcsAt
  <2> QED
    BY <2>1, <2>2
<1>5. pc' = "identity" /\ mnt' \in R
  BY <1>4, ConsoleIs
<1>6. NullThere(mnt') /\ Bindable(mnt') /\ Points(mnt') /\ ProcsAt(mnt')
  BY <1>4, <1>5
<1> QED
  BY <1>1, <1>5, <1>6, IntactPrimed DEF FitInv

(* The sysctls are written where proc was mounted, and still is.           *)
LEMMA IdentityFit == ASSUME config \in Configs, MntInv, FitInv, Identity PROVE FitInv'
<1>1. config' = config /\ pc = "identity" /\ mnt' = mnt
  BY OtherMoves
<1> SUFFICES ASSUME Sensible PROVE FitInv'
  BY <1>1, SensiblePrimed DEF FitInv
<1>2. OwnMounts => MountsFit /\ NullThere(mnt) /\ Bindable(mnt) /\ Points(mnt) /\ ProcsAt(mnt)
  BY <1>1 DEF FitInv, Sensible
<1>3. config.sysctl /\ OwnMounts => <<"proc", "sys">> \in mnt.exists /\ ~mnt.view[<<"proc", "sys">>].ro
  <2> SUFFICES ASSUME config.sysctl, OwnMounts
               PROVE  <<"proc", "sys">> \in mnt.exists /\ ~mnt.view[<<"proc", "sys">>].ro
    OBVIOUS
  <2>1. PICK i \in 1 .. Len(config.mounts) :
          /\ config.mounts[i].fs = "proc" /\ Destination(i) = <<"proc">>
          /\ ~Flags(config.mounts[i].options).ro /\ NotCovered(<<"proc", "sys">>, i)
    BY <1>2 DEF MountsFit
  <2>2. ProcAt(mnt, i)
    BY <1>2 DEF ProcsAt
  <2> QED
    BY <2>1, <2>2 DEF ProcAt
<1>4. pc' = IF OwnMounts THEN "mask" ELSE "limits"
  BY <1>3 DEF Identity, GoOn
<1>5. CASE OwnMounts
  <2>1. NullThere(mnt') /\ Bindable(mnt') /\ Points(mnt')
    BY <1>1, <1>2, <1>5
  <2> QED
    BY <1>1, <1>4, <1>5, <2>1, IntactPrimed DEF FitInv
<1>6. CASE ~OwnMounts
  BY <1>4, <1>6 DEF FitInv
<1> QED
  BY <1>5, <1>6

LEMMA MaskFit == ASSUME config \in Configs, MntInv, FitInv, Mask PROVE FitInv'
<1>1. config' = config /\ pc = "mask"
  BY MountMoves, MaskIs DEF MountMove
<1> SUFFICES ASSUME Sensible PROVE FitInv'
  BY <1>1, SensiblePrimed DEF FitInv
<1>2. MountsFit /\ Good(mnt) /\ done \in Nat
  BY <1>1, SensibleMounts DEF MountPcs, MntInv
<1>3. NullThere(mnt) /\ Bindable(mnt) /\ Points(mnt)
  BY <1>1 DEF FitInv
<1>4. done < Len(config.masked) =>
        /\ MaskOne(mnt, config.masked[done + 1]) # {}
        /\ \A t \in MaskOne(mnt, config.masked[done + 1]) : NullThere(t) /\ Bindable(t) /\ Points(t)
  <2> SUFFICES ASSUME done < Len(config.masked)
               PROVE  /\ MaskOne(mnt, config.masked[done + 1]) # {}
                      /\ \A t \in MaskOne(mnt, config.masked[done + 1]) : NullThere(t) /\ Bindable(t) /\ Points(t)
    OBVIOUS
  <2> DEFINE k == done + 1
  <2>1. k \in DOMAIN config.masked /\ config.masked[k] \in Paths
    BY <1>2, Lengths
  <2> HIDE DEF k
  <2>2. ~IsStrictPrefix(config.masked[k], <<"dev", "null">>)
    BY <1>2, <2>1 DEF MountsFit
  <2>3. \A i \in 1 .. Len(config.mounts) : ReadonlyTmpfs(i) => ~IsStrictPrefix(config.masked[k], Destination(i))
    BY <1>2, <2>1 DEF MountsFit, NothingAbove
  <2>4. /\ MaskOne(mnt, config.masked[k]) # {}
        /\ \A t \in MaskOne(mnt, config.masked[k]) : NullThere(t) /\ Bindable(t) /\ Points(t)
    BY <1>2, <1>3, <2>1, <2>2, <2>3, MaskFits
  <2> QED
    BY <2>4 DEF k
<1>5. pc' \in {"mask", "readonly"} /\ NullThere(mnt') /\ Bindable(mnt') /\ Points(mnt')
  BY <1>3, <1>4, MaskIs
<1> QED
  BY <1>1, <1>5, IntactPrimed DEF FitInv

LEMMA ReadonlyFit == ASSUME config \in Configs, MntInv, FitInv, Readonly PROVE FitInv'
<1>1. config' = config /\ pc = "readonly"
  BY MountMoves, ReadonlyIs DEF MountMove
<1> SUFFICES ASSUME Sensible PROVE FitInv'
  BY <1>1, SensiblePrimed DEF FitInv
<1>2. Good(mnt) /\ done \in Nat /\ Bindable(mnt) /\ Points(mnt)
  BY <1>1, SensibleMounts DEF MountPcs, MntInv, FitInv
<1>3. done < Len(config.readonly) =>
        /\ ReadonlyOne(mnt, config.readonly[done + 1]) # {}
        /\ \A t \in ReadonlyOne(mnt, config.readonly[done + 1]) : Bindable(t) /\ Points(t)
  <2>1. done < Len(config.readonly) => config.readonly[done + 1] \in Paths
    BY <1>2, Lengths
  <2> QED
    BY <1>2, <2>1, ReadonlyFits
<1>4. pc' \in {"readonly", "tmpfs"} /\ Bindable(mnt') /\ Points(mnt')
  BY <1>2, <1>3, ReadonlyIs
<1> QED
  BY <1>1, <1>4, IntactPrimed DEF FitInv

LEMMA TmpfsFit == ASSUME config \in Configs, MntInv, FitInv, Tmpfs PROVE FitInv'
<1>1. config' = config /\ pc = "tmpfs"
  BY MountMoves, TmpfsIs DEF MountMove
<1> SUFFICES ASSUME Sensible PROVE FitInv'
  BY <1>1, SensiblePrimed DEF FitInv
<1>2. Good(mnt) /\ done \in Nat /\ Points(mnt)
  BY <1>1, SensibleMounts DEF MountPcs, MntInv, FitInv
<1>3. done < Len(config.mounts) =>
        /\ RemountTmpfs(mnt, config.mounts[done + 1]) # {}
        /\ \A t \in RemountTmpfs(mnt, config.mounts[done + 1]) : Points(t)
  <2>1. done < Len(config.mounts) => done + 1 \in 1 .. Len(config.mounts)
    BY <1>2, Lengths
  <2> QED
    BY <1>2, <2>1, TmpfsFits
<1>4. pc' \in {"tmpfs", "roRoot"} /\ Points(mnt')
  BY <1>2, <1>3, TmpfsIs
<1> QED
  BY <1>1, <1>4, IntactPrimed DEF FitInv

LEMMA RootReadonlyFit == ASSUME FitInv, RootReadonly PROVE FitInv'
<1>1. config' = config /\ pc = "roRoot"
  BY MountMoves, RootReadonlyIs DEF MountMove
<1>2. RemountReadonly(mnt, <<>>) # {}
  BY DEF RemountReadonly, IsMountPoint
<1>3. pc' = "limits"
  BY <1>2, RootReadonlyIs DEF ReadonlyRootfs
<1> QED
  BY <1>1, <1>3, SensiblePrimed DEF FitInv

(* No privilege is missed, and no system call is refused.                  *)
LEMMA CredFit == ASSUME NsInv, CredInv, FitInv, CredMove PROVE FitInv'
<1>1. config' = config /\ pc \in CredPcs /\ pc' \in CredPcs \cup {"ready", "failed"}
  BY CredMoves
<1> SUFFICES ASSUME Sensible PROVE pc' # "failed"
  BY <1>1, SensiblePrimed DEF FitInv, CredPcs
<1>2. config \in Configs /\ IdentityFits /\ config.asRoot /\ Typed(cred) /\ ~cred.groupsDenied
  BY DEF NsInv, Sensible, NamespacesFit, CredInv
<1>3. CASE Limits
  <2>1. cred.effective = Caps /\ pc = "limits"
    BY <1>3 DEF Limits, CredStep, CredChange, CredInv
  <2>2. ApplyLimits(cred, config) # {}
    BY <2>1, CapsAssumption DEF ApplyLimits, Can
  <2> QED
    BY <1>3, <2>2 DEF Limits, CredStep, CredChange, GoOn
<1>4. CASE FilterFirst
  <2> DEFINE R == IF config.nnp \/ config.filter = {} THEN {cred} ELSE Filtered
  <2>1. cred.effective = Caps /\ Filters(cred, FALSE)
    BY <1>4 DEF FilterFirst, CredStep, CredChange, CredInv
  <2>2. Can(cred, "SYS_ADMIN")
    BY <2>1, CapsAssumption DEF Can
  <2>3. R # {}
    BY <1>2, <2>1, <2>2, LoadPossible DEF Filtered
  <2> HIDE DEF R
  <2>4. pc' = IF R # {} THEN "bounding" ELSE "failed"
    BY <1>4 DEF FilterFirst, CredStep, CredChange, GoOn, R
  <2> QED
    BY <2>3, <2>4
<1>5. CASE Bounding
  <2> DEFINE R == IF config.caps = {} THEN {cred} ELSE UNION {DropBounding(cred, c) : c \in config.caps}
  <2>1. cred.effective = Caps /\ Filters(cred, LoadedFirst)
    BY <1>5 DEF Bounding, CredStep, CredChange, CredInv
  <2>2. Can(cred, "SETPCAP") /\ Allowed(cred, "prctl")
    BY <1>2, <2>1, CapsAssumption, NotRefused DEF Can
  <2>3. \A c \in config.caps : DropBounding(cred, c) # {}
    BY <2>2 DEF DropBounding
  <2>4. R # {}
    BY <2>3
  <2> HIDE DEF R
  <2>5. pc' = IF R # {} THEN "ids" ELSE "failed"
    BY <1>5 DEF Bounding, CredStep, CredChange, GoOn, R
  <2> QED
    BY <2>4, <2>5
<1>6. CASE Ids
  <2>1. cred.effective = Caps /\ Filters(cred, LoadedFirst)
    BY <1>6 DEF Ids, CredStep, CredChange, CredInv
  <2>2. \A call \in {"setgroups", "setgid", "setuid", "prctl"} : Allowed(cred, call)
    BY <1>2, <2>1, NotRefused
  <2>3. DropPrivileges(cred, config) # {}
    BY <1>2, <2>1, <2>2, DropPossible DEF Typed
  <2> QED
    BY <1>6, <2>3 DEF Ids, CredStep, CredChange, GoOn
<1>7. CASE Capabilities
  <2> DEFINE R == IF config.caps = {} THEN {cred} ELSE UNION {ApplyCaps(cred, c) : c \in config.caps}
  <2>1. /\ Filters(cred, LoadedFirst) /\ cred.permitted = Caps /\ cred.inheritable = {}
        /\ \A c \in config.caps : cred.bounding = c.bounding
    BY <1>7 DEF Capabilities, CredStep, CredChange, CredInv
  <2>2. Allowed(cred, "capset") /\ Allowed(cred, "prctl")
    BY <1>2, <2>1, NotRefused
  <2>3. \A c \in config.caps : ApplyCaps(cred, c) # {}
    BY <1>2, <2>1, <2>2, ApplyCapsPossible
  <2>4. R # {}
    BY <2>3
  <2> HIDE DEF R
  <2>5. pc' = IF R # {} THEN "nnp" ELSE "failed"
    BY <1>7 DEF Capabilities, CredStep, CredChange, GoOn, R
  <2> QED
    BY <2>4, <2>5
<1>8. CASE NoNewPrivs
  <2> DEFINE R == IF config.nnp THEN SetNoNewPrivs(cred) ELSE {cred}
  <2>1. Filters(cred, LoadedFirst)
    BY <1>8 DEF NoNewPrivs, CredStep, CredChange, CredInv
  <2>2. Allowed(cred, "prctl")
    BY <1>2, <2>1, NotRefused
  <2>3. R # {}
    BY <2>2 DEF SetNoNewPrivs
  <2> HIDE DEF R
  <2>4. pc' = IF R # {} THEN "filterLast" ELSE "failed"
    BY <1>8 DEF NoNewPrivs, CredStep, CredChange, GoOn, R
  <2> QED
    BY <2>3, <2>4
<1>9. CASE FilterLast
  <2> DEFINE R == IF ~config.nnp \/ config.filter = {} THEN {cred} ELSE Filtered
  <2>1. Filters(cred, LoadedFirst) /\ cred.nnp = config.nnp
    BY <1>9 DEF FilterLast, CredStep, CredChange, CredInv
  <2>2. config.nnp => Filters(cred, FALSE)
    BY <2>1 DEF LoadedFirst, Filters
  <2>3. R # {}
    BY <1>2, <2>1, <2>2, LoadPossible DEF Filtered
  <2> HIDE DEF R
  <2>4. pc' = IF R # {} THEN "ready" ELSE "failed"
    BY <1>9 DEF FilterLast, CredStep, CredChange, GoOn, R
  <2> QED
    BY <2>3, <2>4
<1> QED
  BY <1>3, <1>4, <1>5, <1>6, <1>7, <1>8, <1>9 DEF CredMove

LEMMA FitNext == ASSUME IInv, FitInv, [Next]_vars PROVE FitInv'
<1>1. config \in Configs
  BY DEF IInv, NsInv
<1>2. CASE UNCHANGED vars
  <2>1. config' = config /\ pc' = pc /\ mnt' = mnt /\ done' = done
    BY <1>2 DEF vars
  <2> QED
    BY <2>1, SensiblePrimed, IntactPrimed DEF FitInv
<1>3. CASE MountMove
  BY <1>1, <1>3, MountAllFit, CreateDevicesFit, PivotFit, ConsoleFit, MaskFit, ReadonlyFit, TmpfsFit, RootReadonlyFit
     DEF MountMove, IInv
<1>4. CASE CredMove
  BY <1>4, CredFit DEF IInv
<1> QED
  BY <1>1, <1>2, <1>3, <1>4, PlanFit, JoinFit, UnshareFit, RootfsFit, IdentityFit, Moves DEF IInv

(* A runtime that is root sets up every configuration that asks for        *)
(* nothing impossible: no step fails for a file, a mount or a privilege    *)
(* that an earlier one hid, made read-only or gave up, and no system call  *)
(* of the setup meets the filter it loaded.                                *)
THEOREM NothingFails == Spec => []NothingRefused
<1>1. FitInv => NothingRefused
  BY DEF FitInv, NothingRefused
<1>2. IInv /\ FitInv /\ [Next]_vars => FitInv'
  BY FitNext
<1>3. Init => FitInv
  BY FitInit
<1>4. Spec => []IInv
  BY Inductive
<1> QED
  BY <1>1, <1>2, <1>3, <1>4, PTL DEF Spec
-----------------------------------------------------------------------------
(* Induction over sequences.  The library's theorems take the statement as *)
(* an operator; these take the set of those of which it is true.           *)

LEMMA Least ==
  ASSUME NEW T \in SUBSET Nat, T # {}
  PROVE  \E n \in T : \A m \in T : n <= m
<1> DEFINE R == OpToRel(<, Nat)
<1>1. IsWellFoundedOn(R, Nat)
  BY NatLessThanWellFounded
<1>2. \E x \in T : \A y \in T : ~ (<<y, x>> \in R)
  <2> HIDE DEF R
  <2> QED
    BY <1>1, WFMin
<1>3. \A x, y \in Nat : <<y, x>> \in R <=> y < x
  BY DEF OpToRel
<1>4. PICK x \in T : \A y \in T : ~ (<<y, x>> \in R)
  BY <1>2
<1>5. ASSUME NEW y \in T PROVE x <= y
  <2>1. x \in Nat /\ y \in Nat
    OBVIOUS
  <2>2. ~ (y < x)
    <3> HIDE DEF R
    <3> QED
      BY <1>3, <1>4, <2>1
  <2> QED
    BY <2>1, <2>2
<1> QED
  BY <1>5

LEMMA Induction ==
  ASSUME NEW S, NEW T, <<>> \in T,
         \A t \in Seq(S), c \in S : t \in T => Append(t, c) \in T
  PROVE  Seq(S) \subseteq T
<1>1. SUFFICES ASSUME NEW u \in Seq(S), u \notin T PROVE FALSE
  OBVIOUS
<1> DEFINE B == {n \in Nat : \E t \in Seq(S) : t \notin T /\ Len(t) = n}
<1>2. Len(u) \in B
  BY <1>1, LenProperties
<1>3. PICK n \in B : \A m \in B : n <= m
  BY <1>2, Least
<1>4. PICK t \in Seq(S) : t \notin T /\ Len(t) = n
  BY <1>3
<1>5. t # <<>>
  BY <1>4
<1>6. PICK s \in Seq(S), c \in S : t = Append(s, c)
  BY <1>5, SequenceEmptyOrAppend
<1>7. Len(t) = Len(s) + 1 /\ Len(s) \in Nat
  BY <1>6, AppendProperties, LenProperties
<1>8. s \notin T
  BY <1>4, <1>6
<1>9. Len(s) \in B
  BY <1>7, <1>8
<1>10. n <= Len(s)
  BY <1>3, <1>9
<1> QED
  BY <1>4, <1>7, <1>10

-----------------------------------------------------------------------------
(* FlattenSeq.                                                             *)

Adds(f, ss) == f = [i \in 1 .. Len(ss) |-> IF i = 1 THEN ss[i] ELSE f[i - 1] \o ss[i]]

LEMMA AddsMeans ==
  ASSUME NEW f, NEW ss
  PROVE  Adds(f, ss) <=> /\ f = [i \in 1 .. Len(ss) |-> f[i]]
                         /\ \A i \in 1 .. Len(ss) : f[i] = IF i = 1 THEN ss[i] ELSE f[i - 1] \o ss[i]
BY DEF Adds

LEMMA AddsAgree ==
  ASSUME NEW f, NEW g, NEW ss, NEW tt, Adds(f, ss), Adds(g, tt), Len(ss) \in Nat, Len(tt) \in Nat,
         Len(ss) <= Len(tt), \A i \in 1 .. Len(ss) : ss[i] = tt[i]
  PROVE  \A i \in 1 .. Len(ss) : f[i] = g[i]
<1> DEFINE B == {i \in 1 .. Len(ss) : f[i] # g[i]}
<1>1. SUFFICES ASSUME B # {} PROVE FALSE
  OBVIOUS
<1>2. PICK n \in B : \A m \in B : n <= m
  <2>1. B \in SUBSET Nat
    OBVIOUS
  <2> HIDE DEF B
  <2> QED
    BY <1>1, <2>1, Least
<1>3. n \in 1 .. Len(ss) /\ f[n] # g[n] /\ n \in 1 .. Len(tt)
  OBVIOUS
<1>4. f[n] = (IF n = 1 THEN ss[n] ELSE f[n - 1] \o ss[n]) /\ g[n] = IF n = 1 THEN tt[n] ELSE g[n - 1] \o tt[n]
  BY <1>3, AddsMeans
<1>5. n # 1
  BY <1>3, <1>4
<1>6. n - 1 \in 1 .. Len(ss) /\ ~(n <= n - 1)
  BY <1>3, <1>5
<1>7. f[n - 1] = g[n - 1]
  BY <1>2, <1>6
<1> QED
  BY <1>3, <1>4, <1>5, <1>7

LEMMA AddsExists ==
  ASSUME NEW S
  PROVE  \A ss \in Seq(S) : \E f : Adds(f, ss)
<1> DEFINE T == {ss \in Seq(S) : \E f : Adds(f, ss)}
<1>1. <<>> \in T
  <2>1. Adds(<<>>, <<>>)
    BY DEF Adds
  <2> QED
    BY <2>1, EmptySeq
<1>2. ASSUME NEW ss \in Seq(S), NEW s \in S, ss \in T PROVE Append(ss, s) \in T
  <2> DEFINE tt == Append(ss, s)
             n == Len(ss)
  <2>1. n \in Nat /\ Len(tt) = n + 1 /\ tt[n + 1] = s /\ (\A i \in 1 .. n : tt[i] = ss[i]) /\ tt \in Seq(S)
    BY AppendProperties, LenProperties
  <2>2. PICK f : Adds(f, ss)
    BY <1>2
  <2> DEFINE g == [i \in 1 .. n + 1 |-> IF i <= n THEN f[i] ELSE IF n = 0 THEN s ELSE f[n] \o s]
  <2>3. ASSUME NEW i \in 1 .. n + 1 PROVE g[i] = IF i = 1 THEN tt[i] ELSE g[i - 1] \o tt[i]
    <3>1. CASE i <= n
      <4>1. f[i] = IF i = 1 THEN ss[i] ELSE f[i - 1] \o ss[i]
        BY <3>1, <2>1, <2>2, AddsMeans
      <4>2. i # 1 => g[i - 1] = f[i - 1]
        BY <3>1, <2>1
      <4> QED
        BY <3>1, <4>1, <4>2, <2>1
    <3>2. CASE i = n + 1
      BY <3>2, <2>1
    <3> QED
      BY <3>1, <3>2, <2>1
  <2>4. Adds(g, tt)
    <3> HIDE DEF tt, n
    <3>1. g = [i \in 1 .. Len(tt) |-> g[i]]
      BY <2>1
    <3> HIDE DEF g
    <3> QED
      BY <2>1, <2>3, <3>1, AddsMeans
  <2> HIDE DEF g
  <2> QED
    BY <2>1, <2>4
<1> HIDE DEF T
<1>3. Seq(S) \subseteq T
  BY <1>1, <1>2, Induction
<1> QED
  BY <1>3 DEF T

LEMMA FlattenIs ==
  ASSUME NEW S, NEW ss \in Seq(S), NEW f, Adds(f, ss), ss # <<>>
  PROVE  FlattenSeq(ss) = f[Len(ss)]
<1> DEFINE g == CHOOSE h : Adds(h, ss)
<1>1. Adds(g, ss)
  OBVIOUS
<1>2. Len(ss) \in Nat /\ Len(ss) # 0
  BY EmptySeq
<1>3. FlattenSeq(ss) = g[Len(ss)]
  BY <1>2, Zenon DEF FlattenSeq, Adds
<1> HIDE DEF g
<1>4. g[Len(ss)] = f[Len(ss)]
  BY <1>1, <1>2, AddsAgree
<1> QED
  BY <1>3, <1>4

LEMMA FlattenEmpty == FlattenSeq(<<>>) = <<>>
BY DEF FlattenSeq

LEMMA FlattenAppend ==
  ASSUME NEW S, NEW ss \in Seq(Seq(S)), NEW s \in Seq(S)
  PROVE  FlattenSeq(Append(ss, s)) = FlattenSeq(ss) \o s
<1> DEFINE tt == Append(ss, s)
           n == Len(ss)
<1>1. /\ n \in Nat /\ Len(tt) = n + 1 /\ tt[n + 1] = s /\ (\A i \in 1 .. n : ss[i] = tt[i])
      /\ tt \in Seq(Seq(S)) /\ tt # <<>>
  BY AppendProperties, LenProperties
<1>2. PICK f : Adds(f, ss)
  BY AddsExists
<1>3. PICK g : Adds(g, tt)
  <2> HIDE DEF tt
  <2> QED
    BY <1>1, AddsExists
<1>4. FlattenSeq(tt) = g[n + 1]
  <2> HIDE DEF tt
  <2> QED
    BY <1>1, <1>3, FlattenIs
<1>5. g[n + 1] = IF n = 0 THEN s ELSE g[n] \o s
  <2>1. g[n + 1] = IF n + 1 = 1 THEN tt[n + 1] ELSE g[n + 1 - 1] \o tt[n + 1]
    <3> HIDE DEF tt, n
    <3> QED
      BY <1>1, <1>3, AddsMeans
  <2> QED
    BY <1>1, <2>1
<1>6. CASE n = 0
  <2>1. ss = <<>>
    BY <1>6, EmptySeq
  <2> QED
    BY <1>4, <1>5, <1>6, <2>1, FlattenEmpty, ConcatEmptySeq
<1>7. CASE n # 0
  <2>1. ss # <<>>
    BY <1>7
  <2>2. FlattenSeq(ss) = f[n]
    BY <1>2, <2>1, FlattenIs
  <2>3. f[n] = g[n]
    <3>1. \A i \in 1 .. Len(ss) : f[i] = g[i]
      <4>1. Len(ss) \in Nat /\ Len(tt) \in Nat /\ Len(ss) <= Len(tt)
        BY <1>1
      <4>2. \A i \in 1 .. Len(ss) : ss[i] = tt[i]
        BY <1>1
      <4> HIDE DEF tt, n
      <4> QED
        BY <4>1, <4>2, <1>2, <1>3, AddsAgree
    <3> QED
      BY <3>1, <1>1, <1>7
  <2> QED
    BY <1>4, <1>5, <1>7, <2>2, <2>3
<1> QED
  BY <1>6, <1>7

LEMMA FlattenIn ==
  ASSUME NEW S
  PROVE  \A ss \in Seq(Seq(S)) : FlattenSeq(ss) \in Seq(S)
<1> DEFINE T == {ss \in Seq(Seq(S)) : FlattenSeq(ss) \in Seq(S)}
<1>1. <<>> \in T
  BY FlattenEmpty, EmptySeq
<1>2. ASSUME NEW ss \in Seq(Seq(S)), NEW s \in Seq(S), ss \in T PROVE Append(ss, s) \in T
  <2>1. FlattenSeq(Append(ss, s)) = FlattenSeq(ss) \o s
    BY FlattenAppend
  <2> QED
    BY <1>2, <2>1, ConcatProperties, AppendProperties
<1> HIDE DEF T
<1>3. Seq(Seq(S)) \subseteq T
  BY <1>1, <1>2, Induction
<1> QED
  BY <1>3 DEF T

-----------------------------------------------------------------------------
(* Reading a text that is cut at a separator.                              *)

Start == [parts |-> <<>>, part |-> <<>>, escaped |-> FALSE]

Runs(f, text, separator, escapes) ==
  f = [n \in 0 .. Len(text) |-> IF n = 0 THEN Start ELSE Read(f[n - 1], text[n], separator, escapes)]

(* The state at the end of a text.                                         *)
ReadAll(text, separator, escapes) == (CHOOSE f : Runs(f, text, separator, escapes))[Len(text)]

LEMMA SplitAtIs ==
  ASSUME NEW text, NEW separator, NEW escapes
  PROVE  SplitAt(text, separator, escapes) = Finished(ReadAll(text, separator, escapes))
BY Zenon DEF SplitAt, ReadAll, Runs, Start

LEMMA RunsMeans ==
  ASSUME NEW f, NEW text, NEW separator, NEW escapes
  PROVE  Runs(f, text, separator, escapes) <=>
           /\ f = [n \in 0 .. Len(text) |-> f[n]]
           /\ \A n \in 0 .. Len(text) : f[n] = IF n = 0 THEN Start ELSE Read(f[n - 1], text[n], separator, escapes)
BY DEF Runs

LEMMA RunsAgree ==
  ASSUME NEW f, NEW g, NEW t, NEW u, NEW separator, NEW escapes,
         Runs(f, t, separator, escapes), Runs(g, u, separator, escapes),
         Len(t) \in Nat, Len(u) \in Nat, Len(t) <= Len(u), \A i \in 1 .. Len(t) : t[i] = u[i]
  PROVE  \A i \in 0 .. Len(t) : f[i] = g[i]
<1> DEFINE B == {i \in 0 .. Len(t) : f[i] # g[i]}
<1>1. SUFFICES ASSUME B # {} PROVE FALSE
  OBVIOUS
<1>2. PICK n \in B : \A m \in B : n <= m
  <2>1. B \in SUBSET Nat
    OBVIOUS
  <2> HIDE DEF B
  <2> QED
    BY <1>1, <2>1, Least
<1>3. n \in 0 .. Len(t) /\ f[n] # g[n] /\ n \in 0 .. Len(u)
  OBVIOUS
<1>4. /\ f[n] = (IF n = 0 THEN Start ELSE Read(f[n - 1], t[n], separator, escapes))
      /\ g[n] = IF n = 0 THEN Start ELSE Read(g[n - 1], u[n], separator, escapes)
  BY <1>3, RunsMeans
<1>5. n # 0
  BY <1>3, <1>4
<1>6. n - 1 \in 0 .. Len(t) /\ ~(n <= n - 1) /\ n \in 1 .. Len(t)
  BY <1>3, <1>5
<1>7. f[n - 1] = g[n - 1] /\ t[n] = u[n]
  BY <1>2, <1>6
<1> QED
  BY <1>3, <1>4, <1>5, <1>7

LEMMA RunsExtended ==
  ASSUME NEW S, NEW separator, NEW escapes, NEW f, NEW t \in Seq(S), NEW c \in S, Runs(f, t, separator, escapes)
  PROVE  Runs([i \in 0 .. Len(t) + 1 |-> IF i <= Len(t) THEN f[i] ELSE Read(f[Len(t)], c, separator, escapes)],
              Append(t, c), separator, escapes)
<1> DEFINE u == Append(t, c)
           n == Len(t)
           g == [i \in 0 .. n + 1 |-> IF i <= n THEN f[i] ELSE Read(f[n], c, separator, escapes)]
<1>1. n \in Nat /\ Len(u) = n + 1 /\ u[n + 1] = c /\ (\A i \in 1 .. n : u[i] = t[i]) /\ u \in Seq(S)
  BY AppendProperties, LenProperties
<1>2. ASSUME NEW i \in 0 .. n + 1 PROVE g[i] = IF i = 0 THEN Start ELSE Read(g[i - 1], u[i], separator, escapes)
  <2>1. CASE i <= n
    <3>1. f[i] = IF i = 0 THEN Start ELSE Read(f[i - 1], t[i], separator, escapes)
      BY <2>1, <1>1, RunsMeans
    <3>2. i # 0 => g[i - 1] = f[i - 1]
      BY <2>1, <1>1
    <3> QED
      BY <2>1, <3>1, <3>2, <1>1
  <2>2. CASE i = n + 1
    BY <2>2, <1>1
  <2> QED
    BY <2>1, <2>2, <1>1
<1> HIDE DEF u, n
<1>3. g = [i \in 0 .. Len(u) |-> g[i]]
  BY <1>1
<1> HIDE DEF g
<1>4. Runs(g, u, separator, escapes)
  BY <1>1, <1>2, <1>3, RunsMeans
<1> QED
  BY <1>4 DEF g, u, n

LEMMA RunsExists ==
  ASSUME NEW S, NEW separator, NEW escapes
  PROVE  \A t \in Seq(S) : \E f : Runs(f, t, separator, escapes)
<1> DEFINE T == {t \in Seq(S) : \E f : Runs(f, t, separator, escapes)}
<1>1. <<>> \in T
  <2>1. Runs([n \in 0 .. 0 |-> Start], <<>>, separator, escapes)
    BY DEF Runs
  <2> QED
    BY <2>1, EmptySeq
<1>2. ASSUME NEW t \in Seq(S), NEW c \in S, t \in T PROVE Append(t, c) \in T
  <2>1. PICK f : Runs(f, t, separator, escapes)
    BY <1>2
  <2>2. \E g : Runs(g, Append(t, c), separator, escapes)
    BY <2>1, RunsExtended
  <2> QED
    BY <2>2, AppendProperties
<1> HIDE DEF T
<1>3. Seq(S) \subseteq T
  BY <1>1, <1>2, Induction
<1> QED
  BY <1>3 DEF T

LEMMA ReadAllIs ==
  ASSUME NEW S, NEW separator, NEW escapes, NEW t \in Seq(S), NEW f, Runs(f, t, separator, escapes)
  PROVE  ReadAll(t, separator, escapes) = f[Len(t)]
<1> DEFINE g == CHOOSE h : Runs(h, t, separator, escapes)
<1>1. Runs(g, t, separator, escapes)
  OBVIOUS
<1>2. Len(t) \in Nat
  BY LenProperties
<1> HIDE DEF g
<1>3. \A i \in 0 .. Len(t) : g[i] = f[i]
  BY <1>1, <1>2, RunsAgree
<1> QED
  BY <1>2, <1>3 DEF ReadAll, g

LEMMA ReadNothing ==
  ASSUME NEW separator, NEW escapes
  PROVE  ReadAll(<<>>, separator, escapes) = Start
<1>1. PICK f : Runs(f, <<>>, separator, escapes)
  BY RunsExists, EmptySeq
<1>2. f[0] = Start
  BY <1>1, RunsMeans
<1> QED
  BY <1>1, <1>2, ReadAllIs, EmptySeq

LEMMA ReadOneMore ==
  ASSUME NEW S, NEW separator, NEW escapes, NEW t \in Seq(S), NEW c \in S
  PROVE  ReadAll(Append(t, c), separator, escapes) = Read(ReadAll(t, separator, escapes), c, separator, escapes)
<1> DEFINE n == Len(t)
<1>1. PICK f : Runs(f, t, separator, escapes)
  BY RunsExists
<1> DEFINE g == [i \in 0 .. n + 1 |-> IF i <= n THEN f[i] ELSE Read(f[n], c, separator, escapes)]
<1>2. Runs(g, Append(t, c), separator, escapes)
  BY <1>1, RunsExtended
<1>3. Append(t, c) \in Seq(S) /\ Len(Append(t, c)) = n + 1 /\ n \in Nat
  BY AppendProperties, LenProperties
<1>4. ReadAll(t, separator, escapes) = f[n]
  BY <1>1, ReadAllIs
<1>5. g[n + 1] = Read(f[n], c, separator, escapes)
  BY <1>3
<1> HIDE DEF g
<1>6. ReadAll(Append(t, c), separator, escapes) = g[Len(Append(t, c))]
  <2> DEFINE u == Append(t, c)
  <2>1. u \in Seq(S) /\ Runs(g, u, separator, escapes)
    BY <1>2, <1>3
  <2> HIDE DEF u
  <2>2. ReadAll(u, separator, escapes) = g[Len(u)]
    BY <2>1, ReadAllIs
  <2> QED
    BY <2>2 DEF u
<1> QED
  BY <1>3, <1>4, <1>5, <1>6

LEMMA Assoc == \A S : \A s, t, u \in Seq(S) : s \o (t \o u) = (s \o t) \o u
BY ConcatAssociative

LEMMA AppendOfConcat ==
  ASSUME NEW S, NEW s \in Seq(S), NEW t \in Seq(S), NEW c \in S
  PROVE  s \o Append(t, c) = Append(s \o t, c)
<1>1. <<c>> \in Seq(S)
  OBVIOUS
<1>2. Append(t, c) = t \o <<c>> /\ Append(s \o t, c) = (s \o t) \o <<c>>
  BY ConcatProperties, AppendIsConcat
<1> QED
  BY <1>1, <1>2, Assoc

LEMMA ConcatTwo ==
  ASSUME NEW S, NEW s \in Seq(S), NEW b \in S, NEW c \in S
  PROVE  s \o <<b, c>> = Append(Append(s, b), c)
<1> DEFINE x == <<b>>
<1>1. x \in Seq(S) /\ <<b, c>> = Append(x, c) /\ s \o x = Append(s, b)
  BY AppendIsConcat
<1> HIDE DEF x
<1>2. s \o Append(x, c) = Append(s \o x, c)
  BY <1>1, AppendOfConcat
<1> QED
  BY <1>1, <1>2

LEMMA ConcatOne ==
  ASSUME NEW S, NEW s \in Seq(S), NEW t \in Seq(S), NEW c \in S
  PROVE  s \o (<<c>> \o t) = Append(s, c) \o t
<1> DEFINE x == <<c>>
<1>1. x \in Seq(S) /\ Append(s, c) = s \o x
  BY AppendIsConcat
<1> HIDE DEF x
<1>2. s \o (x \o t) = (s \o x) \o t
  BY <1>1, Assoc
<1> QED
  BY <1>1, <1>2 DEF x

(* A map over one element more.                                            *)
Mapped(F, t) == [i \in DOMAIN t |-> F[t[i]]]

LEMMA MappedIs ==
  ASSUME NEW S, NEW F, NEW t \in Seq(S)
  PROVE  /\ Len(Mapped(F, t)) = Len(t) /\ DOMAIN Mapped(F, t) = 1 .. Len(t)
         /\ \A i \in 1 .. Len(t) : Mapped(F, t)[i] = F[t[i]]
<1>1. Len(t) \in Nat /\ DOMAIN t = 1 .. Len(t)
  BY LenProperties
<1> QED
  BY <1>1 DEF Mapped

LEMMA MappedIn ==
  ASSUME NEW S, NEW R, NEW F, \A x \in S : F[x] \in R, NEW t \in Seq(S)
  PROVE  Mapped(F, t) \in Seq(R)
<1>1. Len(t) \in Nat /\ DOMAIN t = 1 .. Len(t) /\ \A i \in 1 .. Len(t) : t[i] \in S
  BY LenProperties, ElementOfSeq
<1> QED
  BY <1>1 DEF Mapped

LEMMA MappedAppend ==
  ASSUME NEW S, NEW F, NEW t \in Seq(S), NEW c \in S
  PROVE  Mapped(F, Append(t, c)) = Append(Mapped(F, t), F[c])
<1> DEFINE R == {F[x] : x \in S}
           u == Append(t, c)
           m == Mapped(F, t)
           v == Mapped(F, u)
           w == Append(m, F[c])
<1>1. /\ u \in Seq(S) /\ Len(u) = Len(t) + 1 /\ u[Len(t) + 1] = c /\ Len(t) \in Nat
      /\ \A i \in 1 .. Len(t) : u[i] = t[i]
  BY AppendProperties, LenProperties
<1>2. F[c] \in R /\ \A x \in S : F[x] \in R
  OBVIOUS
<1> HIDE DEF u, R
<1>3. m \in Seq(R) /\ Len(m) = Len(t) /\ \A i \in 1 .. Len(t) : m[i] = F[t[i]]
  <2>1. m \in Seq(R)
    BY <1>2, MappedIn
  <2> QED
    BY <2>1, MappedIs
<1>4. v \in Seq(R) /\ Len(v) = Len(u) /\ \A i \in 1 .. Len(u) : v[i] = F[u[i]]
  <2>1. v \in Seq(R)
    BY <1>1, <1>2, MappedIn
  <2> QED
    BY <1>1, <2>1, MappedIs
<1> HIDE DEF m, v
<1>5. w \in Seq(R) /\ Len(w) = Len(t) + 1 /\ w[Len(t) + 1] = F[c] /\ \A i \in 1 .. Len(t) : w[i] = F[t[i]]
  BY <1>1, <1>2, <1>3, AppendProperties
<1> HIDE DEF w
<1>6. ASSUME NEW i \in 1 .. Len(v) PROVE v[i] = w[i]
  BY <1>1, <1>4, <1>5
<1>7. v = w
  BY <1>1, <1>4, <1>5, <1>6, SeqEqual
<1> QED
  BY <1>7 DEF u, m, v, w

LEMMA MappedEmpty == ASSUME NEW F PROVE Mapped(F, <<>>) = <<>>
BY DEF Mapped

In(parts, part) == [parts |-> parts, part |-> part, escaped |-> FALSE]

AfterEscape(parts, part) == [parts |-> parts, part |-> part, escaped |-> TRUE]

LEMMA ReadEscape ==
  ASSUME NEW p, NEW q, NEW ch, NEW separator, NEW escapes, ch \in escapes
  PROVE  Read(In(p, q), ch, separator, escapes) = AfterEscape(p, q)
BY DEF Read, In, AfterEscape

LEMMA ReadSeparator ==
  ASSUME NEW p, NEW q, NEW separator, NEW escapes, separator \notin escapes
  PROVE  Read(In(p, q), separator, separator, escapes) = In(IF q = <<>> THEN p ELSE Append(p, q), <<>>)
BY DEF Read, In, AfterEscape, Finished

LEMMA ReadPlain ==
  ASSUME NEW p, NEW q, NEW ch, NEW separator, NEW escapes, ch \notin escapes, ch # separator
  PROVE  Read(In(p, q), ch, separator, escapes) = In(p, Append(q, ch))
BY DEF Read, In

LEMMA ReadAny ==
  ASSUME NEW p, NEW q, NEW ch, NEW separator, NEW escapes
  PROVE  Read(AfterEscape(p, q), ch, separator, escapes) = In(p, Append(q, ch))
BY DEF Read, In, AfterEscape

LEMMA StartIs == Start = In(<<>>, <<>>)
BY DEF Start, In

LEMMA StepEscape ==
  ASSUME NEW S, NEW separator, NEW escapes, NEW t \in Seq(S), NEW c \in S, NEW p, NEW q,
         ReadAll(t, separator, escapes) = In(p, q), c \in escapes
  PROVE  ReadAll(Append(t, c), separator, escapes) = AfterEscape(p, q)
<1>1. ReadAll(Append(t, c), separator, escapes) = Read(In(p, q), c, separator, escapes)
  BY ReadOneMore
<1> QED
  BY <1>1, ReadEscape

LEMMA StepSeparator ==
  ASSUME NEW S, NEW separator \in S, NEW escapes, NEW t \in Seq(S), NEW p, NEW q,
         ReadAll(t, separator, escapes) = In(p, q), separator \notin escapes
  PROVE  ReadAll(Append(t, separator), separator, escapes) = In(IF q = <<>> THEN p ELSE Append(p, q), <<>>)
<1>1. ReadAll(Append(t, separator), separator, escapes) = Read(In(p, q), separator, separator, escapes)
  BY ReadOneMore
<1> QED
  BY <1>1, ReadSeparator

LEMMA StepPlain ==
  ASSUME NEW S, NEW separator, NEW escapes, NEW t \in Seq(S), NEW c \in S, NEW p, NEW q,
         \/ ReadAll(t, separator, escapes) = In(p, q) /\ c \notin escapes /\ c # separator
         \/ ReadAll(t, separator, escapes) = AfterEscape(p, q)
  PROVE  ReadAll(Append(t, c), separator, escapes) = In(p, Append(q, c))
<1>1. ReadAll(Append(t, c), separator, escapes) = Read(ReadAll(t, separator, escapes), c, separator, escapes)
  BY ReadOneMore
<1> QED
  BY <1>1, ReadPlain, ReadAny

(* What has neither separators nor escapes is added to the part.           *)
LEMMA ReadOrdinary ==
  ASSUME NEW S, NEW separator, NEW escapes, NEW R, R \subseteq S, separator \notin R, R \cap escapes = {},
         NEW t \in Seq(S), NEW p, NEW q \in Seq(S), ReadAll(t, separator, escapes) = In(p, q)
  PROVE  \A u \in Seq(R) : ReadAll(t \o u, separator, escapes) = In(p, q \o u)
<1> DEFINE T == {u \in Seq(R) : ReadAll(t \o u, separator, escapes) = In(p, q \o u)}
<1>1. <<>> \in T
  <2>1. t \o <<>> = t /\ q \o <<>> = q /\ <<>> \in Seq(R)
    BY ConcatEmptySeq, EmptySeq
  <2> QED
    BY <2>1
<1>2. ASSUME NEW u \in Seq(R), NEW c \in R, u \in T PROVE Append(u, c) \in T
  <2>1. u \in Seq(S) /\ c \in S /\ c \notin escapes /\ c # separator
    BY SeqMonotonic
  <2>2. t \o u \in Seq(S) /\ q \o u \in Seq(S)
    BY <2>1, ConcatProperties
  <2>3. t \o Append(u, c) = Append(t \o u, c)
    BY <2>1, AppendOfConcat
  <2>4. q \o Append(u, c) = Append(q \o u, c)
    BY <2>1, AppendOfConcat
  <2>5. Append(u, c) \in Seq(R)
    BY AppendProperties
  <2>6. ReadAll(t \o u, separator, escapes) = In(p, q \o u)
    BY <1>2
  <2> DEFINE tu == t \o u
             qu == q \o u
  <2>7. tu \in Seq(S) /\ ReadAll(tu, separator, escapes) = In(p, qu)
    BY <2>2, <2>6
  <2> HIDE DEF tu, qu
  <2>8. ReadAll(Append(tu, c), separator, escapes) = In(p, Append(qu, c))
    BY <2>1, <2>7, StepPlain
  <2> QED
    BY <2>3, <2>4, <2>5, <2>8 DEF tu, qu
<1> HIDE DEF T
<1>3. Seq(R) \subseteq T
  BY <1>1, <1>2, Induction
<1> QED
  BY <1>3 DEF T

-----------------------------------------------------------------------------
(* Escape and Split.                                                       *)

Esc(text) ==
  FlattenSeq([i \in DOMAIN text |-> IF text[i] \in {":", "\\"} THEN <<"\\", text[i]>> ELSE <<text[i]>>])

LEMMA EscapeIs ==
  ASSUME NEW text
  PROVE  Escape(text) = IF Contains(text, ",") THEN {} ELSE {Esc(text)}
BY DEF Escape, Esc

(* What becomes of a character.                                            *)
Escaped(S) == [c \in S |-> IF c \in {":", "\\"} THEN <<"\\", c>> ELSE <<c>>]

LEMMA EscIs ==
  ASSUME NEW S, "\\" \in S
  PROVE  /\ \A c \in S : Escaped(S)[c] \in Seq(S)
         /\ \A t \in Seq(S) : Esc(t) = FlattenSeq(Mapped(Escaped(S), t))
<1>1. ASSUME NEW t \in Seq(S)
      PROVE  Mapped(Escaped(S), t) = [i \in DOMAIN t |-> IF t[i] \in {":", "\\"} THEN <<"\\", t[i]>> ELSE <<t[i]>>]
  <2>1. DOMAIN t = 1 .. Len(t) /\ \A i \in 1 .. Len(t) : t[i] \in S
    BY LenProperties, ElementOfSeq
  <2> QED
    BY <2>1 DEF Mapped, Escaped
<1>2. \A c \in S : Escaped(S)[c] \in Seq(S)
  BY DEF Escaped
<1> QED
  BY <1>1, <1>2, Zenon DEF Esc

LEMMA EscEmpty == Esc(<<>>) = <<>>
<1>1. Esc(<<>>) = FlattenSeq(Mapped(Escaped({"\\"}), <<>>))
  BY EscIs, EmptySeq
<1> QED
  BY <1>1, MappedEmpty, FlattenEmpty

LEMMA EscIn ==
  ASSUME NEW S, "\\" \in S, NEW t \in Seq(S)
  PROVE  Esc(t) \in Seq(S)
<1>1. (\A c \in S : Escaped(S)[c] \in Seq(S)) /\ Esc(t) = FlattenSeq(Mapped(Escaped(S), t))
  BY EscIs
<1>2. Mapped(Escaped(S), t) \in Seq(Seq(S))
  BY <1>1, MappedIn
<1> QED
  BY <1>1, <1>2, FlattenIn

LEMMA EscAppend ==
  ASSUME NEW S, "\\" \in S, NEW t \in Seq(S), NEW c \in S
  PROVE  Esc(Append(t, c)) = IF c \in {":", "\\"} THEN Append(Append(Esc(t), "\\"), c) ELSE Append(Esc(t), c)
<1>1. (\A x \in S : Escaped(S)[x] \in Seq(S)) /\ Append(t, c) \in Seq(S)
  BY EscIs, AppendProperties
<1>2. Mapped(Escaped(S), Append(t, c)) = Append(Mapped(Escaped(S), t), Escaped(S)[c])
  BY <1>1, MappedAppend
<1>3. Mapped(Escaped(S), t) \in Seq(Seq(S)) /\ Escaped(S)[c] \in Seq(S)
  BY <1>1, MappedIn
<1>4. FlattenSeq(Append(Mapped(Escaped(S), t), Escaped(S)[c])) = FlattenSeq(Mapped(Escaped(S), t)) \o Escaped(S)[c]
  BY <1>3, FlattenAppend
<1>5. Esc(Append(t, c)) = Esc(t) \o Escaped(S)[c]
  BY <1>1, <1>2, <1>4, EscIs
<1>6. Escaped(S)[c] = IF c \in {":", "\\"} THEN <<"\\", c>> ELSE <<c>>
  BY DEF Escaped
<1>7. Esc(t) \in Seq(S)
  BY EscIn
<1>8. Esc(t) \o <<"\\", c>> = Append(Append(Esc(t), "\\"), c)
  BY <1>7, ConcatTwo
<1>9. Esc(t) \o <<c>> = Append(Esc(t), c)
  BY <1>7, AppendIsConcat
<1> QED
  BY <1>5, <1>6, <1>8, <1>9

SplitRead(t) == ReadAll(t, ":", {"\\"})

(* What was escaped is added to the part as it was.                        *)
LEMMA ReadEscaped ==
  ASSUME NEW S, "\\" \in S, NEW t \in Seq(S), NEW p, NEW q \in Seq(S), SplitRead(t) = In(p, q)
  PROVE  \A u \in Seq(S) : SplitRead(t \o Esc(u)) = In(p, q \o u)
<1> DEFINE T == {u \in Seq(S) : ReadAll(t \o Esc(u), ":", {"\\"}) = In(p, q \o u)}
<1>0. ReadAll(t, ":", {"\\"}) = In(p, q)
  BY DEF SplitRead
<1>1. <<>> \in T
  <2>1. t \o Esc(<<>>) = t /\ q \o <<>> = q /\ <<>> \in Seq(S)
    BY ConcatEmptySeq, EmptySeq, EscEmpty
  <2> QED
    BY <1>0, <2>1
<1>2. ASSUME NEW u \in Seq(S), NEW c \in S, u \in T PROVE Append(u, c) \in T
  <2> DEFINE tu == t \o Esc(u)
             qu == q \o u
             slash == "\\"
             escapes == {"\\"}
  <2>1. tu \in Seq(S) /\ qu \in Seq(S) /\ Esc(u) \in Seq(S) /\ slash \in S
    <3>1. Esc(u) \in Seq(S)
      BY EscIn
    <3> QED
      BY <3>1, ConcatProperties
  <2>2. ReadAll(tu, ":", escapes) = In(p, qu)
    BY <1>2
  <2>3. q \o Append(u, c) = Append(qu, c)
    BY AppendOfConcat
  <2>4. ASSUME c \in {":", "\\"} PROVE ReadAll(t \o Esc(Append(u, c)), ":", escapes) = In(p, Append(qu, c))
    <3>1. t \o Esc(Append(u, c)) = Append(Append(tu, slash), c)
      <4> DEFINE eu == Esc(u)
      <4>1. Esc(Append(u, c)) = Append(Append(eu, slash), c)
        BY <2>4, EscAppend
      <4> HIDE DEF eu, slash
      <4>2. eu \in Seq(S) /\ Append(eu, slash) \in Seq(S)
        BY <2>1, AppendProperties DEF eu
      <4>3. t \o Append(eu, slash) = Append(t \o eu, slash)
        BY <2>1, <4>2, AppendOfConcat
      <4> DEFINE es == Append(eu, slash)
      <4>4. es \in Seq(S)
        BY <4>2
      <4> HIDE DEF es
      <4>5. t \o Append(es, c) = Append(t \o es, c)
        BY <4>4, AppendOfConcat
      <4> QED
        BY <4>1, <4>3, <4>5 DEF es, eu
    <3>2. slash \in escapes
      OBVIOUS
    <3> HIDE DEF tu, qu, slash, escapes
    <3>3. ReadAll(Append(tu, slash), ":", escapes) = AfterEscape(p, qu)
      BY <2>1, <2>2, <3>2, StepEscape
    <3> DEFINE x == Append(tu, slash)
    <3>4. x \in Seq(S) /\ ReadAll(x, ":", escapes) = AfterEscape(p, qu)
      BY <2>1, <3>3, AppendProperties
    <3> HIDE DEF x
    <3>5. ReadAll(Append(x, c), ":", escapes) = In(p, Append(qu, c))
      BY <3>4, StepPlain
    <3> QED
      BY <3>1, <3>5 DEF x
  <2>5. ASSUME c \notin {":", "\\"} PROVE ReadAll(t \o Esc(Append(u, c)), ":", escapes) = In(p, Append(qu, c))
    <3>1. t \o Esc(Append(u, c)) = Append(tu, c)
      <4>1. Esc(Append(u, c)) = Append(Esc(u), c)
        BY <2>5, EscAppend
      <4>2. t \o Append(Esc(u), c) = Append(t \o Esc(u), c)
        BY <2>1, AppendOfConcat
      <4> QED
        BY <4>1, <4>2
    <3>2. c # ":" /\ c \notin escapes
      BY <2>5
    <3> HIDE DEF tu, qu, escapes
    <3>3. ReadAll(Append(tu, c), ":", escapes) = In(p, Append(qu, c))
      BY <2>1, <2>2, <3>2, StepPlain
    <3> QED
      BY <3>1, <3>3
  <2>6. Append(u, c) \in Seq(S)
    BY AppendProperties
  <2>7. ReadAll(t \o Esc(Append(u, c)), ":", escapes) = In(p, Append(qu, c))
    <3> HIDE DEF tu, qu, escapes
    <3> QED
      BY <2>4, <2>5
  <2> QED
    BY <2>3, <2>6, <2>7
<1> HIDE DEF T
<1>3. Seq(S) \subseteq T
  BY <1>1, <1>2, Induction
<1> QED
  BY <1>3 DEF T, SplitRead

(* Join.                                                                   *)
LEMMA JoinBoth ==
  ASSUME NEW S, NEW separator \in S, NEW tt \in Seq(Seq(S)), NEW t \in Seq(S)
  PROVE  /\ Join(tt, separator) \in Seq(S)
         /\ Join(Append(tt, t), separator) = IF tt = <<>> THEN t ELSE Join(tt, separator) \o (<<separator>> \o t)
<1> DEFINE Led(u) == [i \in DOMAIN u |-> IF i = 1 THEN u[i] ELSE <<separator>> \o u[i]]
           a == Append(tt, t)
           s == IF tt = <<>> THEN t ELSE <<separator>> \o t
<1>1. ASSUME NEW u \in Seq(Seq(S))
      PROVE  /\ Led(u) \in Seq(Seq(S)) /\ Len(Led(u)) = Len(u)
             /\ \A i \in 1 .. Len(u) : Led(u)[i] = IF i = 1 THEN u[i] ELSE <<separator>> \o u[i]
  <2>1. Len(u) \in Nat /\ DOMAIN u = 1 .. Len(u) /\ \A i \in 1 .. Len(u) : u[i] \in Seq(S)
    BY LenProperties, ElementOfSeq
  <2>2. \A i \in 1 .. Len(u) : <<separator>> \o u[i] \in Seq(S)
    BY <2>1, ConcatProperties
  <2> QED
    BY <2>1, <2>2
<1>2. a \in Seq(Seq(S)) /\ Len(a) = Len(tt) + 1 /\ a[Len(tt) + 1] = t /\ (\A i \in 1 .. Len(tt) : a[i] = tt[i]) /\ Len(tt) \in Nat
  BY AppendProperties, LenProperties
<1>3. s \in Seq(S) /\ (tt = <<>> <=> Len(tt) = 0)
  BY ConcatProperties, EmptySeq
<1> HIDE DEF a, s, Led
<1>4. /\ Append(Led(tt), s) \in Seq(Seq(S)) /\ Len(Append(Led(tt), s)) = Len(tt) + 1
      /\ Append(Led(tt), s)[Len(tt) + 1] = s /\ \A i \in 1 .. Len(tt) : Append(Led(tt), s)[i] = Led(tt)[i]
  BY <1>1, <1>2, <1>3, AppendProperties
<1>5. Led(a) \in Seq(Seq(S)) /\ Len(Led(a)) = Len(tt) + 1
  BY <1>1, <1>2
<1>6. ASSUME NEW i \in 1 .. Len(tt) + 1 PROVE Led(a)[i] = Append(Led(tt), s)[i]
  <2>1. CASE i \in 1 .. Len(tt)
    <3>1. a[i] = tt[i] /\ i \in 1 .. Len(a)
      BY <2>1, <1>2
    <3>2. Led(a)[i] = IF i = 1 THEN a[i] ELSE <<separator>> \o a[i]
      BY <1>1, <1>2, <3>1
    <3>3. Led(tt)[i] = IF i = 1 THEN tt[i] ELSE <<separator>> \o tt[i]
      BY <1>1, <2>1
    <3> QED
      BY <2>1, <1>4, <3>1, <3>2, <3>3
  <2>2. CASE i = Len(tt) + 1
    <3>1. Led(a)[i] = IF i = 1 THEN t ELSE <<separator>> \o t
      BY <2>2, <1>1, <1>2
    <3> QED
      BY <3>1, <2>2, <1>2, <1>3, <1>4 DEF s
  <2>3. i \in 1 .. Len(tt) \/ i = Len(tt) + 1
    BY <1>2
  <2> QED
    BY <2>1, <2>2, <2>3
<1>7. Led(a) = Append(Led(tt), s)
  <2> DEFINE x == Led(a)
             y == Append(Led(tt), s)
  <2>1. x \in Seq(Seq(S)) /\ y \in Seq(Seq(S)) /\ Len(x) = Len(y) /\ \A i \in 1 .. Len(x) : x[i] = y[i]
    BY <1>4, <1>5, <1>6
  <2> HIDE DEF x, y
  <2>2. x = y
    BY <2>1, SeqEqual
  <2> QED
    BY <2>2 DEF x, y
<1>8. FlattenSeq(Led(a)) = FlattenSeq(Led(tt)) \o s /\ FlattenSeq(Led(tt)) \in Seq(S)
  BY <1>1, <1>3, <1>7, FlattenAppend, FlattenIn
<1>9. \A u : Join(u, separator) = FlattenSeq(Led(u))
  BY DEF Join, Led
<1>10. CASE tt = <<>>
  <2>1. Led(tt) = <<>>
    BY <1>1, <1>10, EmptySeq
  <2>2. FlattenSeq(Led(tt)) \o s = t
    BY <1>10, <2>1, FlattenEmpty, ConcatEmptySeq DEF s
  <2> QED
    BY <1>8, <1>9, <1>10, <2>2 DEF a
<1>11. CASE tt # <<>>
  BY <1>8, <1>9, <1>11 DEF a, s
<1> QED
  BY <1>10, <1>11

LEMMA JoinIn ==
  ASSUME NEW S, NEW separator \in S, NEW tt \in Seq(Seq(S))
  PROVE  Join(tt, separator) \in Seq(S)
<1> DEFINE e == <<>>
<1>1. e \in Seq(S)
  BY EmptySeq
<1> HIDE DEF e
<1> QED
  BY <1>1, JoinBoth

LEMMA JoinAppend ==
  ASSUME NEW S, NEW separator \in S, NEW tt \in Seq(Seq(S)), NEW t \in Seq(S)
  PROVE  Join(Append(tt, t), separator) = IF tt = <<>> THEN t ELSE Join(tt, separator) \o (<<separator>> \o t)
BY JoinBoth

LEMMA ReadEscapedAlone ==
  ASSUME NEW S, "\\" \in S, NEW t \in Seq(S), NEW p, SplitRead(t) = In(p, <<>>), NEW u \in Seq(S)
  PROVE  SplitRead(t \o Esc(u)) = In(p, u)
<1> DEFINE e == <<>>
<1>1. e \in Seq(S) /\ e \o u = u
  BY EmptySeq, ConcatEmptySeq
<1>2. SplitRead(t) = In(p, e)
  OBVIOUS
<1> HIDE DEF e
<1>3. SplitRead(t \o Esc(u)) = In(p, e \o u)
  BY <1>1, <1>2, ReadEscaped
<1> QED
  BY <1>1, <1>3

LEMMA SplitReadSeparator ==
  ASSUME NEW S, ":" \in S, NEW t \in Seq(S), NEW p, NEW q, q # <<>>, SplitRead(t) = In(p, q)
  PROVE  SplitRead(Append(t, ":")) = In(Append(p, q), <<>>)
<1> DEFINE escapes == {"\\"}
<1>1. ":" \notin escapes
  OBVIOUS
<1>2. ReadAll(t, ":", escapes) = In(p, q)
  BY DEF SplitRead
<1> HIDE DEF escapes
<1>3. ReadAll(Append(t, ":"), ":", escapes) = In(Append(p, q), <<>>)
  BY <1>1, <1>2, StepSeparator
<1> QED
  BY <1>3 DEF SplitRead, escapes

EscAll(tt) == [i \in DOMAIN tt |-> Esc(tt[i])]

LEMMA EscAllAppend ==
  ASSUME NEW S, "\\" \in S, NEW tt \in Seq(Seq(S)), NEW t \in Seq(S)
  PROVE  /\ EscAll(tt) \in Seq(Seq(S)) /\ (EscAll(tt) = <<>> <=> tt = <<>>)
         /\ EscAll(Append(tt, t)) = Append(EscAll(tt), Esc(t))
<1> DEFINE F == [x \in Seq(S) |-> Esc(x)]
<1>1. \A x \in Seq(S) : F[x] \in Seq(S) /\ F[x] = Esc(x)
  BY EscIn
<1>2. \A x \in Seq(Seq(S)) : EscAll(x) = Mapped(F, x)
  <2>1. ASSUME NEW x \in Seq(Seq(S)) PROVE [i \in DOMAIN x |-> Esc(x[i])] = [i \in DOMAIN x |-> F[x[i]]]
    <3>1. DOMAIN x = 1 .. Len(x) /\ \A i \in 1 .. Len(x) : x[i] \in Seq(S)
      BY LenProperties, ElementOfSeq
    <3> HIDE DEF F
    <3> QED
      BY <3>1, <1>1
  <2> HIDE DEF F
  <2> QED
    BY <2>1 DEF EscAll, Mapped
<1> HIDE DEF F
<1>3. Mapped(F, Append(tt, t)) = Append(Mapped(F, tt), F[t])
  BY MappedAppend
<1>4. Mapped(F, tt) \in Seq(Seq(S))
  BY <1>1, MappedIn
<1>5. Len(Mapped(F, tt)) = Len(tt)
  BY MappedIs
<1>6. Append(tt, t) \in Seq(Seq(S))
  BY AppendProperties
<1>7. EscAll(tt) = Mapped(F, tt)
  BY <1>2
<1>8. EscAll(tt) = <<>> <=> tt = <<>>
  BY <1>4, <1>5, <1>7, EmptySeq
<1> QED
  BY <1>1, <1>2, <1>3, <1>4, <1>6, <1>8

LEMMA ReadJoined ==
  ASSUME NEW S, {"\\", ":"} \subseteq S
  PROVE  \A tt \in Seq(Seq(S) \ {<<>>}) : tt # <<>> =>
           \E p \in Seq(Seq(S)), q \in Seq(S) \ {<<>>} :
             tt = Append(p, q) /\ SplitRead(Join(EscAll(tt), ":")) = In(p, q)
<1> DEFINE NE == Seq(S) \ {<<>>}
           OK(tt) == \E p \in Seq(Seq(S)), q \in NE :
                       tt = Append(p, q) /\ SplitRead(Join(EscAll(tt), ":")) = In(p, q)
           T == {tt \in Seq(NE) : tt # <<>> => OK(tt)}
<1>1. <<>> \in T
  BY EmptySeq
<1>2. ASSUME NEW tt \in Seq(NE), NEW t \in NE, tt \in T PROVE Append(tt, t) \in T
  <2>1. tt \in Seq(Seq(S)) /\ t \in Seq(S) /\ Append(tt, t) \in Seq(NE) /\ "\\" \in S /\ ":" \in S
    BY SeqMonotonic, AppendProperties
  <2>2. /\ EscAll(tt) \in Seq(Seq(S)) /\ (EscAll(tt) = <<>> <=> tt = <<>>) /\ Esc(t) \in Seq(S)
        /\ EscAll(Append(tt, t)) = Append(EscAll(tt), Esc(t))
    BY <2>1, EscAllAppend, EscIn
  <2> DEFINE J == Join(EscAll(tt), ":")
             et == Esc(t)
             ea == EscAll(tt)
             colon == ":"
  <2>3. J \in Seq(S) /\ Join(Append(ea, et), ":") = IF ea = <<>> THEN et ELSE J \o (<<":">> \o et)
    <3>1. ea \in Seq(Seq(S)) /\ et \in Seq(S) /\ colon \in S
      BY <2>1, <2>2
    <3> HIDE DEF ea, et, colon
    <3>2. Join(Append(ea, et), colon) = IF ea = <<>> THEN et ELSE Join(ea, colon) \o (<<colon>> \o et)
      BY <3>1, JoinAppend
    <3>3. Join(ea, colon) \in Seq(S)
      BY <3>1, JoinIn
    <3> QED
      BY <3>2, <3>3 DEF ea, colon
  <2>4. CASE tt = <<>>
    <3>1. SplitRead(<<>>) = In(<<>>, <<>>) /\ <<>> \in Seq(S)
      BY ReadNothing, StartIs, EmptySeq DEF SplitRead
    <3> DEFINE e == <<>>
    <3>2. SplitRead(e \o et) = In(<<>>, t)
      <4>1. SplitRead(e) = In(<<>>, <<>>) /\ e \in Seq(S)
        BY <3>1
      <4> HIDE DEF e
      <4> QED
        BY <2>1, <4>1, ReadEscapedAlone
    <3>3. <<>> \o et = et
      BY <2>2, ConcatEmptySeq
    <3>4. SplitRead(Join(EscAll(Append(tt, t)), ":")) = In(<<>>, t)
      BY <2>2, <2>3, <2>4, <3>2, <3>3
    <3>5. Append(tt, t) = Append(<<>>, t) /\ <<>> \in Seq(Seq(S))
      BY <2>4, EmptySeq
    <3> QED
      BY <2>1, <3>4, <3>5
  <2>5. CASE tt # <<>>
    <3>1. PICK p \in Seq(Seq(S)), q \in NE : tt = Append(p, q) /\ SplitRead(J) = In(p, q)
      BY <1>2, <2>5
    <3> DEFINE Jc == Append(J, ":")
    <3>2. SplitRead(Jc) = In(tt, <<>>)
      <4>1. q # <<>>
        OBVIOUS
      <4> HIDE DEF J
      <4> QED
        BY <2>1, <2>3, <3>1, <4>1, SplitReadSeparator
    <3>3. Jc \in Seq(S)
      <4> HIDE DEF J
      <4> QED
        BY <2>1, <2>3, AppendProperties
    <3>4. SplitRead(Jc \o et) = In(tt, t)
      <4> HIDE DEF Jc
      <4> QED
        BY <2>1, <3>2, <3>3, ReadEscapedAlone
    <3>5. J \o (<<":">> \o et) = Jc \o et
      <4>1. et \in Seq(S)
        BY <2>2
      <4> HIDE DEF J, et
      <4> QED
        BY <2>1, <2>3, <4>1, ConcatOne
    <3>6. SplitRead(Join(EscAll(Append(tt, t)), ":")) = In(tt, t)
      BY <2>2, <2>3, <2>5, <3>4, <3>5
    <3> QED
      BY <2>1, <3>6
  <2> QED
    BY <2>4, <2>5
<1> HIDE DEF T
<1>3. Seq(NE) \subseteq T
  BY <1>1, <1>2, Induction
<1> QED
  BY <1>3 DEF T

LEMMA SplitsAsJoined ==
  ASSUME NEW S, {"\\", ":"} \subseteq S, NEW tt \in Seq(Seq(S) \ {<<>>})
  PROVE  Split(Join([i \in DOMAIN tt |-> Esc(tt[i])], ":")) = tt
<1> DEFINE J == Join(EscAll(tt), ":")
<1>1. CASE tt = <<>>
  <2>1. EscAll(<<>>) = <<>> /\ Join(<<>>, ":") = <<>>
    BY FlattenEmpty DEF EscAll, Join
  <2>2. Finished(Start) = <<>>
    BY DEF Finished, Start
  <2> QED
    BY <1>1, <2>1, <2>2, ReadNothing, SplitAtIs DEF Split, EscAll
<1>2. CASE tt # <<>>
  <2>1. PICK p \in Seq(Seq(S)), q \in Seq(S) \ {<<>>} : tt = Append(p, q) /\ SplitRead(J) = In(p, q)
    BY <1>2, ReadJoined
  <2>2. Finished(In(p, q)) = Append(p, q)
    BY <2>1 DEF Finished, In
  <2>3. Split(J) = Finished(SplitRead(J))
    BY SplitAtIs DEF Split, SplitRead
  <2> QED
    BY <2>1, <2>2, <2>3 DEF EscAll
<1> QED
  BY <1>1, <1>2

(* What escape writes, joined with colons, the splitter reads back, for    *)
(* every number of texts and whatever characters they have (overlay.rs:    *)
(* escape, split_lowerdir; the test escaping_round_trips_through_the_      *)
(* splitter has four).                                                     *)
THEOREM EscapingRoundTrips ==
  ASSUME NEW S, {"\\", ":"} \subseteq S, NEW tt \in Seq(Seq(S) \ {<<>>}),
         NEW written, written = [i \in DOMAIN tt |-> written[i]], \A i \in DOMAIN tt : written[i] \in Escape(tt[i])
  PROVE  Split(Join(written, ":")) = tt
<1>1. \A i \in DOMAIN tt : written[i] = Esc(tt[i])
  BY EscapeIs
<1>2. written = [i \in DOMAIN tt |-> Esc(tt[i])]
  BY <1>1
<1>3. Split(Join([i \in DOMAIN tt |-> Esc(tt[i])], ":")) = tt
  BY SplitsAsJoined
<1> QED
  BY <1>2, <1>3

-----------------------------------------------------------------------------
(* Paths and their texts.                                                  *)

Name(S) == Seq(S \ {"/"}) \ {<<>>}

Led(S) == [n \in Seq(S) |-> <<"/">> \o n]

LEMMA NameIn ==
  ASSUME NEW S
  PROVE  /\ \A n \in Name(S) : n \in Seq(S) /\ n # <<>> /\ n[1] # "/"
         /\ \A p \in Seq(Name(S)) : p \in Seq(Seq(S))
<1>1. ASSUME NEW n \in Name(S) PROVE n \in Seq(S) /\ n # <<>> /\ n[1] # "/"
  <2>1. n \in Seq(S \ {"/"}) /\ n # <<>>
    BY DEF Name
  <2>2. n \in Seq(S)
    BY <2>1, SeqMonotonic
  <2>3. 1 \in 1 .. Len(n)
    BY <2>1, EmptySeq
  <2>4. n[1] \in S \ {"/"}
    BY <2>1, <2>3, ElementOfSeq
  <2> QED
    BY <2>1, <2>2, <2>4
<1>2. Name(S) \subseteq Seq(S)
  BY <1>1
<1>3. \A p \in Seq(Name(S)) : p \in Seq(Seq(S))
  BY <1>2, SeqMonotonic
<1> QED
  BY <1>1, <1>3

LEMMA BelowIs ==
  ASSUME NEW S, "/" \in S, NEW p \in Seq(Seq(S))
  PROVE  Below(p) = FlattenSeq(Mapped(Led(S), p)) /\ \A n \in Seq(S) : Led(S)[n] = <<"/">> \o n /\ Led(S)[n] \in Seq(S)
<1>1. [i \in DOMAIN p |-> <<"/">> \o p[i]] = [i \in DOMAIN p |-> Led(S)[p[i]]]
  <2>1. DOMAIN p = 1 .. Len(p) /\ \A i \in 1 .. Len(p) : p[i] \in Seq(S)
    BY LenProperties, ElementOfSeq
  <2> QED
    BY <2>1 DEF Led
<1>2. \A n \in Seq(S) : Led(S)[n] = <<"/">> \o n
  BY DEF Led
<1>3. \A n \in Seq(S) : <<"/">> \o n \in Seq(S)
  <2> DEFINE x == <<"/">>
  <2>1. x \in Seq(S)
    OBVIOUS
  <2> HIDE DEF x
  <2>2. \A n \in Seq(S) : x \o n \in Seq(S)
    BY <2>1, ConcatProperties
  <2> QED
    BY <2>2 DEF x
<1> QED
  BY <1>1, <1>2, <1>3 DEF Below, Mapped

LEMMA BelowEmpty == Below(<<>>) = <<>>
BY FlattenEmpty DEF Below

LEMMA BelowIn ==
  ASSUME NEW S, "/" \in S, NEW p \in Seq(Seq(S))
  PROVE  Below(p) \in Seq(S)
<1>1. Mapped(Led(S), p) \in Seq(Seq(S))
  BY BelowIs, MappedIn
<1> QED
  BY <1>1, BelowIs, FlattenIn

LEMMA BelowAppend ==
  ASSUME NEW S, "/" \in S, NEW p \in Seq(Seq(S)), NEW n \in Seq(S)
  PROVE  Below(Append(p, n)) = Below(p) \o (<<"/">> \o n)
<1> DEFINE a == Append(p, n)
<1>1. a \in Seq(Seq(S)) /\ Mapped(Led(S), a) = Append(Mapped(Led(S), p), Led(S)[n])
  BY AppendProperties, MappedAppend
<1> HIDE DEF a
<1>2. Below(a) = FlattenSeq(Mapped(Led(S), a)) /\ Below(p) = FlattenSeq(Mapped(Led(S), p))
  BY <1>1, BelowIs
<1>3. Led(S)[n] = <<"/">> \o n /\ \A m \in Seq(S) : Led(S)[m] \in Seq(S)
  BY BelowIs
<1>4. Mapped(Led(S), p) \in Seq(Seq(S))
  BY <1>3, MappedIn
<1> DEFINE m == Mapped(Led(S), p)
           x == Led(S)[n]
<1>5. FlattenSeq(Append(m, x)) = FlattenSeq(m) \o x
  <2>1. m \in Seq(Seq(S)) /\ x \in Seq(S)
    BY <1>3, <1>4
  <2> HIDE DEF m, x
  <2> QED
    BY <2>1, FlattenAppend
<1> QED
  BY <1>1, <1>2, <1>3, <1>5 DEF a

LEMMA BelowConcat ==
  ASSUME NEW S, "/" \in S, NEW p \in Seq(Seq(S))
  PROVE  \A q \in Seq(Seq(S)) : Below(p \o q) = Below(p) \o Below(q)
<1> DEFINE T == {q \in Seq(Seq(S)) : Below(p \o q) = Below(p) \o Below(q)}
<1>1. <<>> \in T
  <2>1. p \o <<>> = p /\ Below(p) \o <<>> = Below(p) /\ <<>> \in Seq(Seq(S))
    BY ConcatEmptySeq, BelowIn, EmptySeq
  <2> QED
    BY <2>1, BelowEmpty
<1>2. ASSUME NEW q \in Seq(Seq(S)), NEW n \in Seq(S), q \in T PROVE Append(q, n) \in T
  <2> DEFINE x == <<"/">> \o n
             pq == p \o q
  <2>1. x \in Seq(S)
    BY BelowIs
  <2>2. pq \in Seq(Seq(S)) /\ Append(q, n) \in Seq(Seq(S)) /\ p \o Append(q, n) = Append(pq, n)
    BY ConcatProperties, AppendProperties, AppendOfConcat
  <2>3. Below(Append(pq, n)) = Below(pq) \o x
    <3> HIDE DEF pq
    <3> QED
      BY <2>2, BelowAppend
  <2>4. Below(pq) = Below(p) \o Below(q)
    BY <1>2
  <2>5. Below(Append(q, n)) = Below(q) \o x
    BY BelowAppend
  <2>6. Below(p) \o (Below(q) \o x) = (Below(p) \o Below(q)) \o x
    <3> DEFINE bp == Below(p)
               bq == Below(q)
    <3>1. bp \in Seq(S) /\ bq \in Seq(S)
      BY BelowIn
    <3> HIDE DEF x, bp, bq
    <3>2. bp \o (bq \o x) = (bp \o bq) \o x
      BY <2>1, <3>1, Assoc
    <3> QED
      BY <3>2 DEF bp, bq
  <2> HIDE DEF x, pq
  <2> QED
    BY <2>2, <2>3, <2>4, <2>5, <2>6 DEF T
<1> HIDE DEF T
<1>3. Seq(Seq(S)) \subseteq T
  BY <1>1, <1>2, Induction
<1> QED
  BY <1>3 DEF T

(* A path starts with a single slash.                                      *)
LEMMA BelowStarts ==
  ASSUME NEW S, "/" \in S
  PROVE  \A p \in Seq(Name(S)) : p # <<>> =>
           \E u \in Seq(S) : u # <<>> /\ u[1] # "/" /\ Below(p) = <<"/">> \o u
<1> DEFINE OK(p) == \E u \in Seq(S) : u # <<>> /\ u[1] # "/" /\ Below(p) = <<"/">> \o u
           T == {p \in Seq(Name(S)) : p # <<>> => OK(p)}
           x == <<"/">>
<1>0. x \in Seq(S)
  OBVIOUS
<1>1. <<>> \in T
  BY EmptySeq
<1>2. ASSUME NEW p \in Seq(Name(S)), NEW n \in Name(S), p \in T PROVE Append(p, n) \in T
  <2>1. p \in Seq(Seq(S)) /\ n \in Seq(S) /\ n # <<>> /\ n[1] # "/" /\ Append(p, n) \in Seq(Name(S))
    BY NameIn, AppendProperties
  <2>2. Below(Append(p, n)) = Below(p) \o (x \o n)
    BY <2>1, BelowAppend
  <2>3. CASE p = <<>>
    <3>1. x \o n \in Seq(S)
      BY <2>1, BelowIs
    <3>2. Below(Append(p, n)) = x \o n
      BY <2>2, <2>3, <3>1, BelowEmpty, ConcatEmptySeq
    <3> QED
      BY <2>1, <3>2
  <2>4. CASE p # <<>>
    <3>1. PICK u \in Seq(S) : u # <<>> /\ u[1] # "/" /\ Below(p) = x \o u
      BY <1>2, <2>4
    <3> HIDE DEF x
    <3> DEFINE y == x \o n
               v == u \o y
    <3>2. y \in Seq(S)
      BY <1>0, <2>1, ConcatProperties
    <3> HIDE DEF y
    <3>3. v \in Seq(S) /\ Len(u) \in Nat \ {0} /\ Len(v) = Len(u) + Len(y) /\ Len(y) \in Nat
      BY <3>1, <3>2, ConcatProperties, EmptySeq, LenProperties
    <3>4. v[1] = u[1] /\ v # <<>>
      <4>1. 1 \in 1 .. Len(u) + Len(y) /\ 1 <= Len(u)
        BY <3>3
      <4> QED
        BY <3>2, <3>3, <4>1, ConcatProperties, EmptySeq
    <3>5. (x \o u) \o y = x \o v
      BY <1>0, <3>2, Assoc
    <3> HIDE DEF v
    <3>6. Below(Append(p, n)) = x \o v
      BY <2>2, <3>1, <3>5 DEF y
    <3>7. OK(Append(p, n))
      BY <3>1, <3>3, <3>4, <3>6 DEF x
    <3> QED
      BY <2>1, <3>7
  <2> QED
    BY <2>3, <2>4
<1> HIDE DEF T
<1>3. Seq(Name(S)) \subseteq T
  BY <1>1, <1>2, Induction
<1> QED
  BY <1>3 DEF T

LEMMA TailOfOne ==
  ASSUME NEW S, NEW c \in S, NEW s \in Seq(S)
  PROVE  /\ Tail(<<c>> \o s) = s /\ (<<c>> \o s)[1] = c /\ <<c>> \o s # <<>> /\ <<c>> \o s \in Seq(S)
<1> DEFINE x == <<c>>
           y == x \o s
<1>1. x \in Seq(S) /\ Len(x) = 1 /\ x[1] = c /\ Len(s) \in Nat
  BY LenProperties
<1> HIDE DEF x
<1>2. /\ y \in Seq(S) /\ Len(y) = 1 + Len(s) /\ \A i \in 1 .. 1 + Len(s) : y[i] = IF i <= 1 THEN x[i] ELSE s[i - 1]
  <2>1. /\ y \in Seq(S) /\ Len(y) = Len(x) + Len(s)
        /\ \A i \in 1 .. Len(x) + Len(s) : y[i] = IF i <= Len(x) THEN x[i] ELSE s[i - Len(x)]
    BY <1>1, ConcatProperties
  <2> HIDE DEF y
  <2> QED
    BY <1>1, <2>1
<1> HIDE DEF y
<1>3. y[1] = c /\ y # <<>>
  BY <1>1, <1>2, EmptySeq
<1>4. Tail(y) \in Seq(S) /\ Len(Tail(y)) = Len(s) /\ \A i \in 1 .. Len(s) : Tail(y)[i] = y[i + 1]
  BY <1>1, <1>2, <1>3, HeadTailProperties
<1>5. ASSUME NEW i \in 1 .. Len(s) PROVE Tail(y)[i] = s[i]
  BY <1>1, <1>2, <1>4, <1>5
<1>6. Tail(y) = s
  BY <1>4, <1>5, SeqEqual
<1> QED
  BY <1>2, <1>3, <1>6 DEF x, y

(* The text of an absolute path, and of one that is relative.              *)
AbsText(path) == Text(path, TRUE)
RelText(path) == Text(path, FALSE)

LEMMA AbsTextIs ==
  ASSUME NEW S, "/" \in S, NEW p \in Seq(Name(S))
  PROVE  AbsText(p) \in Seq(S) /\ AbsText(p) # <<>> /\ AbsText(p)[1] = "/"
<1>1. CASE p = <<>>
  <2>1. AbsText(p) = <<"/">>
    BY <1>1 DEF AbsText, Text
  <2> QED
    BY <2>1
<1>2. CASE p # <<>>
  <2>1. AbsText(p) = Below(p)
    BY <1>2 DEF AbsText, Text
  <2>2. PICK u \in Seq(S) : Below(p) = <<"/">> \o u
    BY <1>2, BelowStarts
  <2> DEFINE c == "/"
  <2>3. <<c>> \o u \in Seq(S) /\ <<c>> \o u # <<>> /\ (<<c>> \o u)[1] = c
    <3>1. c \in S
      OBVIOUS
    <3> HIDE DEF c
    <3> QED
      BY <3>1, TailOfOne
  <2> QED
    BY <2>1, <2>2, <2>3
<1> QED
  BY <1>1, <1>2

LEMMA RelTextIs ==
  ASSUME NEW S, "/" \in S, NEW p \in Seq(Name(S)), p # <<>>
  PROVE  RelText(p) \in Seq(S) /\ RelText(p) # <<>> /\ RelText(p)[1] # "/" /\ <<"/">> \o RelText(p) = Below(p)
<1>1. PICK u \in Seq(S) : u # <<>> /\ u[1] # "/" /\ Below(p) = <<"/">> \o u
  BY BelowStarts
<1>2. RelText(p) = Tail(Below(p))
  BY DEF RelText, Text
<1> DEFINE c == "/"
<1>3. Tail(<<c>> \o u) = u
  <2>1. c \in S
    OBVIOUS
  <2> HIDE DEF c
  <2> QED
    BY <2>1, TailOfOne
<1> QED
  BY <1>1, <1>2, <1>3

(* Below a directory, a relative text is what the absolute one would be.   *)
LEMMA Rejoined ==
  ASSUME NEW S, "/" \in S, NEW b \in Seq(Name(S)), NEW p \in Seq(Name(S)), p # <<>>
  PROVE  Below(b) \o <<"/">> \o RelText(p) = AbsText(b \o p)
<1> DEFINE x == <<"/">>
           r == RelText(p)
           bb == Below(b)
<1>1. x \in Seq(S) /\ r \in Seq(S) /\ x \o r = Below(p)
  BY RelTextIs
<1>2. b \in Seq(Seq(S)) /\ p \in Seq(Seq(S))
  BY NameIn
<1>3. bb \in Seq(S)
  BY <1>2, BelowIn
<1>4. Below(b \o p) = bb \o Below(p)
  BY <1>2, BelowConcat
<1>5. b \o p # <<>>
  <2>1. Len(b) \in Nat /\ Len(p) \in Nat \ {0} /\ Len(b \o p) = Len(b) + Len(p) /\ b \o p \in Seq(Name(S))
    BY ConcatProperties, LenProperties, EmptySeq
  <2> QED
    BY <2>1, EmptySeq
<1>6. AbsText(b \o p) = Below(b \o p)
  BY <1>5 DEF AbsText, Text
<1>7. (bb \o x) \o r = bb \o (x \o r)
  <2>1. bb \in Seq(S) /\ x \in Seq(S) /\ r \in Seq(S)
    BY <1>1, <1>3
  <2> HIDE DEF x, r, bb
  <2> QED
    BY <2>1, Assoc
<1> QED
  BY <1>1, <1>4, <1>6, <1>7 DEF x, r, bb

LEMMA FinishedIn ==
  ASSUME NEW R, NEW p \in Seq(Seq(R) \ {<<>>}), NEW q \in Seq(R)
  PROVE  /\ Finished(In(p, q)) \in Seq(Seq(R) \ {<<>>})
         /\ Finished(AfterEscape(p, q)) \in Seq(Seq(R) \ {<<>>})
<1> DEFINE NE == Seq(R) \ {<<>>}
<1>1. CASE q = <<>>
  BY <1>1 DEF Finished, In, AfterEscape
<1>2. CASE q # <<>>
  <2>1. q \in NE /\ p \in Seq(NE)
    BY <1>2
  <2>2. Append(p, q) \in Seq(NE)
    <3> HIDE DEF NE
    <3> QED
      BY <2>1, AppendProperties
  <2>3. Finished(In(p, q)) = Append(p, q)
    BY <1>2 DEF Finished, In
  <2>4. Finished(AfterEscape(p, q)) = Append(p, q)
    BY <1>2 DEF Finished, AfterEscape
  <2> QED
    BY <2>2, <2>3, <2>4
<1> QED
  BY <1>1, <1>2

(* The parts of a text: none is empty, and they have no separator if       *)
(* nothing escapes it.                                                     *)
LEMMA PartsIn ==
  ASSUME NEW S, NEW separator, NEW escapes, NEW R, S \ {separator} \subseteq R, escapes = {} \/ S \subseteq R
  PROVE  \A t \in Seq(S) : SplitAt(t, separator, escapes) \in Seq(Seq(R) \ {<<>>})
<1> DEFINE NE == Seq(R) \ {<<>>}
           A(t) == ReadAll(t, separator, escapes)
           OK(t) == \E p \in Seq(NE), q \in Seq(R) : A(t) = In(p, q) \/ (A(t) = AfterEscape(p, q) /\ S \subseteq R)
           T == {t \in Seq(S) : OK(t)}
<1>1. <<>> \in T
  <2>1. A(<<>>) = In(<<>>, <<>>) /\ <<>> \in Seq(NE) /\ <<>> \in Seq(R) /\ <<>> \in Seq(S)
    BY ReadNothing, StartIs, EmptySeq
  <2> QED
    BY <2>1
<1>2. ASSUME NEW t \in Seq(S), NEW c \in S, t \in T PROVE Append(t, c) \in T
  <2>1. PICK p \in Seq(NE), q \in Seq(R) : A(t) = In(p, q) \/ (A(t) = AfterEscape(p, q) /\ S \subseteq R)
    BY <1>2
  <2>2. Append(t, c) \in Seq(S)
    BY AppendProperties
  <2>3. CASE A(t) = In(p, q) /\ c \in escapes
    <3>1. A(Append(t, c)) = AfterEscape(p, q)
      BY <2>3, StepEscape
    <3>2. S \subseteq R
      BY <2>3
    <3> QED
      BY <2>2, <3>1, <3>2
  <2>4. CASE A(t) = In(p, q) /\ c \notin escapes /\ c = separator
    <3>1. A(Append(t, c)) = In(IF q = <<>> THEN p ELSE Append(p, q), <<>>)
      <4>1. separator \in S /\ separator \notin escapes /\ A(t) = In(p, q)
        BY <2>4
      <4>2. A(Append(t, separator)) = In(IF q = <<>> THEN p ELSE Append(p, q), <<>>)
        BY <4>1, StepSeparator
      <4> QED
        BY <2>4, <4>2
    <3> DEFINE pp == IF q = <<>> THEN p ELSE Append(p, q)
    <3>2. pp \in Seq(NE)
      <4>1. CASE q = <<>>
        BY <4>1
      <4>2. CASE q # <<>>
        <5>1. q \in NE
          BY <4>2
        <5> HIDE DEF NE
        <5>2. Append(p, q) \in Seq(NE)
          BY <5>1, AppendProperties
        <5> QED
          BY <4>2, <5>2
      <4> QED
        BY <4>1, <4>2
    <3>3. <<>> \in Seq(R)
      BY EmptySeq
    <3> QED
      BY <2>2, <3>1, <3>2, <3>3
  <2>5. CASE A(t) = In(p, q) /\ c \notin escapes /\ c # separator
    <3>1. A(Append(t, c)) = In(p, Append(q, c))
      BY <2>5, StepPlain
    <3>2. Append(q, c) \in Seq(R)
      BY <2>5, AppendProperties
    <3> QED
      BY <2>2, <3>1, <3>2
  <2>6. CASE A(t) = AfterEscape(p, q) /\ S \subseteq R
    <3>1. A(Append(t, c)) = In(p, Append(q, c))
      BY <2>6, StepPlain
    <3>2. Append(q, c) \in Seq(R)
      BY <2>6, AppendProperties
    <3> QED
      BY <2>2, <3>1, <3>2
  <2> QED
    BY <2>1, <2>3, <2>4, <2>5, <2>6
<1> HIDE DEF T
<1>3. Seq(S) \subseteq T
  BY <1>1, <1>2, Induction
<1>4. \A t \in Seq(S) : OK(t)
  BY <1>3 DEF T
<1>5. \A p \in Seq(NE), q \in Seq(R) : Finished(In(p, q)) \in Seq(NE) /\ Finished(AfterEscape(p, q)) \in Seq(NE)
  BY FinishedIn
<1> HIDE DEF NE
<1>6. ASSUME NEW t \in Seq(S) PROVE SplitAt(t, separator, escapes) \in Seq(NE)
  <2>1. PICK p \in Seq(NE), q \in Seq(R) : A(t) = In(p, q) \/ A(t) = AfterEscape(p, q)
    BY <1>4
  <2>2. SplitAt(t, separator, escapes) = Finished(A(t))
    BY SplitAtIs
  <2> QED
    BY <1>5, <2>1, <2>2
<1> QED
  BY <1>6 DEF NE

(* The directories of a configuration.                                     *)
LEMMA AbsoluteIn ==
  ASSUME NEW S, NEW bundle \in Seq(Name(S)), NEW t \in Seq(S)
  PROVE  Absolute(bundle, t) \in Seq(Name(S))
<1>1. Pieces(t, "/") \in Seq(Seq(S \ {"/"}) \ {<<>>})
  BY PartsIn DEF Pieces
<1> DEFINE x == Pieces(t, "/")
           b == IF IsPrefix(<<"/">>, t) THEN <<>> ELSE bundle
           N == Name(S)
<1>2. x \in Seq(N) /\ b \in Seq(N)
  BY <1>1, EmptySeq DEF Name
<1>3. Absolute(bundle, t) = b \o x
  BY DEF Absolute
<1>4. b \o x \in Seq(N)
  <2> HIDE DEF b, x, N
  <2> QED
    BY <1>2, ConcatProperties
<1> QED
  BY <1>3, <1>4

(* What layers are: at least one lower, at most one upper and work.        *)
Sound(P, l) ==
  /\ l.lower \in Seq(P) /\ l.lower # <<>>
  /\ l.upper \subseteq P /\ \A p, q \in l.upper : p = q
  /\ l.work \subseteq P /\ \A p, q \in l.work : p = q

LEMMA FoundSound ==
  ASSUME NEW S, NEW bundle \in Seq(Name(S)), NEW a, a.lower \in Seq(S),
         a.upper \subseteq Seq(S), \A t, u \in a.upper : t = u,
         a.work \subseteq Seq(S), \A t, u \in a.work : t = u
  PROVE  \A l \in FromAnnotations(a, bundle).found :
           Sound(Seq(Name(S)), l) /\ FromAnnotations(a, bundle).found = {l}
<1> DEFINE P == Seq(Name(S))
           parts == Split(a.lower)
           Dirs(T) == {Absolute(bundle, t) : t \in T}
           low == [i \in DOMAIN parts |-> Absolute(bundle, parts[i])]
           m == [lower |-> low, upper |-> Dirs(a.upper), work |-> Dirs(a.work)]
<1>1. FromAnnotations(a, bundle).found = IF parts = <<>> THEN {} ELSE {m}
  BY DEF FromAnnotations
<1>2. \A t \in Seq(S) : Absolute(bundle, t) \in P
  BY AbsoluteIn
<1>3. parts \in Seq(Seq(S) \ {<<>>})
  BY PartsIn DEF Split
<1>4. Len(parts) \in Nat /\ DOMAIN parts = 1 .. Len(parts) /\ \A i \in 1 .. Len(parts) : parts[i] \in Seq(S)
  <2> HIDE DEF parts
  <2> DEFINE NE == Seq(S) \ {<<>>}
  <2>1. Len(parts) \in Nat /\ DOMAIN parts = 1 .. Len(parts) /\ \A i \in 1 .. Len(parts) : parts[i] \in NE
    <3> HIDE DEF NE
    <3> QED
      BY <1>3, LenProperties, ElementOfSeq DEF NE
  <2> QED
    BY <2>1
<1>5. low \in Seq(P)
  <2> HIDE DEF parts, P
  <2>1. \A i \in 1 .. Len(parts) : Absolute(bundle, parts[i]) \in P
    BY <1>2, <1>4
  <2> QED
    BY <1>4, <2>1
<1>6. parts # <<>> => low # <<>>
  <2>1. parts # <<>> => Len(parts) \in Nat \ {0}
    <3> HIDE DEF parts
    <3> QED
      BY <1>3, EmptySeq
  <2>2. DOMAIN low = DOMAIN parts
    OBVIOUS
  <2> HIDE DEF parts, low
  <2>3. parts # <<>> => 1 \in DOMAIN low
    BY <1>4, <2>1, <2>2
  <2> QED
    BY <2>3
<1>7. parts # <<>> => Sound(P, m)
  <2>1. /\ Dirs(a.upper) \subseteq P /\ \A p, q \in Dirs(a.upper) : p = q
        /\ Dirs(a.work) \subseteq P /\ \A p, q \in Dirs(a.work) : p = q
    BY <1>2
  <2> HIDE DEF low, parts, P, Dirs
  <2> QED
    BY <1>5, <1>6, <2>1 DEF Sound
<1> HIDE DEF m, parts, P
<1> QED
  BY <1>1, <1>7 DEF P

(* Reading the fields of the options: K is the set of those in a text.     *)
Comma == ","
NoEscapes == {}
CommaRead(t) == ReadAll(t, Comma, NoEscapes)

Fields(Z, t, K) ==
  /\ t \in Seq(Z \cup {Comma})
  /\ \E p \in Seq(Seq(Z)), q \in Seq(Z) : q # <<>> /\ CommaRead(t) = In(p, q) /\ ToSet(Append(p, q)) = K

LEMMA SetOfAppend ==
  ASSUME NEW S, NEW s \in Seq(S), NEW c \in S
  PROVE  ToSet(Append(s, c)) = ToSet(s) \cup {c}
<1>1. /\ Append(s, c) \in Seq(S) /\ Len(Append(s, c)) = Len(s) + 1 /\ Append(s, c)[Len(s) + 1] = c
      /\ \A i \in 1 .. Len(s) : Append(s, c)[i] = s[i]
  BY AppendProperties
<1>2. Len(s) \in Nat /\ DOMAIN s = 1 .. Len(s) /\ DOMAIN Append(s, c) = 1 .. Len(s) + 1
  BY <1>1, LenProperties
<1> DEFINE a == Append(s, c)
<1>3. \A i \in 1 .. Len(s) + 1 : i \in 1 .. Len(s) \/ i = Len(s) + 1
  BY <1>2
<1> HIDE DEF a
<1> QED
  BY <1>1, <1>2, <1>3 DEF ToSet, a

LEMMA SetOfOne == ASSUME NEW c PROVE ToSet(Append(<<>>, c)) = {c}
<1>1. Append(<<>>, c) = <<c>> /\ DOMAIN <<c>> = {1} /\ <<c>>[1] = c
  OBVIOUS
<1> QED
  BY <1>1 DEF ToSet

LEMMA CommaPlain ==
  ASSUME NEW Z, Comma \notin Z, NEW S, Z \subseteq S, NEW t \in Seq(S), NEW p, NEW q \in Seq(S), CommaRead(t) = In(p, q)
  PROVE  \A u \in Seq(Z) : CommaRead(t \o u) = In(p, q \o u)
<1>1. Z \cap NoEscapes = {}
  BY DEF NoEscapes
<1>2. \A u \in Seq(Z) : ReadAll(t \o u, Comma, NoEscapes) = In(p, q \o u)
  BY <1>1, ReadOrdinary DEF CommaRead
<1> QED
  BY <1>2 DEF CommaRead

LEMMA CommaPlainAlone ==
  ASSUME NEW Z, Comma \notin Z, NEW S, Z \subseteq S, NEW t \in Seq(S), NEW p, CommaRead(t) = In(p, <<>>), NEW u \in Seq(Z)
  PROVE  CommaRead(t \o u) = In(p, u)
<1> DEFINE e == <<>>
<1>1. e \in Seq(S) /\ e \o u = u
  BY EmptySeq, ConcatEmptySeq
<1>2. CommaRead(t) = In(p, e)
  OBVIOUS
<1> HIDE DEF e
<1>3. \A v \in Seq(Z) : CommaRead(t \o v) = In(p, e \o v)
  <2>1. e \in Seq(S)
    BY <1>1
  <2> QED
    BY <1>2, <2>1, CommaPlain
<1> QED
  BY <1>1, <1>3

LEMMA CommaCuts ==
  ASSUME NEW S, Comma \in S, NEW t \in Seq(S), NEW p, NEW q, q # <<>>, CommaRead(t) = In(p, q)
  PROVE  CommaRead(Append(t, Comma)) = In(Append(p, q), <<>>)
<1>1. Comma \notin NoEscapes
  BY DEF NoEscapes
<1>2. ReadAll(t, Comma, NoEscapes) = In(p, q)
  BY DEF CommaRead
<1>3. ReadAll(Append(t, Comma), Comma, NoEscapes) = In(Append(p, q), <<>>)
  BY <1>1, <1>2, StepSeparator
<1> QED
  BY <1>3 DEF CommaRead

LEMMA FieldsFirst ==
  ASSUME NEW Z, Comma \notin Z, NEW u \in Seq(Z), u # <<>>
  PROVE  Fields(Z, u, {u})
<1> DEFINE S == Z \cup {Comma}
           e == <<>>
<1>1. e \in Seq(S) /\ CommaRead(e) = In(e, e)
  BY ReadNothing, StartIs, EmptySeq DEF CommaRead
<1>2. Z \subseteq S
  OBVIOUS
<1>3. CommaRead(e \o u) = In(e, u)
  <2>1. CommaRead(e) = In(e, <<>>)
    BY <1>1
  <2> HIDE DEF e, S
  <2> QED
    BY <1>1, <1>2, <2>1, CommaPlainAlone
<1>4. e \o u = u
  BY ConcatEmptySeq
<1>5. u \in Seq(S)
  BY <1>2, SeqMonotonic
<1>6. CommaRead(u) = In(e, u) /\ e \in Seq(Seq(Z))
  BY <1>3, <1>4, EmptySeq
<1>7. ToSet(Append(e, u)) = {u}
  BY SetOfOne
<1> HIDE DEF e
<1> QED
  BY <1>1, <1>5, <1>6, <1>7 DEF Fields

LEMMA FieldsMore ==
  ASSUME NEW Z, Comma \notin Z, NEW t, NEW K, Fields(Z, t, K), NEW u \in Seq(Z), u # <<>>
  PROVE  Fields(Z, t \o (<<Comma>> \o u), K \cup {u})
<1> DEFINE c == Comma
           S == Z \cup {c}
           tc == Append(t, c)
           e == <<>>
<1>1. t \in Seq(S) /\ Z \subseteq S /\ c \in S
  BY DEF Fields
<1>2. PICK p \in Seq(Seq(Z)), q \in Seq(Z) : q # <<>> /\ CommaRead(t) = In(p, q) /\ ToSet(Append(p, q)) = K
  BY DEF Fields
<1> DEFINE pq == Append(p, q)
<1>3. tc \in Seq(S) /\ e \in Seq(S)
  <2> HIDE DEF S, c
  <2> QED
    BY <1>1, AppendProperties, EmptySeq
<1>4. CommaRead(tc) = In(pq, e)
  <2>1. Comma \in S
    BY <1>1
  <2> HIDE DEF S
  <2> QED
    BY <1>1, <1>2, <2>1, CommaCuts
<1>5. e \o u = u /\ u \in Seq(S)
  BY <1>1, ConcatEmptySeq, SeqMonotonic
<1>6. CommaRead(tc \o u) = In(pq, u)
  <2>1. CommaRead(tc) = In(pq, <<>>)
    BY <1>4
  <2> HIDE DEF S, pq, tc, c
  <2> QED
    BY <1>1, <1>3, <2>1, CommaPlainAlone
<1>7. t \o (<<c>> \o u) = tc \o u /\ tc \o u \in Seq(S)
  <2>1. u \in Seq(S)
    BY <1>5
  <2> HIDE DEF S, c
  <2>2. t \o (<<c>> \o u) = tc \o u
    BY <1>1, <2>1, ConcatOne
  <2> HIDE DEF tc
  <2> QED
    BY <1>3, <2>1, <2>2, ConcatProperties
<1>8. pq \in Seq(Seq(Z)) /\ ToSet(Append(pq, u)) = K \cup {u}
  <2> DEFINE Q == Seq(Z)
  <2>1. u \in Q /\ p \in Seq(Q) /\ q \in Q
    OBVIOUS
  <2> HIDE DEF Q
  <2>2. pq \in Seq(Q)
    BY <2>1, AppendProperties
  <2>3. ToSet(pq) = K
    BY <1>2
  <2> HIDE DEF pq
  <2>4. ToSet(Append(pq, u)) = ToSet(pq) \cup {u}
    BY <2>1, <2>2, SetOfAppend
  <2> QED
    BY <2>2, <2>3, <2>4 DEF Q
<1> DEFINE new == t \o (<<c>> \o u)
<1>9. new \in Seq(Z \cup {Comma}) /\ CommaRead(new) = In(pq, u)
  BY <1>6, <1>7
<1> HIDE DEF pq, new
<1>10. Fields(Z, new, K \cup {u})
  BY <1>8, <1>9 DEF Fields
<1> QED
  BY <1>10 DEF new

LEMMA FieldsPieces ==
  ASSUME NEW Z, NEW t, NEW K, Fields(Z, t, K)
  PROVE  ToSet(Pieces(t, Comma)) = K
<1>1. PICK p \in Seq(Seq(Z)), q \in Seq(Z) : q # <<>> /\ CommaRead(t) = In(p, q) /\ ToSet(Append(p, q)) = K
  BY DEF Fields
<1>2. Pieces(t, Comma) = Finished(CommaRead(t))
  BY SplitAtIs DEF Pieces, CommaRead, NoEscapes
<1>3. Finished(In(p, q)) = Append(p, q)
  BY <1>1 DEF Finished, In
<1> QED
  BY <1>1, <1>2, <1>3

(* The options, when F gives the texts.                                    *)
LowerKey == "L="
UpperKey == "U="
WorkKey == "W="

FieldOf(key, F, Q) == IF Q = {} THEN <<>> ELSE <<Comma, key>> \o Esc(F[CHOOSE p \in Q : TRUE])
LowerField(F, l) == <<LowerKey>> \o Join(EscAll(Mapped(F, l.lower)), ":")
Data(F, l) == LowerField(F, l) \o FieldOf(UpperKey, F, l.upper) \o FieldOf(WorkKey, F, l.work)

LEMMA OptionsAre ==
  ASSUME NEW absolute, NEW P, NEW l, Sound(P, l), NEW F, \A p \in P : F[p] = Text(p, absolute)
  PROVE  Options(l, absolute) =
           IF \E p \in AllPaths(l) : Contains(F[p], ",") THEN {} ELSE {Data(F, l)}
<1> DEFINE Written(p) == Escape(Text(p, absolute))
           Field(key, Q) == IF Q = {} THEN <<>> ELSE <<",", key>> \o CHOOSE t \in UNION {Written(p) : p \in Q} : TRUE
           written == [i \in DOMAIN l.lower |-> CHOOSE t \in Written(l.lower[i]) : TRUE]
<1>1. Options(l, absolute) = IF \E p \in AllPaths(l) : Written(p) = {} THEN {}
                             ELSE {<<"L=">> \o Join(written, ":") \o Field("U=", l.upper) \o Field("W=", l.work)}
  BY DEF Options
<1>2. AllPaths(l) \subseteq P /\ l.upper \subseteq AllPaths(l) /\ l.work \subseteq AllPaths(l)
  <2>1. DOMAIN l.lower = 1 .. Len(l.lower) /\ \A i \in 1 .. Len(l.lower) : l.lower[i] \in P
    BY LenProperties, ElementOfSeq DEF Sound
  <2> QED
    BY <2>1 DEF AllPaths, Sound, ToSet
<1>3. \A p \in P : Written(p) = IF Contains(F[p], ",") THEN {} ELSE {Esc(F[p])}
  BY EscapeIs
<1>4. (\E p \in AllPaths(l) : Written(p) = {}) <=> \E p \in AllPaths(l) : Contains(F[p], ",")
  <2> HIDE DEF Written
  <2> QED
    BY <1>2, <1>3
<1>5. ASSUME ~\E p \in AllPaths(l) : Contains(F[p], ",")
      PROVE  <<"L=">> \o Join(written, ":") \o Field("U=", l.upper) \o Field("W=", l.work) = Data(F, l)
  <2>1. \A p \in AllPaths(l) : Written(p) = {Esc(F[p])}
    <3> HIDE DEF Written
    <3> QED
      BY <1>2, <1>3, <1>5
  <2>2. \A x : (CHOOSE t \in {x} : TRUE) = x
    OBVIOUS
  <2>3. written = EscAll(Mapped(F, l.lower))
    <3> DEFINE low == l.lower
    <3>1. low \in Seq(P) /\ DOMAIN low = 1 .. Len(low) /\ Len(low) \in Nat
      BY LenProperties DEF Sound
    <3>2. \A i \in DOMAIN low : low[i] \in AllPaths(l)
      BY DEF AllPaths, ToSet
    <3>3. \A i \in DOMAIN low : (CHOOSE t \in Written(low[i]) : TRUE) = Esc(F[low[i]])
      <4> HIDE DEF Written, low
      <4> QED
        BY <2>1, <2>2, <3>2
    <3>4. DOMAIN Mapped(F, low) = DOMAIN low /\ \A i \in DOMAIN low : Mapped(F, low)[i] = F[low[i]]
      BY DEF Mapped
    <3> HIDE DEF Written
    <3> QED
      BY <3>3, <3>4 DEF EscAll
  <2>4. ASSUME NEW key, NEW Q, Q \subseteq AllPaths(l), \A p, q \in Q : p = q PROVE Field(key, Q) = FieldOf(key, F, Q)
    <3>1. CASE Q = {}
      BY <3>1 DEF FieldOf
    <3>2. CASE Q # {}
      <4> DEFINE q == CHOOSE p \in Q : TRUE
      <4>1. q \in Q /\ Q = {q}
        BY <2>4, <3>2
      <4> HIDE DEF q
      <4>2. Written(q) = {Esc(F[q])}
        <5> HIDE DEF Written
        <5> QED
          BY <2>1, <2>4, <4>1
      <4>3. UNION {Written(p) : p \in Q} = {Esc(F[q])}
        <5> HIDE DEF Written
        <5> QED
          BY <4>1, <4>2
      <4>4. Field(key, Q) = <<",", key>> \o Esc(F[q])
        <5> HIDE DEF Written
        <5> QED
          BY <2>2, <3>2, <4>3
      <4> HIDE DEF Field
      <4>5. FieldOf(key, F, Q) = <<",", key>> \o Esc(F[q])
        BY <3>2 DEF FieldOf, Comma, q
      <4> QED
        BY <4>4, <4>5
    <3> QED
      BY <3>1, <3>2
  <2>5. Field("U=", l.upper) = FieldOf("U=", F, l.upper)
    <3> HIDE DEF Field
    <3> QED
      BY <1>2, <2>4 DEF Sound
  <2>6. Field("W=", l.work) = FieldOf("W=", F, l.work)
    <3> HIDE DEF Field
    <3> QED
      BY <1>2, <2>4 DEF Sound
  <2> HIDE DEF Field, written
  <2> QED
    BY <2>3, <2>5, <2>6 DEF Data, LowerField, LowerKey, UpperKey, WorkKey
<1> HIDE DEF Written, Field, written
<1> QED
  BY <1>1, <1>4, <1>5

(* The characters of what can be written.                                  *)
Alphabet(Z) == Comma \notin Z /\ {LowerKey, UpperKey, WorkKey, "\\", ":", "/"} \subseteq Z

OneField(key, F, p) == <<key>> \o Esc(F[p])
Entries(key, F, Q) == {OneField(key, F, p) : p \in Q}

LEMMA TwoThen ==
  ASSUME NEW S, NEW a \in S, NEW b \in S, NEW s \in Seq(S)
  PROVE  <<a, b>> \o s = <<a>> \o (<<b>> \o s)
<1> DEFINE x == <<a>>
           y == <<b>>
<1>1. x \in Seq(S) /\ y \in Seq(S) /\ <<a, b>> = x \o y
  <2>1. x \in Seq(S) /\ y \in Seq(S) /\ <<a, b>> = Append(x, b)
    OBVIOUS
  <2> HIDE DEF x
  <2>2. Append(x, b) = x \o y
    BY <2>1, AppendIsConcat
  <2> QED
    BY <2>1, <2>2
<1> HIDE DEF x, y
<1>2. x \o (y \o s) = (x \o y) \o s
  BY <1>1, Assoc
<1>3. <<a, b>> \o s = x \o (y \o s)
  BY <1>1, <1>2
<1> QED
  BY <1>3 DEF x, y

LEMMA EntryIn ==
  ASSUME NEW Z, Alphabet(Z), NEW key \in Z, NEW s \in Seq(Z)
  PROVE  /\ <<key>> \o Esc(s) \in Seq(Z) /\ <<key>> \o Esc(s) # <<>>
         /\ (<<key>> \o Esc(s))[1] = key /\ Tail(<<key>> \o Esc(s)) = Esc(s)
<1> DEFINE e == Esc(s)
<1>1. "\\" \in Z
  BY DEF Alphabet
<1>2. e \in Seq(Z)
  BY <1>1, EscIn
<1> HIDE DEF e
<1>3. Tail(<<key>> \o e) = e /\ (<<key>> \o e)[1] = key /\ <<key>> \o e # <<>> /\ <<key>> \o e \in Seq(Z)
  BY <1>2, TailOfOne
<1> QED
  BY <1>3 DEF e

LEMMA FieldsEntry ==
  ASSUME NEW Z, Alphabet(Z), NEW t, NEW K, Fields(Z, t, K), NEW key \in Z, NEW F,
         NEW Q, \A p \in Q : F[p] \in Seq(Z), \A p, q \in Q : p = q
  PROVE  Fields(Z, t \o FieldOf(key, F, Q), K \cup Entries(key, F, Q))
<1>1. CASE Q = {}
  <2>1. FieldOf(key, F, Q) = <<>> /\ Entries(key, F, Q) = {}
    BY <1>1 DEF FieldOf, Entries
  <2>2. t \o <<>> = t
    BY ConcatEmptySeq DEF Fields
  <2>3. K \cup {} = K
    OBVIOUS
  <2> QED
    BY <2>1, <2>2, <2>3
<1>2. CASE Q # {}
  <2> DEFINE q == CHOOSE p \in Q : TRUE
             e == Esc(F[q])
             u == <<key>> \o e
             S == Z \cup {Comma}
  <2>1. q \in Q /\ Q = {q}
    BY <1>2
  <2>2. F[q] \in Seq(Z)
    BY <2>1
  <2>3. u \in Seq(Z) /\ u # <<>>
    <3> DEFINE s == F[q]
    <3>1. s \in Seq(Z)
      BY <2>2
    <3> HIDE DEF s, q
    <3> QED
      BY <3>1, EntryIn DEF s
  <2>4. FieldOf(key, F, Q) = <<Comma, key>> \o e
    BY <1>2 DEF FieldOf
  <2>5. Entries(key, F, Q) = {u}
    <3> HIDE DEF q
    <3> QED
      BY <2>1 DEF Entries, OneField
  <2>6. e \in Seq(S) /\ Comma \in S /\ key \in S
    <3>1. "\\" \in Z
      BY DEF Alphabet
    <3>2. e \in Seq(Z)
      BY <2>2, <3>1, EscIn
    <3>3. Z \subseteq S
      OBVIOUS
    <3>4. Seq(Z) \subseteq Seq(S)
      BY <3>3, SeqMonotonic
    <3> HIDE DEF e
    <3> QED
      BY <3>2, <3>3, <3>4
  <2>7. <<Comma, key>> \o e = <<Comma>> \o u
    <3> HIDE DEF e, S
    <3> QED
      BY <2>6, TwoThen
  <2>8. Comma \notin Z
    BY DEF Alphabet
  <2> HIDE DEF u, e, q
  <2>9. Fields(Z, t \o (<<Comma>> \o u), K \cup {u})
    BY <2>3, <2>8, FieldsMore
  <2> QED
    BY <2>4, <2>5, <2>7, <2>9
<1> QED
  BY <1>1, <1>2

LEMMA LowerFieldIs ==
  ASSUME NEW Z, Alphabet(Z), NEW P, NEW F, \A p \in P : F[p] \in Seq(Z), NEW l, Sound(P, l)
  PROVE  /\ LowerField(F, l) \in Seq(Z) /\ LowerField(F, l) # <<>> /\ LowerField(F, l)[1] = LowerKey
         /\ Tail(LowerField(F, l)) = Join(EscAll(Mapped(F, l.lower)), ":")
<1> DEFINE tt == Mapped(F, l.lower)
           J == Join(EscAll(tt), ":")
           colon == ":"
<1>1. "\\" \in Z /\ colon \in Z /\ LowerKey \in Z
  BY DEF Alphabet
<1>2. tt \in Seq(Seq(Z))
  BY MappedIn DEF Sound
<1>3. EscAll(tt) \in Seq(Seq(Z))
  <2> HIDE DEF tt
  <2> DEFINE e == <<>>
  <2>1. e \in Seq(Z)
    BY EmptySeq
  <2> HIDE DEF e
  <2> QED
    BY <1>1, <1>2, <2>1, EscAllAppend
<1>4. J \in Seq(Z)
  <2> DEFINE ea == EscAll(tt)
  <2>1. ea \in Seq(Seq(Z)) /\ J = Join(ea, colon)
    BY <1>3
  <2> HIDE DEF ea, J, colon
  <2> QED
    BY <1>1, <2>1, JoinIn
<1> HIDE DEF J
<1>5. Tail(<<LowerKey>> \o J) = J /\ (<<LowerKey>> \o J)[1] = LowerKey /\ <<LowerKey>> \o J # <<>> /\ <<LowerKey>> \o J \in Seq(Z)
  BY <1>1, <1>4, TailOfOne
<1> QED
  BY <1>5 DEF J, LowerField

LEMMA DataFields ==
  ASSUME NEW Z, Alphabet(Z), NEW P, NEW F, \A p \in P : F[p] \in Seq(Z), NEW l, Sound(P, l)
  PROVE  Fields(Z, Data(F, l),
                {LowerField(F, l)} \cup Entries(UpperKey, F, l.upper) \cup Entries(WorkKey, F, l.work))
<1> DEFINE t0 == LowerField(F, l)
           t1 == t0 \o FieldOf(UpperKey, F, l.upper)
           t2 == t1 \o FieldOf(WorkKey, F, l.work)
           K0 == {t0}
           K1 == K0 \cup Entries(UpperKey, F, l.upper)
           K2 == K1 \cup Entries(WorkKey, F, l.work)
<1>1. Comma \notin Z /\ UpperKey \in Z /\ WorkKey \in Z
  BY DEF Alphabet
<1>2. Fields(Z, t0, K0)
  <2>1. t0 \in Seq(Z) /\ t0 # <<>>
    BY LowerFieldIs
  <2> HIDE DEF t0
  <2> QED
    BY <1>1, <2>1, FieldsFirst
<1>3. Fields(Z, t1, K1)
  <2> DEFINE Q == l.upper
  <2>1. (\A p \in Q : F[p] \in Seq(Z)) /\ \A p, q \in Q : p = q
    BY DEF Sound
  <2> HIDE DEF t0, K0, Q
  <2>2. Fields(Z, t0 \o FieldOf(UpperKey, F, Q), K0 \cup Entries(UpperKey, F, Q))
    BY <1>1, <1>2, <2>1, FieldsEntry
  <2> QED
    BY <2>2 DEF Q
<1>4. Fields(Z, t2, K2)
  <2> DEFINE Q == l.work
  <2>1. (\A p \in Q : F[p] \in Seq(Z)) /\ \A p, q \in Q : p = q
    BY DEF Sound
  <2> HIDE DEF t1, K1, Q
  <2>2. Fields(Z, t1 \o FieldOf(WorkKey, F, Q), K1 \cup Entries(WorkKey, F, Q))
    BY <1>1, <1>3, <2>1, FieldsEntry
  <2> QED
    BY <2>2 DEF Q
<1> QED
  BY <1>4 DEF Data

(* What the kernel finds under each key.                                   *)
Resolved(m, t) == IF t[1] = "/" THEN t ELSE Below(m.base) \o <<"/">> \o t
Dirs(m, parts) == [i \in DOMAIN parts |-> Resolved(m, parts[i])]

LEMMA SplitOne ==
  ASSUME NEW Z, {"\\", ":"} \subseteq Z, NEW x \in Seq(Z), x # <<>>
  PROVE  Split(Esc(x)) = <<x>>
<1> DEFINE tt == <<x>>
<1>1. tt \in Seq(Seq(Z) \ {<<>>}) /\ DOMAIN tt = {1} /\ tt[1] = x
  OBVIOUS
<1>2. Split(Join([i \in DOMAIN tt |-> Esc(tt[i])], ":")) = tt
  <2> HIDE DEF tt
  <2> QED
    BY <1>1, SplitsAsJoined
<1>3. [i \in DOMAIN tt |-> Esc(tt[i])] = <<Esc(x)>>
  <2> HIDE DEF tt
  <2>1. [i \in DOMAIN tt |-> Esc(tt[i])] = [i \in {1} |-> Esc(x)]
    BY <1>1
  <2> DEFINE e == Esc(x)
  <2>2. [i \in {1} |-> e] = <<e>>
    <3> HIDE DEF e
    <3> QED
      OBVIOUS
  <2> QED
    BY <2>1, <2>2
<1>4. Join(<<Esc(x)>>, ":") = Esc(x)
  <2> DEFINE e == Esc(x)
             colon == ":"
             none == <<>>
  <2>1. "\\" \in Z /\ colon \in Z
    OBVIOUS
  <2>2. e \in Seq(Z)
    BY <2>1, EscIn
  <2> DEFINE one == Append(none, e)
  <2>3. none \in Seq(Seq(Z)) /\ one = <<e>>
    BY EmptySeq
  <2>4. Join(one, colon) = IF none = <<>> THEN e ELSE Join(none, colon) \o (<<colon>> \o e)
    <3> HIDE DEF e, colon, none
    <3> QED
      BY <2>1, <2>2, <2>3, JoinAppend
  <2> HIDE DEF e, one
  <2>5. Join(one, colon) = e
    BY <2>4
  <2> QED
    BY <2>3, <2>5 DEF e
<1> QED
  BY <1>2, <1>3, <1>4

LEMMA DirectoriesAre ==
  ASSUME NEW m, NEW K, Received(m.data) = m.data, ToSet(Pieces(m.data, Comma)) = K, NEW key
  PROVE  Directories(m, key) = {Dirs(m, Split(Tail(f))) : f \in {g \in K : g[1] = key}}
BY DEF Directories, Dirs, Resolved, Comma

LEMMA EntryReads ==
  ASSUME NEW Z, Alphabet(Z), NEW key \in Z, NEW F, NEW p, F[p] \in Seq(Z), F[p] # <<>>, NEW m
  PROVE  OneField(key, F, p)[1] = key /\ Dirs(m, Split(Tail(OneField(key, F, p)))) = <<Resolved(m, F[p])>>
<1> DEFINE x == F[p]
<1>1. x \in Seq(Z) /\ x # <<>>
  OBVIOUS
<1>2. {"\\", ":"} \subseteq Z
  BY DEF Alphabet
<1>3. OneField(key, F, p) = <<key>> \o Esc(x)
  BY DEF OneField
<1>4. OneField(key, F, p)[1] = key /\ Tail(OneField(key, F, p)) = Esc(x)
  <2> HIDE DEF x
  <2> QED
    BY <1>1, <1>3, EntryIn
<1>5. Split(Esc(x)) = <<x>>
  <2> HIDE DEF x
  <2> QED
    BY <1>1, <1>2, SplitOne
<1>6. Dirs(m, <<x>>) = <<Resolved(m, x)>>
  BY DEF Dirs
<1> QED
  BY <1>4, <1>5, <1>6

LEMMA LowerReads ==
  ASSUME NEW Z, Alphabet(Z), NEW P, NEW F, \A p \in P : F[p] \in Seq(Z) \ {<<>>}, NEW l, Sound(P, l), NEW m
  PROVE  Dirs(m, Split(Tail(LowerField(F, l)))) = [i \in DOMAIN l.lower |-> Resolved(m, F[l.lower[i]])]
<1> DEFINE tt == Mapped(F, l.lower)
           NE == Seq(Z) \ {<<>>}
<1>1. \A p \in P : F[p] \in Seq(Z)
  OBVIOUS
<1>2. Tail(LowerField(F, l)) = Join(EscAll(tt), ":")
  BY <1>1, LowerFieldIs
<1>3. tt \in Seq(NE)
  <2> HIDE DEF NE
  <2> QED
    BY MappedIn DEF Sound, NE
<1>4. {"\\", ":"} \subseteq Z
  BY DEF Alphabet
<1>5. Split(Join(EscAll(tt), ":")) = tt
  <2>1. Split(Join([i \in DOMAIN tt |-> Esc(tt[i])], ":")) = tt
    <3> HIDE DEF tt
    <3> QED
      BY <1>3, <1>4, SplitsAsJoined
  <2> QED
    BY <2>1 DEF EscAll
<1>6. DOMAIN tt = DOMAIN l.lower /\ \A i \in DOMAIN l.lower : tt[i] = F[l.lower[i]]
  BY DEF Mapped
<1> HIDE DEF tt
<1>7. Dirs(m, tt) = [i \in DOMAIN l.lower |-> Resolved(m, F[l.lower[i]])]
  BY <1>6 DEF Dirs
<1> QED
  BY <1>2, <1>5, <1>7

Finds(m, F, l) ==
  /\ Directories(m, LowerKey) = {[i \in DOMAIN l.lower |-> Resolved(m, F[l.lower[i]])]}
  /\ Directories(m, UpperKey) = {<<Resolved(m, F[p])>> : p \in l.upper}
  /\ Directories(m, WorkKey) = {<<Resolved(m, F[p])>> : p \in l.work}

(* The kernel reads back the texts that were written.                      *)
LEMMA ReadsAsWritten ==
  ASSUME NEW Z, Alphabet(Z), NEW P, NEW F, \A p \in P : F[p] \in Seq(Z) \ {<<>>}, NEW l, Sound(P, l),
         NEW m, m.data = Data(F, l),
         Len(m.data) <= MaxOption, Len(m.data) # MaxOption
  PROVE  Finds(m, F, l)
<1> DEFINE t0 == LowerField(F, l)
           U == Entries(UpperKey, F, l.upper)
           W == Entries(WorkKey, F, l.work)
           K == {t0} \cup U \cup W
<1>1. \A p \in P : F[p] \in Seq(Z)
  OBVIOUS
<1>2. ToSet(Pieces(m.data, Comma)) = K /\ Received(m.data) = m.data
  <2>1. Fields(Z, m.data, K)
    BY <1>1, DataFields
  <2> HIDE DEF K
  <2>2. ToSet(Pieces(m.data, Comma)) = K
    BY <2>1, FieldsPieces
  <2>3. Len(m.data) \in Nat
    <3>1. m.data \in Seq(Z \cup {Comma})
      BY <2>1 DEF Fields
    <3> QED
      BY <3>1, LenProperties
  <2>4. Received(m.data) = m.data
    BY <2>3, MaxOptionAssumption DEF Received
  <2> QED
    BY <2>2, <2>4
<1>3. t0[1] = LowerKey
  BY <1>1, LowerFieldIs
<1>4. UpperKey \in Z /\ WorkKey \in Z /\ LowerKey # UpperKey /\ LowerKey # WorkKey /\ UpperKey # WorkKey
  BY DEF Alphabet, LowerKey, UpperKey, WorkKey
<1>5. (\A p \in l.upper : F[p] \in Seq(Z) \ {<<>>}) /\ \A p \in l.work : F[p] \in Seq(Z) \ {<<>>}
  BY DEF Sound
<1>6. /\ \A f \in U : f[1] = UpperKey
      /\ {Dirs(m, Split(Tail(f))) : f \in U} = {<<Resolved(m, F[p])>> : p \in l.upper}
  <2> DEFINE Q == l.upper
  <2>1. \A p \in Q : OneField(UpperKey, F, p)[1] = UpperKey /\ Dirs(m, Split(Tail(OneField(UpperKey, F, p)))) = <<Resolved(m, F[p])>>
    BY <1>4, <1>5, EntryReads
  <2> HIDE DEF Q
  <2> QED
    BY <2>1 DEF Q, Entries
<1>7. /\ \A f \in W : f[1] = WorkKey
      /\ {Dirs(m, Split(Tail(f))) : f \in W} = {<<Resolved(m, F[p])>> : p \in l.work}
  <2> DEFINE Q == l.work
  <2>1. \A p \in Q : OneField(WorkKey, F, p)[1] = WorkKey /\ Dirs(m, Split(Tail(OneField(WorkKey, F, p)))) = <<Resolved(m, F[p])>>
    BY <1>4, <1>5, EntryReads
  <2> HIDE DEF Q
  <2> QED
    BY <2>1 DEF Q, Entries
<1>8. Dirs(m, Split(Tail(t0))) = [i \in DOMAIN l.lower |-> Resolved(m, F[l.lower[i]])]
  BY LowerReads
<1> DEFINE D(f) == Dirs(m, Split(Tail(f)))
<1>9. \A key : Directories(m, key) = {D(f) : f \in {g \in K : g[1] = key}}
  <2> HIDE DEF K
  <2> QED
    BY <1>2, DirectoriesAre
<1> HIDE DEF t0, U, W, D
<1>10. {g \in K : g[1] = LowerKey} = {t0} /\ {g \in K : g[1] = UpperKey} = U /\ {g \in K : g[1] = WorkKey} = W
  BY <1>3, <1>4, <1>6, <1>7
<1>11. Directories(m, LowerKey) = {D(t0)} /\ Directories(m, UpperKey) = {D(f) : f \in U} /\ Directories(m, WorkKey) = {D(f) : f \in W}
  BY <1>9, <1>10
<1> QED
  BY <1>6, <1>7, <1>8, <1>11 DEF D, Finds

LEMMA AreSeq == ASSUME NEW S, NEW n \in Nat, NEW t \in [1 .. n -> S] PROVE t \in Seq(S)
OBVIOUS

LEMMA NoComma ==
  ASSUME NEW C, NEW t \in Seq(C), ~Contains(t, ",")
  PROVE  t \in Seq(C \ {Comma})
<1> DEFINE Z == C \ {Comma}
<1>1. Len(t) \in Nat /\ DOMAIN t = 1 .. Len(t) /\ t \in [1 .. Len(t) -> C]
  BY LenProperties
<1>2. \A i \in 1 .. Len(t) : t[i] \in C /\ t[i] # Comma
  BY <1>1 DEF Contains, Comma
<1>3. \A i \in 1 .. Len(t) : t[i] \in Z
  BY <1>2
<1>4. t \in [1 .. Len(t) -> Z]
  <2> HIDE DEF Z
  <2> QED
    BY <1>1, <1>3
<1> QED
  BY <1>1, <1>4, AreSeq

LEMMA SoundIn ==
  ASSUME NEW P, NEW R, NEW l, Sound(P, l), AllPaths(l) \subseteq R
  PROVE  Sound(R, l)
<1> DEFINE low == l.lower
<1>1. low \in Seq(P) /\ Len(low) \in Nat /\ DOMAIN low = 1 .. Len(low) /\ low \in [1 .. Len(low) -> P]
  BY LenProperties DEF Sound
<1>2. \A i \in 1 .. Len(low) : low[i] \in R
  BY <1>1 DEF AllPaths, ToSet
<1>3. low \in [1 .. Len(low) -> R]
  <2> HIDE DEF low
  <2> QED
    BY <1>1, <1>2
<1>4. low \in Seq(R)
  <2> HIDE DEF low
  <2> QED
    BY <1>1, <1>3
<1> QED
  BY <1>4 DEF Sound, AllPaths

LEMMA PathsOf ==
  ASSUME NEW P, NEW l, Sound(P, l)
  PROVE  /\ AllPaths(l) \subseteq P /\ l.upper \subseteq AllPaths(l) /\ l.work \subseteq AllPaths(l)
         /\ \A i \in DOMAIN l.lower : l.lower[i] \in AllPaths(l)
         /\ AllPaths(l) # {}
<1>1. DOMAIN l.lower = 1 .. Len(l.lower) /\ \A i \in 1 .. Len(l.lower) : l.lower[i] \in P
  BY LenProperties, ElementOfSeq DEF Sound
<1>2. 1 \in DOMAIN l.lower
  <2>1. Len(l.lower) \in Nat \ {0}
    BY EmptySeq DEF Sound
  <2> QED
    BY <1>1, <2>1
<1> QED
  BY <1>1, <1>2 DEF AllPaths, Sound, ToSet

LEMMA ReadsBackIs ==
  ASSUME NEW m, NEW l,
         Directories(m, LowerKey) = {[i \in DOMAIN l.lower |-> AbsText(l.lower[i])]},
         Directories(m, UpperKey) = {<<AbsText(p)>> : p \in l.upper},
         Directories(m, WorkKey) = {<<AbsText(p)>> : p \in l.work}
  PROVE  ReadsBack(m, l)
<1> DEFINE Texts(s) == [i \in DOMAIN s |-> Text(s[i], TRUE)]
<1>1. Texts(l.lower) = [i \in DOMAIN l.lower |-> AbsText(l.lower[i])]
  BY DEF AbsText
<1>2. \A p : Texts(<<p>>) = <<AbsText(p)>>
  <2>1. ASSUME NEW p PROVE Texts(<<p>>) = <<AbsText(p)>>
    <3> DEFINE e == AbsText(p)
    <3>1. Texts(<<p>>) = [i \in {1} |-> e]
      <4>1. DOMAIN <<p>> = {1} /\ <<p>>[1] = p
        OBVIOUS
      <4> QED
        BY <4>1 DEF AbsText
    <3> HIDE DEF e, Texts
    <3>2. [i \in {1} |-> e] = <<e>>
      OBVIOUS
    <3> QED
      BY <3>1, <3>2 DEF e
  <2> QED
    BY <2>1
<1>3. ReadsBack(m, l) <=> /\ Directories(m, LowerKey) = {Texts(l.lower)}
                          /\ Directories(m, UpperKey) = {Texts(<<p>>) : p \in l.upper}
                          /\ Directories(m, WorkKey) = {Texts(<<p>>) : p \in l.work}
  BY DEF ReadsBack, LowerKey, UpperKey, WorkKey
<1> HIDE DEF Texts
<1>4. ASSUME NEW Q PROVE {Texts(<<p>>) : p \in Q} = {<<AbsText(p)>> : p \in Q}
  <2> DEFINE T(p) == Texts(<<p>>)
             A(p) == <<AbsText(p)>>
  <2>1. \A p \in Q : T(p) = A(p)
    BY <1>2
  <2> HIDE DEF T, A
  <2>2. {T(p) : p \in Q} = {A(p) : p \in Q}
    BY <2>1
  <2> QED
    BY <2>2 DEF T, A
<1> QED
  BY <1>1, <1>3, <1>4

(* A path that has no comma is read back whether it is written from the    *)
(* root or from a directory above it.                                      *)
LEMMA AbsoluteReads ==
  ASSUME NEW C, Comma \in C, Alphabet(C \ {Comma}), NEW l, Sound(Seq(Name(C)), l),
         NEW m, m.data \in Options(l, TRUE), Len(m.data) <= MaxOption, Len(m.data) # MaxOption
  PROVE  ReadsBack(m, l)
<1> DEFINE Z == C \ {Comma}
           P == Seq(Name(C))
           F == [p \in P |-> AbsText(p)]
           R == {p \in P : ~Contains(F[p], ",")}
<1>0. Alphabet(Z) /\ Sound(P, l)
  OBVIOUS
<1>1. "/" \in C
  BY <1>0 DEF Alphabet
<1>2. \A p \in P : F[p] = AbsText(p) /\ F[p] = Text(p, TRUE) /\ F[p] \in Seq(C) /\ F[p] # <<>> /\ F[p][1] = "/"
  <2>1. \A p \in P : AbsText(p) \in Seq(C) /\ AbsText(p) # <<>> /\ AbsText(p)[1] = "/"
    BY <1>1, AbsTextIs
  <2> HIDE DEF P
  <2>2. \A p \in P : F[p] = AbsText(p)
    OBVIOUS
  <2> HIDE DEF F
  <2> QED
    BY <2>1, <2>2 DEF AbsText
<1>3. Options(l, TRUE) = IF \E p \in AllPaths(l) : Contains(F[p], ",") THEN {} ELSE {Data(F, l)}
  <2>1. \A p \in P : F[p] = Text(p, TRUE)
    BY <1>2
  <2> HIDE DEF F, P
  <2> QED
    BY <1>0, <2>1, OptionsAre, Zenon
<1> HIDE DEF F
<1>4. m.data = Data(F, l) /\ \A p \in AllPaths(l) : ~Contains(F[p], ",")
  BY <1>3
<1>5. Sound(R, l)
  <2>1. AllPaths(l) \subseteq P
    <3> HIDE DEF P
    <3> QED
      BY <1>0, PathsOf
  <2>2. AllPaths(l) \subseteq R
    BY <1>4, <2>1
  <2> HIDE DEF R, P
  <2> QED
    BY <1>0, <2>2, SoundIn
<1>6. \A p \in R : F[p] \in Seq(Z) \ {<<>>} /\ F[p] = AbsText(p) /\ F[p][1] = "/"
  BY <1>2, NoComma
<1> HIDE DEF R, P
<1>7. Finds(m, F, l)
  <2>1. \A p \in R : F[p] \in Seq(Z) \ {<<>>}
    BY <1>6
  <2> HIDE DEF Z
  <2> QED
    BY <1>0, <1>4, <1>5, <2>1, ReadsAsWritten
<1>8. \A p \in R : Resolved(m, F[p]) = AbsText(p)
  BY <1>6 DEF Resolved
<1>9. l.upper \subseteq R /\ l.work \subseteq R /\ \A i \in DOMAIN l.lower : l.lower[i] \in R
  BY <1>5, PathsOf
<1>10. /\ Directories(m, LowerKey) = {[i \in DOMAIN l.lower |-> AbsText(l.lower[i])]}
       /\ Directories(m, UpperKey) = {<<AbsText(p)>> : p \in l.upper}
       /\ Directories(m, WorkKey) = {<<AbsText(p)>> : p \in l.work}
  BY <1>7, <1>8, <1>9 DEF Finds
<1> QED
  BY <1>10, ReadsBackIs

(* The directory that all layers are below.                                *)
LEMMA PrefixesIn ==
  ASSUME NEW N, NEW s \in Seq(N)
  PROVE  Prefixes(s) \subseteq Seq(N) /\ <<>> \in Prefixes(s)
<1>1. Len(s) \in Nat /\ \A i \in 1 .. Len(s) : s[i] \in N
  BY LenProperties, ElementOfSeq
<1>2. ASSUME NEW n \in 0 .. Len(s) PROVE SubSeq(s, 1, n) \in Seq(N)
  <2>1. 1 \in Int /\ n \in Int /\ \A i \in 1 .. n : s[i] \in N
    BY <1>1
  <2> QED
    BY <2>1, SubSeqProperties
<1>3. SubSeq(s, 1, 0) = <<>> /\ 0 \in 0 .. Len(s)
  BY <1>1, SubSeqEmpty
<1> QED
  BY <1>2, <1>3 DEF Prefixes

LEMMA LongestIs ==
  ASSUME NEW N, NEW T, T \subseteq Seq(N), T # {}
  PROVE  LongestCommonPrefix(T) \in Seq(N) /\ \A t \in T : IsPrefix(LongestCommonPrefix(T), t)
<1> DEFINE CP == CommonPrefixes(T)
<1>1. \A x \in CP : x \in Seq(N) /\ \A t \in T : IsPrefix(x, t)
  BY PrefixesIn DEF CommonPrefixes
<1>2. PICK t \in T : TRUE
  OBVIOUS
<1>3. <<>> \in CP
  <2>1. <<>> \in Prefixes(t)
    BY PrefixesIn
  <2>2. \A u \in T : IsPrefix(<<>>, u)
    <3>1. ASSUME NEW u \in T PROVE IsPrefix(<<>>, u)
      <4>1. Len(u) \in Nat /\ Len(<<>>) = 0
        BY LenProperties, EmptySeq
      <4>2. SubSeq(<<>>, 1, 0) = <<>> /\ SubSeq(u, 1, 0) = <<>>
        BY SubSeqEmpty
      <4> QED
        BY <4>1, <4>2 DEF IsPrefix
    <3> QED
      BY <3>1
  <2> QED
    BY <2>1, <2>2 DEF CommonPrefixes
<1>4. \A x \in CP : Len(x) \in Nat /\ Len(x) <= Len(t)
  <2> HIDE DEF CP
  <2> QED
    BY <1>1, <1>2, LenProperties DEF IsPrefix
<1>5. Len(t) \in Nat
  BY LenProperties
<1> DEFINE G == {Len(t) - Len(x) : x \in CP}
<1> HIDE DEF CP
<1>6. G \in SUBSET Nat /\ G # {}
  BY <1>3, <1>4, <1>5
<1>7. PICK g \in G : \A h \in G : g <= h
  <2> HIDE DEF G
  <2> QED
    BY <1>6, Least
<1>8. PICK x \in CP : g = Len(t) - Len(x)
  OBVIOUS
<1>9. \A y \in CP : Len(y) <= Len(x)
  <2>1. ASSUME NEW y \in CP PROVE Len(y) <= Len(x)
    <3>1. g <= Len(t) - Len(y)
      BY <1>7
    <3> QED
      BY <1>4, <1>5, <1>8, <3>1
  <2> QED
    BY <2>1
<1>10. LongestCommonPrefix(T) \in CP
  BY <1>9 DEF LongestCommonPrefix, CP
<1> QED
  BY <1>1, <1>10

LEMMA FrontIs ==
  ASSUME NEW N, NEW p \in Seq(N), p # <<>>
  PROVE  /\ Front(p) \in Seq(N) /\ Len(Front(p)) = Len(p) - 1
         /\ \A i \in 1 .. Len(p) - 1 : Front(p)[i] = p[i]
<1> DEFINE n == Len(p)
<1>0. n \in Nat \ {0} /\ \A i \in 1 .. n : p[i] \in N
  BY EmptySeq, LenProperties, ElementOfSeq
<1>1. 1 \in Int /\ n - 1 \in Int /\ \A i \in 1 .. n - 1 : p[i] \in N
  BY <1>0
<1>2. /\ SubSeq(p, 1, n - 1) \in Seq(N) /\ Len(SubSeq(p, 1, n - 1)) = n - 1
      /\ \A i \in 1 .. n - 1 : SubSeq(p, 1, n - 1)[i] = p[i]
  <2> DEFINE j == n - 1
  <2>1. /\ SubSeq(p, 1, j) \in Seq(N) /\ Len(SubSeq(p, 1, j)) = (IF 1 <= j THEN j - 1 + 1 ELSE 0)
        /\ \A i \in 1 .. j - 1 + 1 : SubSeq(p, 1, j)[i] = p[1 + i - 1]
    <3> HIDE DEF j
    <3> QED
      BY <1>1, SubSeqProperties DEF j
  <2> DEFINE s == SubSeq(p, 1, j)
  <2>2. j \in Nat
    BY <1>0
  <2> HIDE DEF s, j
  <2>3. s \in Seq(N) /\ Len(s) = j /\ \A i \in 1 .. j : s[i] = p[i]
    <3>1. \A i \in 1 .. j : i \in 1 .. j - 1 + 1 /\ 1 + i - 1 = i
      BY <2>2
    <3>2. s \in Seq(N) /\ Len(s) = (IF 1 <= j THEN j - 1 + 1 ELSE 0) /\ \A i \in 1 .. j - 1 + 1 : s[i] = p[1 + i - 1]
      BY <2>1 DEF s
    <3>3. \A i \in 1 .. j : s[i] = p[i]
      BY <3>1, <3>2
    <3> QED
      BY <2>2, <3>2, <3>3
  <2> QED
    BY <2>3 DEF s, j
<1> QED
  BY <1>2 DEF Front

(* Every path is strictly below it.                                        *)
Strip(base, p) == SubSeq(p, Len(base) + 1, Len(p))

LEMMA Stripped ==
  ASSUME NEW N, NEW p \in Seq(N), p # <<>>, NEW b \in Seq(N), IsPrefix(b, Front(p))
  PROVE  Strip(b, p) \in Seq(N) /\ Strip(b, p) # <<>> /\ b \o Strip(b, p) = p
<1> DEFINE f == Front(p)
           k == Len(b)
           n == Len(p)
<1>1. n \in Nat \ {0} /\ k \in Nat /\ \A i \in 1 .. n : p[i] \in N
  BY EmptySeq, LenProperties, ElementOfSeq
<1>2. f \in Seq(N) /\ Len(f) = n - 1 /\ \A i \in 1 .. n - 1 : f[i] = p[i]
  BY FrontIs
<1>3. k <= n - 1 /\ SubSeq(b, 1, k) = SubSeq(f, 1, k)
  BY <1>2 DEF IsPrefix
<1>4. SubSeq(b, 1, k) = b
  BY SubSeqFull
<1>5. SubSeq(f, 1, k) = SubSeq(p, 1, k)
  <2>1. k \in 0 .. Len(f) /\ k \in 0 .. Len(p) /\ 1 \in Int /\ k \in Int
    BY <1>1, <1>2, <1>3
  <2>2. (\A i \in 1 .. k : f[i] \in N) /\ (\A i \in 1 .. k : p[i] \in N) /\ \A i \in 1 .. k : f[i] = p[i]
    BY <1>1, <1>2, <1>3
  <2> DEFINE x == SubSeq(f, 1, k)
             y == SubSeq(p, 1, k)
  <2>3. x \in Seq(N) /\ Len(x) = (IF 1 <= k THEN k - 1 + 1 ELSE 0) /\ \A i \in 1 .. k - 1 + 1 : x[i] = f[1 + i - 1]
    <3> HIDE DEF f, k
    <3> QED
      BY <2>1, <2>2, SubSeqProperties
  <2>4. y \in Seq(N) /\ Len(y) = (IF 1 <= k THEN k - 1 + 1 ELSE 0) /\ \A i \in 1 .. k - 1 + 1 : y[i] = p[1 + i - 1]
    <3> HIDE DEF f, k
    <3> QED
      BY <2>1, <2>2, SubSeqProperties
  <2> HIDE DEF x, y, f
  <2>5. Len(x) = k /\ Len(y) = k /\ \A i \in 1 .. k : x[i] = f[i] /\ y[i] = p[i]
    BY <1>1, <2>3, <2>4
  <2>6. Len(x) = Len(y) /\ \A i \in 1 .. Len(x) : x[i] = y[i]
    BY <2>2, <2>5
  <2>7. x = y
    BY <2>3, <2>4, <2>6, SeqEqual
  <2> QED
    BY <2>7 DEF x, y
<1>6. SubSeq(p, 1, k) \o SubSeq(p, k + 1, n) = p
  <2>1. 1 \in 1 .. Len(p) + 1 /\ k \in 1 - 1 .. Len(p) /\ n \in k .. Len(p)
    BY <1>1, <1>3
  <2>2. SubSeq(p, 1, k) \o SubSeq(p, k + 1, n) = SubSeq(p, 1, n)
    <3> HIDE DEF k, n
    <3> QED
      BY <2>1, ConcatAdjacentSubSeq
  <2>3. SubSeq(p, 1, n) = p
    BY SubSeqFull
  <2> QED
    BY <2>2, <2>3
<1>7. SubSeq(p, k + 1, n) \in Seq(N) /\ SubSeq(p, k + 1, n) # <<>>
  <2> DEFINE j == k + 1
             x == SubSeq(p, j, n)
  <2>1. j \in Int /\ n \in Int /\ j <= n /\ \A i \in j .. n : p[i] \in N
    BY <1>1, <1>3
  <2>2. x \in Seq(N) /\ Len(x) = n - j + 1
    <3> HIDE DEF j, n
    <3> QED
      BY <2>1, SubSeqProperties
  <2>3. Len(x) # 0
    <3> HIDE DEF x
    <3> QED
      BY <1>1, <1>3, <2>2
  <2> HIDE DEF x
  <2>4. x # <<>>
    BY <2>3, EmptySeq
  <2> QED
    BY <2>2, <2>4 DEF x
<1> QED
  BY <1>3, <1>4, <1>5, <1>6, <1>7 DEF Strip

LEMMA StrippedAll ==
  ASSUME NEW N, NEW l, Sound(Seq(N), l), NEW base \in Seq(N), NEW p \in AllPaths(l), p # <<>>, IsPrefix(base, Front(p))
  PROVE  Strip(base, p) \in Seq(N) /\ Strip(base, p) # <<>> /\ base \o Strip(base, p) = p
<1> DEFINE P == Seq(N)
<1>1. Sound(P, l) /\ P = Seq(N)
  OBVIOUS
<1> HIDE DEF P
<1>2. p \in P
  BY <1>1, PathsOf
<1> QED
  BY <1>1, <1>2, Stripped

LEMMA RelativeSound ==
  ASSUME NEW N, NEW l, Sound(Seq(N), l), NEW base \in Seq(N),
         \A p \in AllPaths(l) : p # <<>> /\ IsPrefix(base, Front(p))
  PROVE  Sound(Seq(N) \ {<<>>}, RelativeTo(l, base))
<1> DEFINE P == Seq(N)
           S(p) == Strip(base, p)
           low == l.lower
           rel == [i \in DOMAIN low |-> S(low[i])]
<1>1. AllPaths(l) \subseteq P /\ l.upper \subseteq AllPaths(l) /\ l.work \subseteq AllPaths(l)
      /\ \A i \in DOMAIN low : low[i] \in AllPaths(l)
  <2>1. Sound(P, l)
    OBVIOUS
  <2> HIDE DEF P
  <2> QED
    BY <2>1, PathsOf
<1>2. \A p \in AllPaths(l) : S(p) \in P /\ S(p) # <<>> /\ base \o S(p) = p
  BY <1>1, Stripped
<1>3. RelativeTo(l, base) = [lower |-> rel, upper |-> {S(p) : p \in l.upper}, work |-> {S(p) : p \in l.work}]
  BY DEF RelativeTo, Strip
<1>4. low \in Seq(P) /\ low # <<>> /\ Len(low) \in Nat \ {0} /\ DOMAIN low = 1 .. Len(low)
  <2>1. low \in Seq(P) /\ low # <<>>
    BY DEF Sound
  <2> HIDE DEF P, low
  <2> QED
    BY <2>1, LenProperties, EmptySeq
<1> DEFINE Q == P \ {<<>>}
<1>5. \A p \in AllPaths(l) : S(p) \in Q
  BY <1>2
<1> HIDE DEF P, S, Q
<1>6. rel \in [1 .. Len(low) -> Q]
  BY <1>1, <1>4, <1>5
<1>7. rel \in Seq(Q) /\ rel # <<>>
  <2>1. 1 \in DOMAIN rel
    BY <1>4
  <2>2. Len(low) \in Nat
    BY <1>4
  <2> DEFINE n == Len(low)
  <2>3. n \in Nat /\ rel \in [1 .. n -> Q]
    BY <1>6, <2>2
  <2> HIDE DEF rel, low, n
  <2>4. rel \in Seq(Q)
    BY <2>3, AreSeq
  <2>5. rel # <<>>
    BY <2>1
  <2> QED
    BY <2>4, <2>5
<1> HIDE DEF rel, low
<1>8. /\ {S(p) : p \in l.upper} \subseteq Q /\ \A p, q \in {S(r) : r \in l.upper} : p = q
      /\ {S(p) : p \in l.work} \subseteq Q /\ \A p, q \in {S(r) : r \in l.work} : p = q
  BY <1>1, <1>5 DEF Sound
<1>9. Sound(Q, RelativeTo(l, base))
  BY <1>3, <1>7, <1>8 DEF Sound
<1> QED
  BY <1>9 DEF P, Q

LEMMA RelativeReads ==
  ASSUME NEW C, Comma \in C, Alphabet(C \ {Comma}), NEW l, Sound(Seq(Name(C)), l), NEW base \in Seq(Name(C)),
         \A p \in AllPaths(l) : p # <<>> /\ IsPrefix(base, Front(p)),
         NEW m, m.base = base, m.data \in Options(RelativeTo(l, base), FALSE), Len(m.data) <= MaxOption, Len(m.data) # MaxOption
  PROVE  ReadsBack(m, l)
<1> DEFINE Z == C \ {Comma}
           P == Seq(Name(C)) \ {<<>>}
           F == [p \in P |-> RelText(p)]
           R == {p \in P : ~Contains(F[p], ",")}
           r == RelativeTo(l, base)
           S(p) == Strip(base, p)
<1>0. Alphabet(Z) /\ "/" \in C
  BY DEF Alphabet
<1>1. Sound(P, r) /\ \A p \in AllPaths(l) : S(p) \in Seq(Name(C)) /\ S(p) # <<>> /\ base \o S(p) = p
  <2> DEFINE N == Name(C)
  <2>1. Sound(Seq(N), l) /\ base \in Seq(N)
    OBVIOUS
  <2>2. Sound(Seq(N) \ {<<>>}, RelativeTo(l, base))
    <3> HIDE DEF N
    <3> QED
      BY <2>1, RelativeSound
  <2>3. \A p \in AllPaths(l) : Strip(base, p) \in Seq(N) /\ Strip(base, p) # <<>> /\ base \o Strip(base, p) = p
    <3> HIDE DEF N
    <3> QED
      BY <2>1, StrippedAll
  <2> QED
    BY <2>2, <2>3
<1>2. \A p \in P : /\ F[p] = RelText(p) /\ F[p] = Text(p, FALSE) /\ F[p] \in Seq(C) /\ F[p] # <<>>
                   /\ Below(base) \o <<"/">> \o F[p] = AbsText(base \o p) /\ F[p][1] # "/"
  <2>1. \A p \in P : RelText(p) \in Seq(C) /\ RelText(p) # <<>> /\ RelText(p)[1] # "/"
    BY <1>0, RelTextIs
  <2>2. \A p \in P : Below(base) \o <<"/">> \o RelText(p) = AbsText(base \o p)
    BY <1>0, Rejoined
  <2> HIDE DEF P
  <2>3. \A p \in P : F[p] = RelText(p)
    OBVIOUS
  <2> HIDE DEF F
  <2> QED
    BY <2>1, <2>2, <2>3 DEF RelText
<1> HIDE DEF r
<1>3. Options(r, FALSE) = IF \E p \in AllPaths(r) : Contains(F[p], ",") THEN {} ELSE {Data(F, r)}
  <2>1. \A p \in P : F[p] = Text(p, FALSE)
    BY <1>2
  <2> HIDE DEF F, P
  <2> QED
    BY <1>1, <2>1, OptionsAre, Zenon
<1> HIDE DEF F
<1>4. m.data = Data(F, r) /\ \A p \in AllPaths(r) : ~Contains(F[p], ",")
  BY <1>3 DEF r
<1>5. Sound(R, r)
  <2>1. AllPaths(r) \subseteq P
    <3> HIDE DEF P
    <3> QED
      BY <1>1, PathsOf
  <2>2. AllPaths(r) \subseteq R
    BY <1>4, <2>1
  <2> HIDE DEF R, P
  <2> QED
    BY <1>1, <2>2, SoundIn
<1>6. \A p \in R : F[p] \in Seq(Z) \ {<<>>} /\ F[p][1] # "/" /\ Below(base) \o <<"/">> \o F[p] = AbsText(base \o p)
  BY <1>2, NoComma
<1> HIDE DEF R, P
<1>7. Finds(m, F, r)
  <2>1. \A p \in R : F[p] \in Seq(Z) \ {<<>>}
    BY <1>6
  <2> HIDE DEF Z
  <2> QED
    BY <1>0, <1>4, <1>5, <2>1, ReadsAsWritten
<1>8. \A p \in R : Resolved(m, F[p]) = AbsText(base \o p)
  BY <1>6 DEF Resolved
<1>9. r.upper \subseteq R /\ r.work \subseteq R /\ \A i \in DOMAIN r.lower : r.lower[i] \in R
  BY <1>5, PathsOf
<1>10. /\ Directories(m, LowerKey) = {[i \in DOMAIN r.lower |-> AbsText(base \o r.lower[i])]}
       /\ Directories(m, UpperKey) = {<<AbsText(base \o p)>> : p \in r.upper}
       /\ Directories(m, WorkKey) = {<<AbsText(base \o p)>> : p \in r.work}
  BY <1>7, <1>8, <1>9 DEF Finds
<1>11. /\ r.lower = [i \in DOMAIN l.lower |-> S(l.lower[i])]
       /\ r.upper = {S(p) : p \in l.upper} /\ r.work = {S(p) : p \in l.work}
  BY DEF r, RelativeTo, Strip
<1>12. l.upper \subseteq AllPaths(l) /\ l.work \subseteq AllPaths(l) /\ \A i \in DOMAIN l.lower : l.lower[i] \in AllPaths(l)
  BY PathsOf
<1>13. \A p \in AllPaths(l) : AbsText(base \o S(p)) = AbsText(p)
  BY <1>1
<1> DEFINE A(p) == AbsText(base \o p)
           B(p) == AbsText(p)
<1>14. /\ Directories(m, LowerKey) = {[i \in DOMAIN r.lower |-> A(r.lower[i])]}
       /\ Directories(m, UpperKey) = {<<A(p)>> : p \in r.upper}
       /\ Directories(m, WorkKey) = {<<A(p)>> : p \in r.work}
       /\ \A p \in AllPaths(l) : A(S(p)) = B(p)
  BY <1>10, <1>13
<1> HIDE DEF S, A, B
<1>15. [i \in DOMAIN r.lower |-> A(r.lower[i])] = [i \in DOMAIN l.lower |-> B(l.lower[i])]
  BY <1>11, <1>12, <1>14
<1>16. {<<A(p)>> : p \in r.upper} = {<<B(p)>> : p \in l.upper}
  BY <1>11, <1>12, <1>14
<1>17. {<<A(p)>> : p \in r.work} = {<<B(p)>> : p \in l.work}
  BY <1>11, <1>12, <1>14
<1> QED
  BY <1>14, <1>15, <1>16, <1>17, ReadsBackIs DEF B

(* Whatever mount_at hands over, unless it is exactly a page.              *)
LEMMA MountReads ==
  ASSUME NEW C, Comma \in C, Alphabet(C \ {Comma}), NEW l, Sound(Seq(Name(C)), l),
         NEW m \in MountAt(l), Len(m.data) # MaxOption
  PROVE  ReadsBack(m, l)
<1> DEFINE base == CommonParent(l)
           shorter == IF <<>> \in AllPaths(l) THEN {} ELSE Options(RelativeTo(l, base), FALSE)
           Of(long) == IF Len(long) <= MaxOption THEN {[data |-> long, base |-> <<>>]}
                       ELSE {[data |-> short, base |-> base] : short \in {t \in shorter : Len(t) <= MaxOption}}
<1>1. MountAt(l) = UNION {Of(long) : long \in Options(l, TRUE)}
  BY DEF MountAt
<1>2. PICK long \in Options(l, TRUE) : m \in Of(long)
  <2> HIDE DEF Of
  <2> QED
    BY <1>1
<1>3. CASE Len(long) <= MaxOption
  <2>1. m.data = long
    BY <1>2, <1>3
  <2>2. m.data \in Options(l, TRUE) /\ Len(m.data) <= MaxOption
    BY <1>3, <2>1
  <2> QED
    BY <2>2, AbsoluteReads
<1>4. CASE ~(Len(long) <= MaxOption)
  <2> HIDE DEF base, shorter
  <2>1. PICK short \in shorter : Len(short) <= MaxOption /\ m = [data |-> short, base |-> base]
    BY <1>2, <1>4
  <2>2. m.data = short /\ m.base = base /\ Len(m.data) <= MaxOption /\ m.data \in shorter
    BY <2>1
  <2>3. <<>> \notin AllPaths(l) /\ m.data \in Options(RelativeTo(l, base), FALSE)
    BY <2>2 DEF shorter
  <2> DEFINE N == Name(C)
             T == {Front(p) : p \in AllPaths(l)}
  <2>4. Sound(Seq(N), l)
    OBVIOUS
  <2>5. AllPaths(l) \subseteq Seq(N) /\ AllPaths(l) # {}
    <3> HIDE DEF N
    <3> QED
      BY <2>4, PathsOf
  <2>6. T \subseteq Seq(N) /\ T # {}
    <3> HIDE DEF N
    <3>1. ASSUME NEW p \in Seq(N), p # <<>> PROVE Front(p) \in Seq(N)
      BY <3>1, FrontIs
    <3> QED
      BY <2>3, <2>5, <3>1
  <2>7. base \in Seq(N) /\ \A t \in T : IsPrefix(base, t)
    <3>1. base = LongestCommonPrefix(T)
      BY DEF base, CommonParent
    <3> HIDE DEF T, N
    <3> QED
      BY <2>6, <3>1, LongestIs
  <2>8. \A p \in AllPaths(l) : p # <<>> /\ IsPrefix(base, Front(p))
    BY <2>3, <2>7
  <2> QED
    BY <2>2, <2>3, <2>7, <2>8, RelativeReads
<1> QED
  BY <1>3, <1>4

-----------------------------------------------------------------------------
(* In Setup: what was mounted is what mount_at makes of the layers.        *)
LayersInv == overlay \subseteq UNION {MountAt(l) : l \in Layers}

Characters == STRING \cup {Comma, LowerKey, UpperKey, WorkKey, "\\", ":", "/"}

LEMMA CharactersFit == Comma \in Characters /\ Alphabet(Characters \ {Comma})
BY DEF Characters, Alphabet, Comma, LowerKey, UpperKey, WorkKey

LEMMA NamesWider == Seq(Seq(STRING \ {"/"}) \ {<<>>}) \subseteq Seq(Name(Characters))
<1> DEFINE A == STRING \ {"/"}
           B == Characters \ {"/"}
<1>1. A \subseteq B
  BY DEF Characters
<1> HIDE DEF A, B
<1>2. Seq(A) \subseteq Seq(B)
  BY <1>1, SeqMonotonic
<1> DEFINE M == Seq(A) \ {<<>>}
           N == Seq(B) \ {<<>>}
<1>3. M \subseteq N
  BY <1>2
<1> HIDE DEF M, N
<1>4. Seq(M) \subseteq Seq(N)
  BY <1>3, SeqMonotonic
<1> QED
  BY <1>4 DEF M, N, A, B, Name

(* There are the layers of one overlay at most.                            *)
LEMMA LayersAre ==
  ASSUME config \in Configs, NEW l \in Layers
  PROVE  Sound(Seq(Name(Characters)), l) /\ Layers = {l}
<1> DEFINE C == Characters
<1>1. PICK a \in config.layers : l \in FromAnnotations(a, config.bundle).found
  BY DEF Layers
<1>2. /\ config.bundle \in Seq(Seq(STRING \ {"/"}) \ {<<>>})
      /\ config.layers = {a} /\ a.lower \in Seq(STRING)
      /\ \A S \in {a.upper, a.work} : S \subseteq Seq(STRING) /\ \A t, u \in S : t = u
  BY ConfigsAssumption
<1>3. STRING \subseteq C
  BY DEF Characters
<1>4. Seq(STRING) \subseteq Seq(C)
  <2> HIDE DEF C
  <2> QED
    BY <1>3, SeqMonotonic
<1>5. /\ a.lower \in Seq(C) /\ a.upper \subseteq Seq(C) /\ (\A t, u \in a.upper : t = u)
      /\ a.work \subseteq Seq(C) /\ \A t, u \in a.work : t = u
  <2> HIDE DEF C
  <2> QED
    BY <1>2, <1>4
<1> DEFINE b == config.bundle
<1>6. b \in Seq(Name(C))
  BY <1>2, NamesWider
<1> HIDE DEF C, b
<1>7. \A k \in FromAnnotations(a, b).found : Sound(Seq(Name(C)), k) /\ FromAnnotations(a, b).found = {k}
  BY <1>5, <1>6, FoundSound
<1>8. Sound(Seq(Name(C)), l) /\ FromAnnotations(a, b).found = {l}
  BY <1>1, <1>7 DEF b
<1>9. Layers = FromAnnotations(a, b).found
  BY <1>2 DEF Layers, b
<1> QED
  BY <1>8, <1>9 DEF C

LEMMA LayersNext == ASSUME LayersInv, [Next]_vars PROVE LayersInv'
<1>1. config' = config => Layers' = Layers
  BY DEF Layers
<1>2. CASE config' = config /\ overlay' = overlay
  BY <1>1, <1>2 DEF LayersInv
<1>3. CASE Rootfs
  <2>1. config' = config /\ overlay' \subseteq UNION {MountAt(l) : l \in Layers}
    BY <1>3 DEF Rootfs
  <2> QED
    BY <1>1, <2>1 DEF LayersInv
<1>4. CASE UNCHANGED vars
  BY <1>2, <1>4 DEF vars
<1>5. ASSUME Next, ~Rootfs PROVE config' = config /\ overlay' = overlay
  BY <1>5 DEF Next, Plan, JoinOne, Unshare, MountAll, CreateDevices, PivotRoot, Console, Identity, Mask, Readonly,
     Tmpfs, RootReadonly, Limits, FilterFirst, Bounding, Ids, Capabilities, NoNewPrivs, FilterLast, MountStep,
     MountChange, Loop, CredStep, CredChange
<1> QED
  BY <1>2, <1>3, <1>4, <1>5

(* An overlay shows the layers that were asked for: for every number of    *)
(* layers, whatever characters their names have, and however long the      *)
(* options are, what the kernel reads in them are the directories that     *)
(* were written, be it from the root or from the directory that mount_at   *)
(* falls back to (overlay.rs: escape, options, common_parent, mount_at).   *)
THEOREM LayersAreShown == Spec => []LayersShown
<1>1. Init => LayersInv
  BY DEF Init, LayersInv
<1>2. IInv /\ LayersInv => LayersShown
  <2> SUFFICES ASSUME IInv, LayersInv, NEW l \in Layers, NEW m \in overlay, Len(m.data) # MaxOption
               PROVE  ReadsBack(m, l)
    BY DEF LayersShown
  <2>1. config \in Configs
    BY DEF IInv, NsInv
  <2>2. Sound(Seq(Name(Characters)), l) /\ Layers = {l}
    BY <2>1, LayersAre
  <2>3. m \in MountAt(l)
    BY <2>2 DEF LayersInv
  <2> DEFINE C == Characters
  <2>4. Comma \in C /\ Alphabet(C \ {Comma}) /\ Sound(Seq(Name(C)), l)
    BY <2>2, CharactersFit
  <2> HIDE DEF C
  <2> QED
    BY <2>3, <2>4, MountReads
<1>3. LayersInv /\ [Next]_vars => LayersInv'
  BY LayersNext
<1>4. Spec => []IInv
  BY Inductive
<1> QED
  BY <1>1, <1>2, <1>3, <1>4, PTL DEF Spec

=============================================================================
