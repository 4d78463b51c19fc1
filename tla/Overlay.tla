------------------------------ MODULE Overlay ------------------------------
(***************************************************************************)
(* Overlay root file systems (src/rootfs/overlay.rs): the layers named by  *)
(* the annotations, the checks of prepare, and the option string of        *)
(* mount_at, with what the kernel reads in it.                             *)
(*                                                                         *)
(* A path is a sequence of names, a name a sequence of characters, because *)
(* the question is whether the kernel reads back what was written.  Three  *)
(* characters matter: ":" and "," separate, "\\" escapes.  Each of "L=",   *)
(* "U=" and "W=" (lowerdir=, upperdir=, workdir=) is one character here.   *)
(* There are no symbolic links.                                            *)
(*                                                                         *)
(* Definitions commented "Slip" are mistakes the code could have made.     *)
(***************************************************************************)
EXTENDS Integers, FiniteSets, SequencesExt

CONSTANT MaxOption   (* MAX_OPTION_BYTES, a page                           *)

ASSUME MaxOptionAssumption == MaxOption \in Nat \ {0}

-----------------------------------------------------------------------------
(* Text.                                                                   *)

(* Every name after a slash.                                               *)
Below(path) == FlattenSeq([i \in DOMAIN path |-> <<"/">> \o path[i]])

Text(path, absolute) ==
  IF absolute THEN IF path = <<>> THEN <<"/">> ELSE Below(path) ELSE Tail(Below(path))

Join(texts, separator) ==
  FlattenSeq([i \in DOMAIN texts |-> IF i = 1 THEN texts[i] ELSE <<separator>> \o texts[i]])

(* One more character of a text that is cut at a separator; after a        *)
(* character of escapes the next one is taken as it is.  Empty parts are   *)
(* dropped.                                                                *)
Finished(state) == IF state.part = <<>> THEN state.parts ELSE Append(state.parts, state.part)

Read(state, ch, separator, escapes) ==
  CASE ~state.escaped /\ ch \in escapes -> [state EXCEPT !.escaped = TRUE]
    [] ~state.escaped /\ ch \notin escapes /\ ch = separator ->
         [state EXCEPT !.parts = Finished(state), !.part = <<>>]
    [] OTHER -> [state EXCEPT !.part = Append(@, ch), !.escaped = FALSE]

SplitAt(text, separator, escapes) ==
  LET after[n \in 0 .. Len(text)] ==
        IF n = 0 THEN [parts |-> <<>>, part |-> <<>>, escaped |-> FALSE]
        ELSE Read(after[n - 1], text[n], separator, escapes)
  IN  Finished(after[Len(text)])

Pieces(text, separator) == SplitAt(text, separator, {})

(* split_lowerdir.  The kernel splits the same way.                        *)
Split(text) == SplitAt(text, ":", {"\\"})

(* Slip: only the separator of the layers is escaped.                      *)
EscapeColons(text) ==
  IF Contains(text, ",") THEN {}
  ELSE {FlattenSeq([i \in DOMAIN text |-> IF text[i] = ":" THEN <<"\\", ":">> ELSE <<text[i]>>])}

(* escape, which refuses a comma.                                          *)
Escape(text) ==
  IF Contains(text, ",") THEN {}
  ELSE {FlattenSeq([i \in DOMAIN text |->
          IF text[i] \in {":", "\\"} THEN <<"\\", text[i]>> ELSE <<text[i]>>])}

-----------------------------------------------------------------------------
(* Layers: lower (a sequence of paths), upper and work (sets of at most    *)
(* one).                                                                   *)

AllPaths(l) == ToSet(l.lower) \cup l.upper \cup l.work

(* absolute: a relative layer is below the bundle.                         *)
Absolute(bundle, text) ==
  (IF IsPrefix(<<"/">>, text) THEN <<>> ELSE bundle) \o Pieces(text, "/")

(* from_annotations, of the texts of the annotations (upper and work: sets *)
(* of at most one).  No lower layer at all is no overlay.                  *)
FromAnnotations(a, bundle) ==
  LET parts == Split(a.lower)
      Dirs(S) == {Absolute(bundle, text) : text \in S}
  IN  [refused |-> IF a.lower = <<>> THEN a.upper \cup a.work # {} ELSE parts = <<>>,
       found   |-> IF parts = <<>> THEN {}
                   ELSE {[lower |-> [i \in DOMAIN parts |-> Absolute(bundle, parts[i])],
                          upper |-> Dirs(a.upper), work |-> Dirs(a.work)]}]

Overlaps(p, q) == IsPrefix(p, q) \/ IsPrefix(q, p)

(* prepare, on a host with the directories there; device: the file system  *)
(* of a path.                                                              *)
Prepares(l, there, device) ==
  /\ ToSet(l.lower) \subseteq there
  /\ \/ l.upper = {} /\ l.work = {} /\ Len(l.lower) >= 2
     \/ \E u \in l.upper, w \in l.work :
          /\ device[u] = device[w] /\ ~Overlaps(u, w)
          /\ \A i \in DOMAIN l.lower : ~Overlaps(l.lower[i], u)

(* options: {} if a path cannot be written.                                *)
Options(l, absolute) ==
  LET Written(path) == Escape(Text(path, absolute))
      Field(key, S) == IF S = {} THEN <<>> ELSE <<",", key>> \o CHOOSE t \in UNION {Written(p) : p \in S} : TRUE
  IN  IF \E p \in AllPaths(l) : Written(p) = {} THEN {}
      ELSE LET lower == Join([i \in DOMAIN l.lower |-> CHOOSE t \in Written(l.lower[i]) : TRUE], ":")
           IN  {<<"L=">> \o lower \o Field("U=", l.upper) \o Field("W=", l.work)}

(* The deepest directory that all layers are strictly below.               *)
CommonParent(l) == LongestCommonPrefix({Front(p) : p \in AllPaths(l)})

RelativeTo(l, base) ==
  LET Strip(p) == SubSeq(p, Len(base) + 1, Len(p))
  IN  [lower |-> [i \in DOMAIN l.lower |-> Strip(l.lower[i])],
       upper |-> {Strip(p) : p \in l.upper}, work |-> {Strip(p) : p \in l.work}]

(* mount_at: the option string and the directory it is relative to; {} is  *)
(* an error.  The root has no parent.                                      *)
MountAt(l) ==
  LET base == CommonParent(l)
      shorter == IF <<>> \in AllPaths(l) THEN {} ELSE Options(RelativeTo(l, base), FALSE)
  IN  UNION {IF Len(long) <= MaxOption THEN {[data |-> long, base |-> <<>>]}
             ELSE {[data |-> short, base |-> base] : short \in {t \in shorter : Len(t) <= MaxOption}}
             : long \in Options(l, TRUE)}

-----------------------------------------------------------------------------
(* The kernel: it copies a page and ends it with a zero, splits at commas, *)
(* and resolves what is relative from the directory.                       *)

Received(data) == IF Len(data) < MaxOption THEN data ELSE SubSeq(data, 1, MaxOption - 1)

(* The texts of the directories under a key, from the root.                *)
Directories(m, key) ==
  LET fields == {f \in ToSet(Pieces(Received(m.data), ",")) : f[1] = key}
      Resolved(t) == IF t[1] = "/" THEN t ELSE Below(m.base) \o <<"/">> \o t
  IN  {LET parts == Split(Tail(f)) IN [i \in DOMAIN parts |-> Resolved(parts[i])] : f \in fields}

(* What is mounted are the layers that were asked for.                     *)
ReadsBack(m, l) ==
  LET Texts(s) == [i \in DOMAIN s |-> Text(s[i], TRUE)]
  IN  /\ Directories(m, "L=") = {Texts(l.lower)}
      /\ Directories(m, "U=") = {Texts(<<p>>) : p \in l.upper}
      /\ Directories(m, "W=") = {Texts(<<p>>) : p \in l.work}
=============================================================================
