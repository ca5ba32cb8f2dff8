-------------------------- MODULE ListDeleteProofs --------------------------
(***************************************************************************)
(* Listing and deleting, for every tree of entries, every set of denied    *)
(* directories and any number of failures, retries and removals.           *)
(*                                                                         *)
(* FlatLister.  The open directories are a path (PathInv), and what a      *)
(* lister of the path has still to hand out (Items) is beside that path    *)
(* (ListerInv).  So an entry that is returned lies above nothing that is   *)
(* still to come (OrderInv).  Every entry is returned, still to come, gone *)
(* or excused (CoverInv); entries are moved from one of these to another   *)
(* by each step, for which it takes that what is gone is gone with all     *)
(* that is below it (GoneInv).  A recursive delete finds a directory empty *)
(* since each of its children is still to come or settled (DeleteInv).     *)
(*                                                                         *)
(* BatchDeleter, the deleter of services that delete many paths with one   *)
(* request, is proved about at the end.                                    *)
(***************************************************************************)
EXTENDS FlatLister, BatchDeleter, TLAPS

Frames == [de : Dirs \cup {None}, l : Listers]

\* What a lister will still hand out, itself left out: nothing more is asked
\* for once the service said that it is done.
Items(l) == (l.buf \cup (IF l.done THEN {} ELSE l.rest)) \ {l.dir}

Dir(i) == stack[i].l.dir
Open(i) == stack[i].de # None
IsWanted(e) == prefixed => e \in Matches

\* The type of every variable.
Types ==
  /\ mode \in {"list", "delete"} /\ prefixed \in BOOLEAN /\ sized \in BOOLEAN
  /\ forGood \in BOOLEAN
  /\ pc \in {"loop", "list", "first", "stat", "delete", "user", "none", "deleted", "errored"}
  /\ nextDir \in Dirs \cup {None}
  /\ opening \in Listers \cup {None}
  /\ stack \in Seq(Frames)
  /\ entry \in Entries \cup {None}
  /\ attempt \in 0..MaxTimes
  /\ out \in Seq(Entries)
  /\ lost \subseteq Entries /\ gone \subseteq Entries
  /\ removed \in 0..MaxGone /\ errors \in 0..MaxErrors

\* What next() holds, by the place where it is suspended.
PcInv ==
  /\ pc \in {"list", "first"} <=> opening # None
  /\ pc \in {"stat", "delete"} <=> entry # None
  /\ pc = "stat" => mode = "list" /\ entry \in Files
  /\ pc = "delete" => mode = "delete"
  /\ entry # None => IsWanted(entry)
  /\ nextDir # None => pc = "loop"
  /\ pc = "deleted" => mode = "delete" /\ stack = << >>

\* The directory d is the next level of the path.
Fits(d) ==
  /\ Len(d) = Len(stack)
  /\ stack # << >> => /\ IsPrefix(Dir(Len(stack)), d) /\ Open(Len(stack))
                      /\ d \notin Items(stack[Len(stack)].l)

\* The open directories, the one being opened and the next one are a path;
\* only the innermost one may have been returned already.
PathInv ==
  /\ \A i \in 1..Len(stack) : /\ stack[i].de \in {Dir(i), None}
                              /\ Len(Dir(i)) = i - 1
                              /\ i < Len(stack) => Open(i)
  /\ \A i, j \in 1..Len(stack) : i < j => IsPrefix(Dir(i), Dir(j))
  /\ opening # None => Fits(opening.dir)
  /\ nextDir # None => Fits(nextDir)

\* A lister hands out an entry once, and the directory that is open below
\* it no more; it is done when only entries that are gone are left.
ListerInv ==
  /\ \A i \in 1..Len(stack) :
       /\ stack[i].l.buf \cap stack[i].l.rest = {}
       /\ stack[i].l.done => stack[i].l.rest \subseteq gone
       /\ ~Open(i) => Items(stack[i].l) = {}
  /\ \A i, j \in 1..Len(stack) : j = i + 1 => Dir(j) \notin Items(stack[i].l)
  /\ opening # None => /\ opening.buf \cap opening.rest = {}
                       /\ opening.done => opening.rest \subseteq gone
                       /\ opening.buf \cup opening.rest = Children(opening.dir) \cup {opening.dir}

\* Nothing exists below an entry that is gone.
GoneInv == \A g \in gone : Under(g) \subseteq gone

\* What was returned, or is about to be.
Returned == ToSet(out) \cup ({entry} \ {None})

\* Neither lies in the other.
Apart(a, b) == ~IsPrefix(a, b) /\ ~IsPrefix(b, a)

\* Nothing that is still to come lies in o.
Clear(o) ==
  /\ \A i \in 1..Len(stack) : /\ Open(i) => ~IsPrefix(o, Dir(i))
                              /\ \A c \in Items(stack[i].l) : Apart(o, c)
  /\ opening # None => Apart(o, opening.dir)
  /\ nextDir # None => Apart(o, nextDir)

OrderInv ==
  /\ OnceNestedFirst
  /\ entry # None => \A o \in ToSet(out) : ~IsPrefix(o, entry)
  /\ \A o \in Returned : Clear(o)

\* The walk will come to w: from an open directory, or from the one it turns to.
From(t, w) == w = t.de \/ \E c \in Items(t.l) : IsPrefix(c, w)
Coming(w) ==
  \/ \E i \in 1..Len(stack) : From(stack[i], w)
  \/ opening # None /\ IsPrefix(opening.dir, w)
  \/ nextDir # None /\ IsPrefix(nextDir, w)
  \/ w = entry

Excused(w) == w \in gone \/ w \in lost \/ \E d \in Denied : IsPrefix(d, w)

Covered(w) == w \in ToSet(out) \/ Coming(w) \/ Excused(w)
CoverInv == pc # "errored" => \A w \in Wanted : Covered(w)

\* There is nothing to delete below c, or something that may not be listed.
Settled(c) == Under(c) \subseteq gone \/ Under(c) \cap Denied # {}

\* A child of an open directory that a recursive delete will come to: it is
\* still to be handed out, open, or what the walk turns to.
Turning(c) == (opening # None /\ c = opening.dir) \/ c = nextDir \/ c = entry
Awaited(i, c) ==
  \/ c \in Items(stack[i].l)
  \/ i < Len(stack) /\ c = Dir(i + 1)
  \/ i = Len(stack) /\ Turning(c)

\* An open directory has nothing left but what is awaited; one that is not
\* open any more is being deleted or gone.
Emptied(i) ==
  IsWanted(Dir(i)) =>
    /\ Open(i) => \A c \in Children(Dir(i)) : Settled(c) \/ Awaited(i, c)
    /\ ~Open(i) => entry = Dir(i) \/ Dir(i) \in gone

\* The end of a recursive delete of a directory that may be listed.
RootDeleted ==
  (stack = << >> /\ opening = None /\ nextDir = None /\ ~prefixed /\ Root \notin Denied)
    => Root \in gone

DeleteInv ==
  mode = "delete" /\ pc # "errored" =>
    /\ lost = {} /\ ToSet(out) \subseteq gone
    /\ \A i \in 1..Len(stack) : Emptied(i)
    /\ entry # None => \A c \in Children(entry) : Settled(c)
    /\ RootDeleted

IInv == Types /\ PcInv /\ PathInv /\ ListerInv /\ GoneInv /\ OrderInv /\ CoverInv /\ DeleteInv

---------------------------------------------------------------------------
(* Paths. *)

LEMMA EntryPath == \A e \in Entries : e \in Seq(Names) /\ Len(e) \in Nat
BY TreeAssumption

\* IsPrefix is a partial order.
LEMMA PrefixRefl == \A a \in Entries : IsPrefix(a, a)
BY EntryPath DEF IsPrefix

LEMMA PrefixMeaning ==
  ASSUME NEW a \in Entries, NEW b \in Entries
  PROVE  IsPrefix(a, b) <=> Len(a) <= Len(b) /\ \A k \in 1..Len(a) : a[k] = b[k]
<1>1. /\ a \in Seq(Names) /\ Len(a) \in Nat
      /\ b \in Seq(Names) /\ Len(b) \in Nat
  BY EntryPath
<1>2. SubSeq(a, 1, Len(a)) = a
  BY <1>1
<1>3. ASSUME Len(a) <= Len(b)
      PROVE  /\ SubSeq(b, 1, Len(a)) \in Seq(Names)
             /\ Len(SubSeq(b, 1, Len(a))) = Len(a)
             /\ \A k \in 1..Len(a) : SubSeq(b, 1, Len(a))[k] = b[k]
  BY <1>1, <1>3
<1>4. ASSUME Len(a) <= Len(b), \A k \in 1..Len(a) : a[k] = b[k]
      PROVE  SubSeq(b, 1, Len(a)) = a
  BY <1>1, <1>3, <1>4
<1>5. ASSUME Len(a) <= Len(b), SubSeq(b, 1, Len(a)) = a
      PROVE  \A k \in 1..Len(a) : a[k] = b[k]
  BY <1>3, <1>5
<1> QED
  BY <1>2, <1>4, <1>5 DEF IsPrefix

LEMMA PrefixTrans ==
  \A a, b, c \in Entries : IsPrefix(a, b) /\ IsPrefix(b, c) => IsPrefix(a, c)
<1> SUFFICES ASSUME NEW a \in Entries, NEW b \in Entries, NEW c \in Entries,
                    IsPrefix(a, b), IsPrefix(b, c)
             PROVE  IsPrefix(a, c)
  OBVIOUS
<1>1. Len(a) \in Nat /\ Len(b) \in Nat /\ Len(c) \in Nat
  BY EntryPath
<1>2. Len(a) <= Len(b) /\ \A k \in 1..Len(a) : a[k] = b[k]
  BY PrefixMeaning
<1>3. Len(b) <= Len(c) /\ \A k \in 1..Len(b) : b[k] = c[k]
  BY PrefixMeaning
<1>4. Len(a) <= Len(c) /\ \A k \in 1..Len(a) : a[k] = c[k]
  BY <1>1, <1>2, <1>3
<1> QED
  BY <1>4, PrefixMeaning

\* A path has one prefix of each length.
LEMMA PrefixLength ==
  \A a, b \in Entries :
    IsPrefix(a, b) => Len(a) <= Len(b) /\ (Len(a) = Len(b) => a = b)
<1> SUFFICES ASSUME NEW a \in Entries, NEW b \in Entries, IsPrefix(a, b)
             PROVE  Len(a) <= Len(b) /\ (Len(a) = Len(b) => a = b)
  OBVIOUS
<1>1. /\ a \in Seq(Names) /\ Len(a) \in Nat
      /\ b \in Seq(Names) /\ Len(b) \in Nat
  BY EntryPath
<1>2. Len(a) <= Len(b) /\ \A k \in 1..Len(a) : a[k] = b[k]
  BY PrefixMeaning
<1> QED
  BY <1>1, <1>2

LEMMA PrefixCommon ==
  \A a, b, c \in Entries :
    IsPrefix(a, c) /\ IsPrefix(b, c) /\ Len(a) <= Len(b) => IsPrefix(a, b)
<1> SUFFICES ASSUME NEW a \in Entries, NEW b \in Entries, NEW c \in Entries,
                    IsPrefix(a, c), IsPrefix(b, c), Len(a) <= Len(b)
             PROVE  IsPrefix(a, b)
  OBVIOUS
<1>1. Len(a) \in Nat /\ Len(b) \in Nat /\ Len(c) \in Nat
  BY EntryPath
<1>2. \A k \in 1..Len(a) : a[k] = c[k]
  BY PrefixMeaning
<1>3. \A k \in 1..Len(b) : b[k] = c[k]
  BY PrefixMeaning
<1>4. \A k \in 1..Len(a) : a[k] = b[k]
  BY <1>1, <1>2, <1>3
<1> QED
  BY <1>4, PrefixMeaning

LEMMA RootPath == Root \in Dirs /\ Root \in Entries /\ Len(Root) = 0
BY TreeAssumption DEF Root, Entries

LEMMA RootAbove == \A e \in Entries : IsPrefix(Root, e)
<1> TAKE e \in Entries
<1>1. Len(Root) = 0 /\ Root \in Entries /\ Len(e) \in Nat
  BY RootPath, EntryPath
<1> QED
  BY <1>1, PrefixMeaning

\* The children of a directory are the entries one level below it.
LEMMA ChildPath ==
  ASSUME NEW d \in Entries, NEW c \in Entries
  PROVE  c \in Children(d) <=> IsPrefix(d, c) /\ Len(c) = Len(d) + 1
<1>1. /\ c \in Seq(Names) /\ Len(c) \in Nat
      /\ d \in Seq(Names) /\ Len(d) \in Nat
  BY EntryPath
<1>2. ASSUME c \in Children(d) PROVE IsPrefix(d, c) /\ Len(c) = Len(d) + 1
  <2>1. c # << >> /\ SubSeq(c, 1, Len(c) - 1) = d
    BY <1>2 DEF Children, Parent, Front, Root
  <2>2. Len(c) > 0
    BY <1>1, <2>1
  <2>3. Len(d) = Len(c) - 1
    BY <1>1, <2>1, <2>2
  <2>4. SubSeq(c, 1, Len(d)) = d
    BY <2>1, <2>3
  <2>5. SubSeq(d, 1, Len(d)) = d
    BY <1>1
  <2> QED
    BY <1>1, <2>3, <2>4, <2>5 DEF IsPrefix
<1>3. ASSUME IsPrefix(d, c), Len(c) = Len(d) + 1 PROVE c \in Children(d)
  <2>1. c # << >> /\ Len(d) = Len(c) - 1
    BY <1>1, <1>3
  <2>2. SubSeq(d, 1, Len(d)) = d
    BY <1>1
  <2>3. SubSeq(c, 1, Len(c) - 1) = d
    BY <1>3, <2>1, <2>2 DEF IsPrefix
  <2> QED
    BY <2>1, <2>3 DEF Children, Parent, Front, Root
<1> QED
  BY <1>2, <1>3

\* What lies in a directory lies in one of its children.
LEMMA BelowChild ==
  ASSUME NEW d \in Entries, NEW e \in Entries, IsPrefix(d, e), e # d
  PROVE  d \in Dirs /\ \E c \in Children(d) : IsPrefix(c, e)
<1>1. /\ e \in Seq(Names) /\ Len(e) \in Nat
      /\ d \in Seq(Names) /\ Len(d) \in Nat
  BY EntryPath
<1>2. Len(d) < Len(e)
  BY <1>1, PrefixLength
<1>3. SubSeq(e, 1, Len(d)) = d
  <2>1. SubSeq(d, 1, Len(d)) = d
    BY <1>1
  <2> QED
    BY <2>1 DEF IsPrefix
<1>4. d \in Dirs
  <2>1. Len(d) \in 0..(Len(e) - 1)
    BY <1>1, <1>2
  <2> QED
    BY <1>3, <2>1, TreeAssumption
<1> DEFINE c == SubSeq(e, 1, Len(d) + 1)
<1>5. c \in Seq(Names) /\ Len(c) = Len(d) + 1
  BY <1>1, <1>2
<1>6. \A k \in 1..Len(c) : c[k] = e[k]
  BY <1>1, <1>2
<1>7. c \in Entries
  <2>1. CASE Len(d) + 1 = Len(e)
    <3>1. c = e
      BY <1>1, <2>1
    <3> QED
      BY <3>1
  <2>2. CASE Len(d) + 1 # Len(e)
    <3>1. Len(d) + 1 \in 0..(Len(e) - 1)
      BY <1>1, <1>2, <2>2
    <3> QED
      BY <3>1, TreeAssumption DEF Entries
  <2> QED
    BY <2>1, <2>2
<1> HIDE DEF c
<1>8. IsPrefix(c, e)
  BY <1>1, <1>2, <1>5, <1>6, <1>7, PrefixMeaning
<1>9. IsPrefix(d, c)
  <2>1. Len(d) <= Len(c)
    BY <1>1, <1>5
  <2> QED
    BY <1>7, <1>8, <2>1, PrefixCommon
<1>10. c \in Children(d)
  BY <1>5, <1>7, <1>9, ChildPath
<1> QED
  BY <1>4, <1>8, <1>10

\* Nothing lies in a file.
LEMMA FileLeaf ==
  ASSUME NEW f \in Files, NEW e \in Entries, IsPrefix(f, e)
  PROVE  e = f
<1>1. f \in Entries
  BY DEF Entries
<1> QED
  BY <1>1, BelowChild, TreeAssumption

LEMMA UnderMember == \A d : \A e : e \in Under(d) <=> e \in Entries /\ IsPrefix(d, e)
BY DEF Under

\* The content of a directory: itself and the content of its children.
LEMMA UnderChildren ==
  ASSUME NEW d \in Entries
  PROVE  \A e \in Under(d) : e = d \/ \E c \in Children(d) : e \in Under(c)
BY BelowChild DEF Under

---------------------------------------------------------------------------
(* Listers and the stack of them. *)

LEMMA ListerFacts ==
  ASSUME NEW l \in Listers
  PROVE  /\ l.dir \in Dirs /\ l.dir \in Entries /\ l # None
         /\ l.buf \subseteq Entries /\ l.rest \subseteq Entries /\ l.done \in BOOLEAN
         /\ Items(l) \subseteq Children(l.dir)
         /\ \A c \in Items(l) : /\ c \in Entries /\ IsPrefix(l.dir, c)
                                /\ Len(c) = Len(l.dir) + 1
<1>1. /\ l.dir \in Dirs /\ l.dir \in Entries
      /\ l.buf \subseteq Entries /\ l.rest \subseteq Entries /\ l.done \in BOOLEAN
      /\ l.buf \cup l.rest \subseteq Children(l.dir) \cup {l.dir}
  BY DEF Listers, Entries
<1>2. Items(l) \subseteq Children(l.dir)
  BY <1>1 DEF Items
<1>3. \A c \in Children(l.dir) : c \in Entries
  BY DEF Children
<1> QED
  BY <1>1, <1>2, <1>3, ChildPath, TreeAssumption

LEMMA NewListerFacts ==
  ASSUME NEW d \in Dirs
  PROVE  /\ NewLister(d) \in Listers /\ NewLister(d).dir = d
         /\ NewLister(d).buf = {} /\ NewLister(d).rest = Children(d) \cup {d}
         /\ NewLister(d).done = FALSE
BY DEF NewLister, Listers, Children, Entries

\* A page moves entries from `rest` to `buf`; what it leaves out for good is gone.
LEMMA PageFacts ==
  ASSUME NEW l \in Listers, l.buf \cap l.rest = {}, Asks(l), NEW m \in Pages(l)
  PROVE  /\ m \in Listers /\ m.dir = l.dir
         /\ m.buf \cup m.rest = l.buf \cup l.rest /\ m.buf \cap m.rest = {}
         /\ m.done => m.rest \subseteq gone
         /\ Items(m) \subseteq Items(l)
         /\ \A c \in Items(l) : c \in Items(m) \/ c \in gone
<1>1. PICK p \in SUBSET l.rest, d \in BOOLEAN : m = Page(l, p, d)
  BY DEF Pages
<1>2. (m.done => m.rest \subseteq gone) /\ (m.buf = {} => m.done)
  BY DEF Pages
<1>3. /\ m.dir = l.dir /\ m.buf = p /\ m.rest = l.rest \ p /\ m.done = d
      /\ m \in [dir : Dirs, buf : SUBSET Entries, rest : SUBSET Entries, done : BOOLEAN]
  BY <1>1 DEF Listers, Page
<1>4. l.buf = {} /\ ~l.done
  BY DEF Asks
<1>5. m \in Listers
  BY <1>3, <1>4 DEF Listers
<1> QED
  BY <1>2, <1>3, <1>4, <1>5 DEF Items

\* An entry is taken out of the page.
LEMMA TakenFacts ==
  ASSUME NEW l \in Listers, l.buf \cap l.rest = {}, NEW v \in l.buf,
         NEW m, m = [l EXCEPT !.buf = @ \ {v}]
  PROVE  /\ m \in Listers /\ m.dir = l.dir /\ m.rest = l.rest /\ m.done = l.done
         /\ m.buf = l.buf \ {v} /\ m.buf \cap m.rest = {}
         /\ Items(m) = Items(l) \ {v}
         /\ v # l.dir => v \in Items(l)
<1>1. /\ m.dir = l.dir /\ m.rest = l.rest /\ m.done = l.done /\ m.buf = l.buf \ {v}
      /\ m \in [dir : Dirs, buf : SUBSET Entries, rest : SUBSET Entries, done : BOOLEAN]
  BY DEF Listers
<1>2. m \in Listers
  BY <1>1 DEF Listers
<1> QED
  BY <1>1, <1>2 DEF Items

LEMMA FrameFacts ==
  ASSUME NEW s \in Seq(Frames), NEW i \in 1..Len(s)
  PROVE  /\ s[i] \in Frames /\ s[i].l \in Listers /\ s[i].de \in Dirs \cup {None}
         /\ s[i] = [de |-> s[i].de, l |-> s[i].l]
<1>1. s[i] \in Frames
  OBVIOUS
<1> QED
  BY <1>1 DEF Frames

LEMMA PushFacts ==
  ASSUME NEW s \in Seq(Frames), NEW t \in Frames, NEW r, r = Append(s, t)
  PROVE  /\ r \in Seq(Frames) /\ Len(r) = Len(s) + 1 /\ Len(s) \in Nat
         /\ \A i \in 1..Len(s) : r[i] = s[i]
         /\ r[Len(r)] = t
OBVIOUS

LEMMA SetTopFacts ==
  ASSUME NEW s \in Seq(Frames), s # << >>, NEW t \in Frames,
         NEW r, r = [s EXCEPT ![Len(s)] = t]
  PROVE  /\ r \in Seq(Frames) /\ Len(r) = Len(s) /\ Len(s) \in Nat /\ Len(s) >= 1
         /\ \A i \in 1..Len(s) : i < Len(s) => r[i] = s[i]
         /\ r[Len(r)] = t
OBVIOUS

LEMMA PopFacts ==
  ASSUME NEW s \in Seq(Frames), s # << >>, NEW r, r = Front(s)
  PROVE  /\ r \in Seq(Frames) /\ Len(r) = Len(s) - 1 /\ Len(s) \in Nat /\ Len(s) >= 1
         /\ \A i \in 1..Len(r) : r[i] = s[i]
<1>1. Len(s) \in Nat /\ Len(s) >= 1
  OBVIOUS
<1> DEFINE k == Len(s) - 1
<1>2. k \in Nat /\ k <= Len(s) /\ r = SubSeq(s, 1, k)
  BY <1>1 DEF Front
<1> HIDE DEF k
<1>3. r \in Seq(Frames) /\ Len(r) = k
  BY <1>2
<1>4. \A i \in 1..k : r[i] = s[i]
  BY <1>2
<1> QED
  BY <1>1, <1>3, <1>4 DEF k

---------------------------------------------------------------------------
(* What the steps do. *)

\* PrefixLister drops the entry, or CompleteLister returns it or holds it.
Emitted(v) ==
  \/ /\ ~IsWanted(v) /\ pc' = "loop"
     /\ entry' = None /\ out' = out /\ attempt' = attempt
  \/ /\ IsWanted(v) /\ pc' = "user" /\ mode = "list"
     /\ entry' = None /\ out' = Append(out, v) /\ attempt' = 0
  \/ /\ IsWanted(v) /\ pc' = "stat" /\ mode = "list" /\ v \in Files
     /\ entry' = v /\ out' = out /\ attempt' = attempt
  \/ /\ IsWanted(v) /\ pc' = "delete" /\ mode = "delete"
     /\ entry' = v /\ out' = out /\ attempt' = attempt

LEMMA EmitFacts ==
  ASSUME Types, entry = None, NEW v \in Entries, Emit(v)
  PROVE  Emitted(v)
BY DEF Emit, Emitted, IsWanted, Types

\* The top of the stack.
LEMMA TopFacts ==
  ASSUME Types, stack # << >>
  PROVE  /\ Len(stack) \in Nat /\ Len(stack) >= 1 /\ Len(stack) \in 1..Len(stack)
         /\ Top = stack[Len(stack)] /\ Top \in Frames /\ Top.l \in Listers
         /\ Top = [de |-> Top.de, l |-> Top.l]
         /\ Top.l.dir = Dir(Len(stack))
<1>1. Len(stack) \in Nat /\ Len(stack) >= 1 /\ Len(stack) \in 1..Len(stack)
  BY DEF Types
<1>2. Top = stack[Len(stack)]
  BY DEF Top, Last
<1> QED
  BY <1>1, <1>2, FrameFacts DEF Types, Dir

\* The stack after the top was replaced: the frames below it stay.
TopSet(t) ==
  /\ stack' \in Seq(Frames) /\ Len(stack') = Len(stack)
  /\ \A i \in 1..Len(stack) : i < Len(stack) => stack'[i] = stack[i]
  /\ stack'[Len(stack)] = t

LEMMA TopPageFacts ==
  ASSUME Types, PathInv, ListerInv, TopPage
  PROVE  \E m \in Pages(Top.l) : TopSet([de |-> Top.de, l |-> m]) /\ m \in Listers
<1>1. PICK m \in Pages(Top.l) : SetTop([Top EXCEPT !.l = m])
  BY DEF TopPage
<1>2. stack # << >> /\ Asks(Top.l)
  BY DEF TopPage, AtTop
<1>3. Top.l.buf \cap Top.l.rest = {}
  BY <1>2, TopFacts DEF ListerInv
<1>4. m \in Listers
  BY <1>2, <1>3, TopFacts, PageFacts
<1>5. [Top EXCEPT !.l = m] = [de |-> Top.de, l |-> m]
  BY <1>2, TopFacts DEF Frames
<1>6. [de |-> Top.de, l |-> m] \in Frames
  BY <1>2, <1>4, TopFacts DEF Frames
<1> QED
  BY <1>1, <1>2, <1>4, <1>5, <1>6, SetTopFacts DEF SetTop, TopSet, Types

LEMMA TopEntryFacts ==
  ASSUME Types, PathInv, ListerInv, NEW v, TopEntry(v)
  PROVE  \E m \in Listers : /\ m = [Top.l EXCEPT !.buf = @ \ {v}]
                            /\ TopSet([de |-> Top.de, l |-> m])
<1> DEFINE m == [Top.l EXCEPT !.buf = @ \ {v}]
<1>1. stack # << >> /\ v \in Top.l.buf
  BY DEF TopEntry, AtTop
<1>2. Top.l.buf \cap Top.l.rest = {}
  BY <1>1, TopFacts DEF ListerInv
<1>3. m \in Listers
  BY <1>1, <1>2, TopFacts, TakenFacts
<1>a. \A x : [Top EXCEPT !.l = x] = [de |-> Top.de, l |-> x]
  BY <1>1, TopFacts DEF Frames
<1>4. [Top EXCEPT !.l.buf = @ \ {v}] = [de |-> Top.de, l |-> m]
  BY <1>a
<1>5. [de |-> Top.de, l |-> m] \in Frames
  BY <1>1, <1>3, TopFacts DEF Frames
<1>6. SetTop([de |-> Top.de, l |-> m])
  BY <1>4 DEF TopEntry
<1> HIDE DEF m
<1>7. TopSet([de |-> Top.de, l |-> m])
  BY <1>1, <1>5, <1>6, SetTopFacts DEF SetTop, TopSet, Types
<1> QED
  BY <1>3, <1>7 DEF m

LEMMA TopDoneFacts ==
  ASSUME Types, TopDone
  PROVE  TopSet([de |-> None, l |-> Top.l])
<1>1. stack # << >>
  BY DEF TopDone, AtTop
<1>2. [Top EXCEPT !.de = None] = [de |-> None, l |-> Top.l]
  BY <1>1, TopFacts DEF Frames
<1>3. [de |-> None, l |-> Top.l] \in Frames
  BY <1>1, TopFacts DEF Frames
<1>4. SetTop([de |-> None, l |-> Top.l])
  BY <1>2 DEF TopDone
<1> QED
  BY <1>1, <1>3, <1>4, SetTopFacts DEF SetTop, TopSet, Types

\* The lister of a directory is pushed with its first entry taken out.
LEMMA FirstEntryFacts ==
  ASSUME Types, PathInv, ListerInv, NEW v, FirstEntry(v), opening # None
  PROVE  \E m \in Listers :
           /\ m = [opening EXCEPT !.buf = @ \ {v}] /\ m.dir = opening.dir
           /\ stack' \in Seq(Frames) /\ Len(stack') = Len(stack) + 1
           /\ \A i \in 1..Len(stack) : stack'[i] = stack[i]
           /\ stack'[Len(stack) + 1] = [de |-> opening.dir, l |-> m]
<1> DEFINE m == [opening EXCEPT !.buf = @ \ {v}]
           t == [de |-> opening.dir, l |-> m]
<1>1. opening \in Listers /\ v \in opening.buf /\ opening.buf \cap opening.rest = {}
  BY DEF FirstEntry, Types, ListerInv
<1>2. m \in Listers /\ m.dir = opening.dir
  BY <1>1, TakenFacts
<1>3. t \in Frames
  BY <1>1, <1>2, ListerFacts DEF Frames
<1>4. stack' = Append(stack, t)
  BY DEF FirstEntry
<1> HIDE DEF m, t
<1>5. /\ stack' \in Seq(Frames) /\ Len(stack') = Len(stack) + 1
      /\ \A i \in 1..Len(stack) : stack'[i] = stack[i]
      /\ stack'[Len(stack) + 1] = t
  BY <1>3, <1>4, PushFacts DEF Types
<1> QED
  BY <1>2, <1>5 DEF m, t

\* A call fails: what it held is dropped, and it is repeated on the same
\* lister, repeated as a whole with a new one, or given up.
FailStep ==
  /\ opening' = None /\ entry' = None /\ nextDir = None
  /\ UNCHANGED <<settings, gone, removed>> /\ errors' \in 0..MaxErrors
  /\ attempt' \in 0..MaxTimes
  /\ \/ /\ mode = "list" /\ pc' = "loop"
        /\ UNCHANGED <<nextDir, stack, out>>
        /\ lost \subseteq lost' /\ lost' \subseteq Entries
        /\ opening # None => Under(opening.dir) \subseteq lost'
        /\ entry # None => entry \in lost'
     \/ /\ mode = "delete" /\ pc' = "loop"
        /\ nextDir' = Root /\ stack' = << >> /\ out' = << >> /\ lost' = lost
     \/ pc' = "errored" /\ UNCHANGED <<nextDir, stack, out, lost>>

LEMMA FailFacts ==
  ASSUME Types, NEW kind, NEW dropped \in SUBSET Entries, Fail(kind, dropped),
         opening # None => Under(opening.dir) \subseteq dropped,
         entry # None => entry \in dropped
  PROVE  /\ opening' = None
         /\ attempt' \in 0..MaxTimes
         /\ \/ /\ mode = "list" /\ pc' = "loop"
               /\ UNCHANGED <<nextDir, stack, out>>
               /\ lost \subseteq lost' /\ lost' \subseteq Entries
               /\ opening # None => Under(opening.dir) \subseteq lost'
               /\ entry # None => entry \in lost'
            \/ /\ mode = "delete" /\ pc' = "loop"
               /\ nextDir' = Root /\ stack' = << >> /\ out' = << >> /\ lost' = lost
            \/ pc' = "errored" /\ UNCHANGED <<nextDir, stack, out, lost>>
BY TreeAssumption DEF Fail, Types

LEMMA FailSteps ==
  ASSUME Types, PcInv,
         \/ DeleteNotEmpty
         \/ \E kind \in Kinds : \/ ListFails(kind) \/ FirstFails(kind) \/ TopFails(kind)
                                \/ StatFails(kind) \/ DeleteFails(kind)
  PROVE  FailStep
<1>1. ASSUME ServiceFails PROVE UNCHANGED <<gone, removed>> /\ errors' \in 0..MaxErrors
  BY <1>1, TreeAssumption DEF ServiceFails, Types
<1>2. Under(opening.dir) \in SUBSET Entries
  BY DEF Under
<1>3. ASSUME NEW kind, ListFails(kind) \/ FirstFails(kind) PROVE FailStep
  <2>1. pc \in {"list", "first"} /\ ServiceFails /\ UNCHANGED <<settings, entry>>
    BY <1>3 DEF ListFails, FirstFails
  <2>2. Fail(kind, Under(opening.dir))
    BY <1>3 DEF ListFails, FirstFails
  <2>3. entry = None /\ nextDir = None
    BY <2>1 DEF PcInv
  <2> QED
    BY <1>1, <1>2, <2>1, <2>2, <2>3, FailFacts DEF FailStep
<1>4. ASSUME NEW kind, TopFails(kind) PROVE FailStep
  <2>1. pc = "loop" /\ nextDir = None /\ ServiceFails /\ UNCHANGED <<settings, entry>>
    BY <1>4 DEF TopFails, AtTop
  <2>2. Fail(kind, {})
    BY <1>4 DEF TopFails
  <2>3. entry = None /\ opening = None
    BY <2>1 DEF PcInv
  <2>4. {} \in SUBSET Entries
    OBVIOUS
  <2> QED
    BY <1>1, <2>1, <2>2, <2>3, <2>4, FailFacts DEF FailStep
<1>5. ASSUME NEW kind, StatFails(kind) \/ DeleteFails(kind) \/ (kind = "perm" /\ DeleteNotEmpty)
      PROVE  FailStep
  <2>1. /\ pc \in {"stat", "delete"} /\ entry' = None /\ UNCHANGED settings
        /\ Fail(kind, {entry})
    BY <1>5 DEF StatFails, DeleteFails, DeleteNotEmpty
  <2>2. UNCHANGED <<gone, removed>> /\ errors' \in 0..MaxErrors
    BY <1>1, <1>5 DEF StatFails, DeleteFails, DeleteNotEmpty, service, Types
  <2>3. entry # None /\ opening = None /\ nextDir = None
    BY <2>1 DEF PcInv
  <2>4. {entry} \in SUBSET Entries
    BY <2>3 DEF Types
  <2> QED
    BY <2>1, <2>2, <2>3, <2>4, FailFacts DEF FailStep
<1> QED
  BY <1>3, <1>4, <1>5

---------------------------------------------------------------------------
(* Types, and what next() holds where. *)

LEMMA EmitTypes ==
  ASSUME Types, NEW v \in Entries, Emitted(v), opening' = None, nextDir' = None,
         UNCHANGED <<settings, lost, service>>, stack' \in Seq(Frames)
  PROVE  Types' /\ PcInv'
<1>1. v # None /\ 0 \in 0..MaxTimes
  BY TreeAssumption
<1>2. out' \in Seq(Entries) /\ attempt' \in 0..MaxTimes /\ entry' \in Entries \cup {None}
  <2>1. Append(out, v) \in Seq(Entries)
    BY DEF Types
  <2> QED
    BY <1>1, <2>1 DEF Emitted, Types
<1>3. Types'
  BY <1>2 DEF Emitted, Types, settings, service
<1>4. PcInv'
  BY <1>1 DEF Emitted, PcInv, settings, IsWanted
<1> QED
  BY <1>3, <1>4

LEMMA StepTypes ==
  ASSUME IInv, [Next]_vars
  PROVE  Types' /\ PcInv'
<1> USE DEF IInv
<1>0. ASSUME FailStep PROVE Types' /\ PcInv'
  <2>1. Types'
    <3>1. << >> \in Seq(Frames) /\ << >> \in Seq(Entries)
      OBVIOUS
    <3>2. stack' \in Seq(Frames) /\ out' \in Seq(Entries)
      BY <1>0, <3>1, Zenon DEF FailStep, Types
    <3>3. /\ pc' \in {"loop", "errored"} /\ nextDir' \in Dirs \cup {None}
          /\ lost' \subseteq Entries
      BY <1>0, RootPath DEF FailStep, Types
    <3> QED
      BY <1>0, <3>2, <3>3 DEF FailStep, Types, settings
  <2>2. PcInv'
    BY <1>0 DEF FailStep, PcInv
  <2> QED
    BY <2>1, <2>2
<1>1. ASSUME TakeDir PROVE Types' /\ PcInv'
  <2>1. nextDir \in Dirs /\ pc = "loop"
    BY <1>1 DEF TakeDir, Types
  <2>2. opening' \in Listers /\ opening' # None
    BY <1>1, <2>1, NewListerFacts, ListerFacts DEF TakeDir
  <2> QED
    BY <1>1, <2>1, <2>2 DEF TakeDir, Types, PcInv, settings, service, IsWanted
<1>2. ASSUME ListOk PROVE Types' /\ PcInv'
  BY <1>2 DEF ListOk, Types, PcInv, settings, service, lister, IsWanted
<1>3. ASSUME ListSkips PROVE Types' /\ PcInv'
  BY <1>3 DEF ListSkips, Types, PcInv, settings, service, IsWanted
<1>4. ASSUME FirstPage PROVE Types' /\ PcInv'
  <2>1. opening \in Listers /\ opening.buf \cap opening.rest = {} /\ Asks(opening)
    BY <1>4 DEF FirstPage, PcInv, Types, ListerInv
  <2>2. opening' \in Listers /\ opening' # None
    BY <1>4, <2>1, PageFacts, ListerFacts DEF FirstPage
  <2> QED
    BY <1>4, <2>2 DEF FirstPage, Types, PcInv, settings, service, IsWanted
<1>5. ASSUME FirstNotFound \/ TopNotFound PROVE Types' /\ PcInv'
  BY <1>5
  DEF FirstNotFound, TopNotFound, vars, service, lister, Types, PcInv, settings, IsWanted
<1>6. ASSUME FirstNone PROVE Types' /\ PcInv'
  BY <1>6 DEF FirstNone, Types, PcInv, settings, service, IsWanted
<1>7. ASSUME Ends PROVE Types' /\ PcInv'
  BY <1>7 DEF Ends, Types, PcInv, settings, service, lister, IsWanted
<1>8. ASSUME Pop PROVE Types' /\ PcInv'
  <2>1. stack' \in Seq(Frames)
    BY <1>8, PopFacts DEF Pop, Types
  <2> QED
    BY <1>8, <2>1 DEF Pop, Types, PcInv, settings, service, IsWanted
<1>9. ASSUME TopPage PROVE Types' /\ PcInv'
  <2>1. stack' \in Seq(Frames)
    BY <1>9, TopPageFacts DEF TopSet
  <2> QED
    BY <1>9, <2>1 DEF TopPage, AtTop, Types, PcInv, settings, service, IsWanted
<1>10. ASSUME TopDone PROVE Types' /\ PcInv'
  <2>1. stack # << >> /\ pc = "loop" /\ Top.de \in Entries /\ nextDir = None
    BY <1>10, TopFacts DEF TopDone, AtTop, Frames, Entries
  <2>2. stack' \in Seq(Frames)
    BY <1>10, TopDoneFacts DEF TopSet
  <2>3. entry = None /\ opening = None
    BY <2>1 DEF PcInv
  <2>4. Emit(Top.de) /\ UNCHANGED <<settings, nextDir, opening, lost, service>>
    BY <1>10 DEF TopDone
  <2> QED
    BY <2>1, <2>2, <2>3, <2>4, EmitFacts, EmitTypes
<1>11. ASSUME NEW v \in Entries, FirstEntry(v) PROVE Types' /\ PcInv'
  <2>1. pc = "first" /\ entry = None /\ nextDir = None /\ opening # None
    BY <1>11 DEF FirstEntry, PcInv
  <2>2. stack' \in Seq(Frames)
    BY <1>11, <2>1, FirstEntryFacts
  <2>3. opening' = None /\ UNCHANGED <<settings, lost, service>>
    BY <1>11 DEF FirstEntry
  <2>4. CASE v \in Dirs /\ nextDir' \in {None, v} /\ pc' = "loop"
             /\ UNCHANGED <<entry, attempt, out>>
    BY <2>1, <2>2, <2>3, <2>4 DEF Types, PcInv, settings, service, IsWanted
  <2>5. CASE Emit(v) /\ UNCHANGED nextDir
    BY <2>1, <2>2, <2>3, <2>5, EmitFacts, EmitTypes
  <2> QED
    BY <1>11, <2>4, <2>5 DEF FirstEntry
<1>12. ASSUME NEW v \in Entries, TopEntry(v) PROVE Types' /\ PcInv'
  <2>1. pc = "loop" /\ entry = None /\ nextDir = None /\ opening = None
    BY <1>12 DEF TopEntry, AtTop, PcInv
  <2>2. stack' \in Seq(Frames)
    BY <1>12, <2>1, TopEntryFacts DEF TopSet
  <2>3. opening' = None /\ UNCHANGED <<settings, lost, service>>
    BY <1>12, <2>1 DEF TopEntry
  <2>4. CASE v \in Dirs /\ nextDir' \in {None, v} /\ pc' = "loop"
             /\ UNCHANGED <<entry, attempt, out>>
    BY <2>1, <2>2, <2>3, <2>4 DEF Types, PcInv, settings, service, IsWanted
  <2>5. CASE Emit(v) /\ UNCHANGED nextDir
    BY <2>1, <2>2, <2>3, <2>5, EmitFacts, EmitTypes
  <2> QED
    BY <1>12, <2>4, <2>5 DEF TopEntry
<1>13. ASSUME StatOk \/ DeleteOk PROVE Types' /\ PcInv'
  <2>1. entry # None /\ pc \in {"stat", "delete"} /\ nextDir = None /\ opening = None
    BY <1>13 DEF StatOk, DeleteOk, PcInv
  <2>2. out' \in Seq(Entries) /\ entry' = None
    <3>1. out' = Append(out, entry) /\ entry' = None
      BY <1>13 DEF StatOk, DeleteOk
    <3>2. entry \in Entries /\ out \in Seq(Entries)
      BY <2>1 DEF Types
    <3> QED
      BY <3>1, <3>2
  <2> QED
    BY <1>13, <2>1, <2>2, TreeAssumption
    DEF StatOk, DeleteOk, Types, PcInv, settings, service, lister, IsWanted
<1>14. ASSUME StatNotFound PROVE Types' /\ PcInv'
  BY <1>14 DEF StatNotFound, Types, PcInv, settings, service, lister, IsWanted
<1>15. ASSUME UserNext PROVE Types' /\ PcInv'
  BY <1>15 DEF UserNext, Types, PcInv, settings, service, lister, IsWanted
<1>16. ASSUME NEW e \in Entries, RemoveEntry(e) PROVE Types' /\ PcInv'
  <2>1. Under(e) \subseteq Entries
    BY DEF Under
  <2> QED
    BY <1>16, <2>1, TreeAssumption DEF RemoveEntry, Types, PcInv, settings, lister, IsWanted
<1>17. ASSUME UNCHANGED vars PROVE Types' /\ PcInv'
  BY <1>17 DEF vars, Types, PcInv, settings, service, lister, IsWanted
<1> QED
  BY <1>0, <1>1, <1>2, <1>3, <1>4, <1>5, <1>6, <1>7, <1>8, <1>9, <1>10, <1>11, <1>12, <1>13,
     <1>14, <1>15, <1>16, <1>17, FailSteps DEF Next, Step, Failing

---------------------------------------------------------------------------
(* The path of open directories, and the listers on it. *)

LEMMA StackFacts ==
  ASSUME Types
  PROVE  /\ Len(stack) \in Nat
         /\ \A i \in 1..Len(stack) : /\ stack[i].l \in Listers /\ stack[i] \in Frames
                                     /\ Dir(i) \in Dirs /\ Dir(i) \in Entries
                                     /\ Dir(i) = stack[i].l.dir /\ Dir(i) # None
<1>1. Len(stack) \in Nat
  BY DEF Types
<1>2. ASSUME NEW i \in 1..Len(stack)
      PROVE  /\ stack[i].l \in Listers /\ stack[i] \in Frames
             /\ Dir(i) \in Dirs /\ Dir(i) \in Entries
  BY FrameFacts, ListerFacts DEF Types, Dir
<1> QED
  BY <1>1, <1>2, TreeAssumption DEF Dir

\* Steps that leave the walk as it is.
LEMMA WalkSame ==
  ASSUME IInv, UNCHANGED lister, gone \subseteq gone'
  PROVE  PathInv' /\ ListerInv'
<1>1. stack' = stack /\ opening' = opening /\ nextDir' = nextDir
  BY DEF lister
<1>2. PathInv'
  BY <1>1 DEF IInv, PathInv, Fits, Dir, Open, Items
<1>3. ListerInv'
  BY <1>1 DEF IInv, ListerInv, Dir, Open, Items
<1> QED
  BY <1>2, <1>3

\* Steps that give up the directory that is being opened.
LEMMA WalkDrop ==
  ASSUME IInv, stack' = stack, nextDir' = nextDir, opening' = None, gone' = gone
  PROVE  PathInv' /\ ListerInv'
<1>1. PathInv'
  BY DEF IInv, PathInv, Fits, Dir, Open, Items
<1>2. ListerInv'
  BY DEF IInv, ListerInv, Dir, Open, Items
<1> QED
  BY <1>1, <1>2

LEMMA WalkFail ==
  ASSUME IInv, FailStep
  PROVE  PathInv' /\ ListerInv'
<1>1. CASE UNCHANGED <<nextDir, stack>>
  BY <1>1, WalkDrop DEF FailStep
<1>2. CASE stack' = << >> /\ nextDir' = Root
  <2>1. Len(stack') = 0 /\ opening' = None /\ Len(Root) = 0
    BY <1>2, RootPath DEF FailStep
  <2>2. PathInv'
    BY <1>2, <2>1 DEF PathInv, Fits
  <2>3. ListerInv'
    BY <2>1 DEF ListerInv
  <2> QED
    BY <2>2, <2>3
<1> QED
  BY <1>1, <1>2 DEF FailStep

LEMMA WalkTakeDir ==
  ASSUME IInv, TakeDir
  PROVE  PathInv' /\ ListerInv'
<1>1. nextDir \in Dirs /\ nextDir # None /\ nextDir' = None /\ stack' = stack /\ gone' = gone
  BY DEF TakeDir, IInv, Types, service
<1>2. /\ opening'.dir = nextDir /\ opening'.buf = {} /\ opening'.done = FALSE
      /\ opening'.rest = Children(nextDir) \cup {nextDir}
  BY <1>1, NewListerFacts DEF TakeDir
<1>3. PathInv'
  BY <1>1, <1>2 DEF IInv, PathInv, Fits, Dir, Open, Items
<1>4. ListerInv'
  BY <1>1, <1>2 DEF IInv, ListerInv, Dir, Open, Items
<1> QED
  BY <1>3, <1>4

LEMMA WalkFirstPage ==
  ASSUME IInv, FirstPage
  PROVE  PathInv' /\ ListerInv'
<1>1. opening # None /\ opening \in Listers
  BY DEF IInv, FirstPage, PcInv, Types
<1>2. stack' = stack /\ nextDir' = nextDir /\ gone' = gone
  BY DEF FirstPage, service
<1>3. /\ opening'.dir = opening.dir /\ opening'.buf \cap opening'.rest = {}
      /\ opening'.done => opening'.rest \subseteq gone
      /\ opening'.buf \cup opening'.rest = opening.buf \cup opening.rest
  BY <1>1, PageFacts DEF IInv, FirstPage, ListerInv
<1>4. PathInv'
  BY <1>1, <1>2, <1>3 DEF IInv, PathInv, Fits, Dir, Open, Items
<1>5. ListerInv'
  BY <1>1, <1>2, <1>3 DEF IInv, ListerInv, Dir, Open, Items
<1> QED
  BY <1>4, <1>5

LEMMA WalkPop ==
  ASSUME IInv, Pop
  PROVE  PathInv' /\ ListerInv'
<1>1. /\ Len(stack') \in Nat /\ Len(stack) = Len(stack') + 1
      /\ \A i \in 1..Len(stack') : stack'[i] = stack[i]
  BY PopFacts DEF IInv, Types, Pop
<1>2. \A i \in 1..Len(stack') : i \in 1..Len(stack) /\ i < Len(stack)
  BY <1>1
<1>3. opening' = None /\ nextDir' = None /\ gone' = gone
  BY DEF IInv, Pop, PcInv, service
<1>4. PathInv'
  <2>1. \A i \in 1..Len(stack') : /\ stack'[i].de \in {stack'[i].l.dir, None}
                                  /\ Len(stack'[i].l.dir) = i - 1
                                  /\ stack'[i].de # None
    BY <1>1, <1>2 DEF IInv, PathInv, Dir, Open
  <2>2. \A i, j \in 1..Len(stack') : i < j => IsPrefix(stack'[i].l.dir, stack'[j].l.dir)
    BY <1>1, <1>2 DEF IInv, PathInv, Dir
  <2> QED
    BY <1>3, <2>1, <2>2 DEF PathInv, Dir, Open
<1>5. ListerInv'
  <2>1. \A i \in 1..Len(stack') :
          /\ stack'[i].l.buf \cap stack'[i].l.rest = {}
          /\ stack'[i].l.done => stack'[i].l.rest \subseteq gone
          /\ stack'[i].de = None => Items(stack'[i].l) = {}
    BY <1>1, <1>2 DEF IInv, ListerInv, Open
  <2>2. \A i, j \in 1..Len(stack') : j = i + 1 => stack'[j].l.dir \notin Items(stack'[i].l)
    BY <1>1, <1>2 DEF IInv, ListerInv, Dir
  <2> QED
    BY <1>3, <2>1, <2>2 DEF ListerInv, Dir, Open
<1> QED
  BY <1>4, <1>5

\* Steps that continue the innermost directory: its lister hands out less, and
\* what it hands out may be the next directory.
LEMMA WalkTop ==
  ASSUME IInv, AtTop, NEW m \in Listers, m.dir = Top.l.dir,
         m.buf \cap m.rest = {}, m.done => m.rest \subseteq gone, Items(m) \subseteq Items(Top.l),
         NEW de \in {Top.de, None}, de = None => Items(m) = {},
         TopSet([de |-> de, l |-> m]), opening' = None, gone' = gone,
         nextDir' # None => /\ nextDir' \in Items(Top.l) /\ nextDir' \notin Items(m)
                            /\ de = Top.de
  PROVE  PathInv' /\ ListerInv'
<1> DEFINE n == Len(stack)
<1>1. stack # << >> /\ Top.de # None /\ nextDir = None
  BY DEF AtTop
<1>2. /\ n \in Nat /\ n \in 1..n /\ Top = stack[n] /\ Top.l \in Listers
  BY <1>1, TopFacts DEF IInv
<1>3. /\ Len(stack') = n /\ \A i \in 1..n : i < n => stack'[i] = stack[i]
      /\ stack'[n].de = de /\ stack'[n].l = m
  BY DEF TopSet
<1>4. \A i \in 1..n : stack'[i].l.dir = stack[i].l.dir /\ Dir(i) = stack[i].l.dir
  BY <1>2, <1>3 DEF Dir
<1>a. \A i \in 1..n : i = n \/ i < n
  BY <1>2
<1>5. \A i \in 1..n : Items(stack'[i].l) \subseteq Items(stack[i].l)
  BY <1>2, <1>3
<1> HIDE DEF n
<1>6. PathInv'
  <2>1. \A i \in 1..n : /\ stack'[i].de \in {stack'[i].l.dir, None}
                        /\ Len(stack'[i].l.dir) = i - 1
                        /\ i < n => stack'[i].de # None
    <3>1. \A i \in 1..n : /\ stack[i].de \in {stack[i].l.dir, None}
                          /\ Len(stack[i].l.dir) = i - 1
                          /\ i < n => stack[i].de # None
      BY DEF IInv, PathInv, Dir, Open, n
    <3>2. de \in {stack[n].l.dir, None}
      BY <1>2, <3>1
    <3> QED
      BY <1>2, <1>3, <1>4, <1>a, <3>1, <3>2
  <2>2. \A i, j \in 1..n : i < j => IsPrefix(stack'[i].l.dir, stack'[j].l.dir)
    BY <1>4 DEF IInv, PathInv, n
  <2>3. ASSUME nextDir' # None PROVE Fits(nextDir)'
    <3>1. nextDir' \in Entries /\ IsPrefix(Top.l.dir, nextDir') /\ Len(nextDir') = Len(Top.l.dir) + 1
      BY <1>2, <2>3, ListerFacts
    <3>2. Len(Top.l.dir) = n - 1
      BY <1>2, <1>4 DEF IInv, PathInv, n
    <3>3. Len(nextDir') = n
      BY <1>2, <3>1, <3>2
    <3> QED
      BY <1>1, <1>3, <2>3, <3>1, <3>3 DEF Fits, Dir, Open
  <2> QED
    BY <1>3, <2>1, <2>2, <2>3 DEF PathInv, Dir, Open
<1>7. ListerInv'
  <2>1. \A i \in 1..n :
          /\ stack'[i].l.buf \cap stack'[i].l.rest = {}
          /\ stack'[i].l.done => stack'[i].l.rest \subseteq gone
          /\ stack'[i].de = None => Items(stack'[i].l) = {}
    <3>1. \A i \in 1..n :
            /\ stack[i].l.buf \cap stack[i].l.rest = {}
            /\ stack[i].l.done => stack[i].l.rest \subseteq gone
            /\ stack[i].de = None => Items(stack[i].l) = {}
      BY DEF IInv, ListerInv, Open, n
    <3> QED
      BY <1>2, <1>3, <1>a, <3>1
  <2>2. \A i, j \in 1..n : j = i + 1 => stack'[j].l.dir \notin Items(stack'[i].l)
    <3>1. \A i, j \in 1..n : j = i + 1 => stack[j].l.dir \notin Items(stack[i].l)
      BY DEF IInv, ListerInv, Dir, n
    <3> QED
      BY <1>4, <1>5, <3>1
  <2> QED
    BY <1>3, <2>1, <2>2 DEF ListerInv, Dir, Open
<1> QED
  BY <1>6, <1>7

LEMMA WalkTopPage ==
  ASSUME IInv, TopPage
  PROVE  PathInv' /\ ListerInv'
<1>1. PICK m \in Pages(Top.l) : TopSet([de |-> Top.de, l |-> m]) /\ m \in Listers
  BY TopPageFacts DEF IInv
<1>2. AtTop /\ Asks(Top.l) /\ stack # << >> /\ Top.de # None /\ nextDir = None /\ pc = "loop"
  BY DEF TopPage, AtTop
<1>3. Top.l \in Listers /\ Top.l.buf \cap Top.l.rest = {}
  BY <1>2, TopFacts DEF IInv, ListerInv
<1>4. /\ m.dir = Top.l.dir /\ m.buf \cap m.rest = {}
      /\ m.done => m.rest \subseteq gone
      /\ Items(m) \subseteq Items(Top.l)
  BY <1>1, <1>2, <1>3, PageFacts
<1>5. opening' = None /\ nextDir' = None /\ gone' = gone
  BY <1>2 DEF TopPage, service, IInv, PcInv
<1> QED
  BY <1>1, <1>2, <1>4, <1>5, WalkTop

LEMMA WalkTopEntry ==
  ASSUME IInv, NEW v \in Entries, TopEntry(v)
  PROVE  PathInv' /\ ListerInv'
<1>1. PICK m \in Listers : /\ m = [Top.l EXCEPT !.buf = @ \ {v}]
                           /\ TopSet([de |-> Top.de, l |-> m])
  BY TopEntryFacts DEF IInv
<1>2. AtTop /\ v \in Top.l.buf /\ stack # << >> /\ Top.de # None /\ nextDir = None /\ pc = "loop"
  BY DEF TopEntry, AtTop
<1>3. /\ Top.l \in Listers /\ Top.l.buf \cap Top.l.rest = {}
      /\ Top.l.done => Top.l.rest \subseteq gone
      /\ Top.de = Top.l.dir
  BY <1>2, TopFacts DEF IInv, ListerInv, PathInv
<1>4. /\ m.dir = Top.l.dir /\ m.buf \cap m.rest = {} /\ m.rest = Top.l.rest
      /\ m.done = Top.l.done /\ Items(m) = Items(Top.l) \ {v}
      /\ v # Top.l.dir => v \in Items(Top.l)
  BY <1>1, <1>2, <1>3, TakenFacts
<1>5. opening' = None /\ gone' = gone
  BY <1>2 DEF TopEntry, service, IInv, PcInv
<1>6. nextDir' # None => nextDir' = v /\ v # Top.l.dir
  BY <1>2, <1>3 DEF TopEntry
<1> QED
  BY <1>1, <1>2, <1>3, <1>4, <1>5, <1>6, WalkTop

LEMMA WalkTopDone ==
  ASSUME IInv, TopDone
  PROVE  PathInv' /\ ListerInv' /\ Items(Top.l) = {}
<1>1. TopSet([de |-> None, l |-> Top.l])
  BY TopDoneFacts DEF IInv
<1>2. /\ AtTop /\ Top.l.buf = {} /\ Top.l.done
      /\ stack # << >> /\ Top.de # None /\ nextDir = None /\ pc = "loop"
  BY DEF TopDone, AtTop
<1>3. /\ Top.l \in Listers /\ Top.l.buf \cap Top.l.rest = {}
      /\ Top.l.done => Top.l.rest \subseteq gone
  BY <1>2, TopFacts DEF IInv, ListerInv
<1>4. Items(Top.l) = {}
  BY <1>2 DEF Items
<1>5. opening' = None /\ nextDir' = None /\ gone' = gone
  BY <1>2 DEF TopDone, service, IInv, PcInv
<1> QED
  BY <1>1, <1>2, <1>3, <1>4, <1>5, WalkTop

LEMMA WalkFirstEntry ==
  ASSUME IInv, NEW v \in Entries, FirstEntry(v)
  PROVE  PathInv' /\ ListerInv'
<1> DEFINE n == Len(stack)
           d == opening.dir
<1>1. pc = "first" /\ opening # None /\ opening \in Listers /\ nextDir = None /\ v \in opening.buf
  BY DEF FirstEntry, IInv, PcInv, Types
<1>2. PICK m \in Listers :
        /\ m = [opening EXCEPT !.buf = @ \ {v}] /\ m.dir = d
        /\ Len(stack') = n + 1
        /\ \A i \in 1..n : stack'[i] = stack[i]
        /\ stack'[n + 1] = [de |-> d, l |-> m]
  BY <1>1, FirstEntryFacts DEF IInv
<1>3. /\ m.buf \cap m.rest = {} /\ m.rest = opening.rest
      /\ m.done = opening.done /\ Items(m) = Items(opening) \ {v}
      /\ v # d => v \in Items(opening)
  BY <1>1, <1>2, TakenFacts DEF IInv, ListerInv
<1>4. n \in Nat /\ d \in Dirs /\ d \in Entries /\ d # None
  BY <1>1, StackFacts, ListerFacts, TreeAssumption DEF IInv
<1>5. opening' = None /\ gone' = gone
  BY DEF FirstEntry, service
<1>6. nextDir' # None => nextDir' = v /\ v # d
  BY <1>1 DEF FirstEntry
<1>7. Fits(d)
  BY <1>1 DEF IInv, PathInv
<1>8. Len(d) = n /\ \A i \in 1..n : Open(i)
  BY <1>4, <1>7 DEF Fits, IInv, PathInv
<1>9. \A i \in 1..n : IsPrefix(Dir(i), d)
  <2> TAKE i \in 1..n
  <2>1. stack # << >> /\ n \in 1..n /\ IsPrefix(Dir(n), d)
    BY <1>4, <1>7 DEF Fits, IInv, Types
  <2>2. i = n \/ IsPrefix(Dir(i), Dir(n))
    BY <1>4, <2>1 DEF IInv, PathInv
  <2>3. Dir(i) \in Entries /\ Dir(n) \in Entries
    BY <2>1, StackFacts DEF IInv
  <2> QED
    BY <1>4, <2>1, <2>2, <2>3, PrefixTrans
<1>10. stack'[n + 1].de = d /\ stack'[n + 1].l = m
  BY <1>2
<1>11. \A i \in 1..(n + 1) : i = n + 1 \/ i \in 1..n
  BY <1>4
<1> HIDE DEF n, d
<1>12. PathInv'
  <2>1. \A i \in 1..(n + 1) : /\ stack'[i].de \in {stack'[i].l.dir, None}
                              /\ Len(stack'[i].l.dir) = i - 1
                              /\ stack'[i].de # None
    <3>1. \A i \in 1..n : /\ stack[i].de \in {stack[i].l.dir, None}
                          /\ Len(stack[i].l.dir) = i - 1
                          /\ stack[i].de # None
      BY <1>8 DEF IInv, PathInv, Dir, Open, n
    <3>2. Len(d) = (n + 1) - 1
      BY <1>4, <1>8
    <3> QED
      BY <1>2, <1>4, <1>10, <1>11, <3>1, <3>2
  <2>2. \A i, j \in 1..(n + 1) : i < j => IsPrefix(stack'[i].l.dir, stack'[j].l.dir)
    <3>1. \A i, j \in 1..n : i < j => IsPrefix(stack'[i].l.dir, stack'[j].l.dir)
      BY <1>2 DEF IInv, PathInv, Dir, n
    <3>2. \A i \in 1..n : IsPrefix(stack'[i].l.dir, d)
      BY <1>2, <1>9 DEF Dir
    <3>3. ASSUME NEW i \in 1..(n + 1), NEW j \in 1..(n + 1), i < j
          PROVE  i \in 1..n /\ (j = n + 1 \/ j \in 1..n)
      BY <1>4, <3>3
    <3> QED
      BY <1>2, <1>10, <3>1, <3>2, <3>3
  <2>3. ASSUME nextDir' # None PROVE Fits(nextDir)'
    <3>1. /\ nextDir' = v /\ v \notin Items(m) /\ IsPrefix(d, v)
          /\ Len(v) = n + 1
      BY <1>1, <1>3, <1>6, <1>8, <2>3, ListerFacts DEF d
    <3> QED
      BY <1>2, <1>4, <1>10, <3>1 DEF Fits, Dir, Open
  <2> QED
    BY <1>2, <1>5, <2>1, <2>2, <2>3 DEF PathInv, Dir, Open
<1>13. ListerInv'
  <2>1. \A i \in 1..(n + 1) :
          /\ stack'[i].l.buf \cap stack'[i].l.rest = {}
          /\ stack'[i].l.done => stack'[i].l.rest \subseteq gone
          /\ stack'[i].de = None => Items(stack'[i].l) = {}
    <3>1. \A i \in 1..n :
            /\ stack[i].l.buf \cap stack[i].l.rest = {}
            /\ stack[i].l.done => stack[i].l.rest \subseteq gone
            /\ stack[i].de = None => Items(stack[i].l) = {}
      BY DEF IInv, ListerInv, Open, n
    <3>2. /\ m.buf \cap m.rest = {} /\ (m.done => m.rest \subseteq gone)
      BY <1>1, <1>3 DEF IInv, ListerInv
    <3> QED
      BY <1>2, <1>4, <1>10, <1>11, <3>1, <3>2
  <2>2. \A i, j \in 1..(n + 1) : j = i + 1 => stack'[j].l.dir \notin Items(stack'[i].l)
    <3>1. \A i, j \in 1..n : j = i + 1 => stack'[j].l.dir \notin Items(stack'[i].l)
      BY <1>2 DEF IInv, ListerInv, Dir, n
    <3>2. n \in 1..n => d \notin Items(stack'[n].l)
      BY <1>2, <1>7 DEF Fits, n
    <3>3. ASSUME NEW i \in 1..(n + 1), NEW j \in 1..(n + 1), j = i + 1
          PROVE  (i = n /\ j = n + 1 /\ n \in 1..n) \/ (i \in 1..n /\ j \in 1..n)
      BY <1>4, <3>3
    <3> QED
      BY <1>2, <1>10, <3>1, <3>2, <3>3
  <2> QED
    BY <1>2, <1>5, <2>1, <2>2 DEF ListerInv, Dir, Open
<1> QED
  BY <1>12, <1>13

\* Steps that only move on to another place of next(), or back to the user.
Quiet ==
  /\ UNCHANGED <<settings, nextDir, opening, stack, entry, out, lost, gone>>
  /\ pc' = "errored" => pc = "errored"

LEMMA QuietSteps ==
  ASSUME Types, ListOk \/ FirstNotFound \/ TopNotFound \/ Ends \/ UserNext \/ UNCHANGED vars
  PROVE  Quiet
BY DEF ListOk, FirstNotFound, TopNotFound, Ends, UserNext, vars, Quiet, lister,
       service, settings, Types

\* The kinds of steps.
LEMMA StepKinds ==
  ASSUME IInv, [Next]_vars
  PROVE  \/ FailStep \/ Quiet
         \/ TakeDir \/ ListSkips \/ FirstPage \/ FirstNone
         \/ Pop \/ TopPage \/ TopDone
         \/ \E v \in Entries : FirstEntry(v) \/ TopEntry(v)
         \/ StatOk \/ StatNotFound \/ DeleteOk
         \/ \E e \in Entries : RemoveEntry(e)
BY FailSteps, QuietSteps DEF Next, Step, Failing, IInv

LEMMA StepWalk ==
  ASSUME IInv, [Next]_vars
  PROVE  PathInv' /\ ListerInv'
<1>1. CASE ListSkips \/ FirstNone
  BY <1>1, WalkDrop DEF ListSkips, FirstNone, service
<1>2. CASE Quiet \/ StatOk \/ StatNotFound \/ DeleteOk \/ \E e \in Entries : RemoveEntry(e)
  <2>1. UNCHANGED lister /\ gone \subseteq gone'
    BY <1>2 DEF Quiet, StatOk, StatNotFound, DeleteOk, RemoveEntry, lister, service
  <2> QED
    BY <2>1, WalkSame
<1> QED
  BY <1>1, <1>2, StepKinds, WalkFail, WalkTakeDir, WalkFirstPage, WalkPop, WalkTopPage,
     WalkTopEntry, WalkTopDone, WalkFirstEntry

---------------------------------------------------------------------------
(* What is gone. *)

LEMMA StepGone ==
  ASSUME IInv, [Next]_vars
  PROVE  GoneInv'
<1>1. CASE gone' = gone
  BY <1>1 DEF IInv, GoneInv
<1>2. ASSUME NEW e \in Entries, RemoveEntry(e) PROVE GoneInv'
  <2> SUFFICES ASSUME NEW g \in gone', NEW x \in Under(g) PROVE x \in gone'
    BY DEF GoneInv
  <2>1. gone' = gone \cup Under(e)
    BY <1>2 DEF RemoveEntry
  <2>2. CASE g \in gone
    BY <2>1, <2>2 DEF IInv, GoneInv
  <2>3. CASE g \in Under(e)
    BY <2>1, <2>3, UnderMember, PrefixTrans
  <2> QED
    BY <2>1, <2>2, <2>3
<1>3. ASSUME DeleteOk PROVE GoneInv'
  <2> SUFFICES ASSUME NEW g \in gone', NEW x \in Under(g) PROVE x \in gone'
    BY DEF GoneInv
  <2>1. gone' = gone \cup {entry} /\ Children(entry) \subseteq gone /\ entry \in Entries
    BY <1>3 DEF DeleteOk, IInv, PcInv, Types
  <2>2. CASE g \in gone
    BY <2>1, <2>2 DEF IInv, GoneInv
  <2>3. CASE g = entry
    BY <2>1, <2>3, UnderChildren DEF IInv, GoneInv
  <2> QED
    BY <2>1, <2>2, <2>3
<1>4. CASE \/ FailStep \/ Quiet
           \/ TakeDir \/ ListSkips \/ FirstPage \/ FirstNone
           \/ Pop \/ TopPage \/ TopDone
           \/ \E v \in Entries : FirstEntry(v) \/ TopEntry(v)
           \/ StatOk \/ StatNotFound
  <2>1. gone' = gone
    BY <1>4 DEF FailStep, Quiet, TakeDir, ListSkips, FirstPage, FirstNone, Pop, TopPage, TopDone,
         FirstEntry, TopEntry, StatOk, StatNotFound, service
  <2> QED
    BY <1>1, <2>1
<1> QED
  BY <1>2, <1>3, <1>4, StepKinds

---------------------------------------------------------------------------
(* The order of what is returned. *)

\* What is apart from a directory is apart from what lies in it.
LEMMA ApartBelow ==
  ASSUME NEW o \in Entries, NEW d \in Entries, NEW c \in Entries, Apart(o, d), IsPrefix(d, c)
  PROVE  Apart(o, c)
<1>1. Len(o) \in Nat /\ Len(d) \in Nat
  BY EntryPath
<1>2. Len(o) <= Len(d) \/ Len(d) <= Len(o)
  BY <1>1
<1>3. ~IsPrefix(o, c)
  BY <1>2, PrefixCommon DEF Apart
<1>4. ~IsPrefix(c, o)
  BY PrefixTrans DEF Apart
<1> QED
  BY <1>3, <1>4 DEF Apart

LEMMA OutAppend ==
  ASSUME Types, OnceNestedFirst, NEW v \in Entries, \A o \in ToSet(out) : ~IsPrefix(o, v),
         out' = Append(out, v)
  PROVE  OnceNestedFirst' /\ ToSet(out') = ToSet(out) \cup {v}
<1>1. /\ out \in Seq(Entries) /\ Len(out) \in Nat /\ DOMAIN out = 1..Len(out)
      /\ Len(out') = Len(out) + 1 /\ DOMAIN out' = 1..(Len(out) + 1)
      /\ \A i \in 1..Len(out) : out'[i] = out[i]
      /\ out'[Len(out) + 1] = v
  BY DEF Types
<1>2. \A i \in 1..(Len(out) + 1) : i = Len(out) + 1 \/ i \in 1..Len(out)
  BY <1>1
<1>3. \A i \in 1..Len(out) : i \in 1..(Len(out) + 1)
  BY <1>1
<1>4. ToSet(out') = ToSet(out) \cup {v}
  BY <1>1, <1>2, <1>3 DEF ToSet
<1>5. ASSUME NEW i \in DOMAIN out', NEW j \in DOMAIN out', i < j PROVE ~IsPrefix(out'[i], out'[j])
  <2>1. i \in 1..Len(out)
    BY <1>1, <1>5
  <2>2. CASE j = Len(out) + 1
    BY <1>1, <2>1, <2>2 DEF ToSet
  <2>3. CASE j \in 1..Len(out)
    BY <1>1, <1>5, <2>1, <2>3 DEF OnceNestedFirst
  <2> QED
    BY <1>1, <1>2, <2>2, <2>3
<1> QED
  BY <1>4, <1>5 DEF OnceNestedFirst

LEMMA ReturnedFacts ==
  ASSUME Types
  PROVE  Returned \subseteq Entries /\ ToSet(out) \subseteq Entries
<1>1. ToSet(out) \subseteq Entries
  BY DEF Types, ToSet
<1> QED
  BY <1>1 DEF Returned, Types

\* A step that returns nothing and leaves what was returned clear.
LEMMA OrderSame ==
  ASSUME IInv, entry' \in {entry, None}, out' = out, \A o \in Returned : Clear(o)'
  PROVE  OrderInv'
BY DEF IInv, OrderInv, OnceNestedFirst, Returned

\* A step that returns v.
LEMMA OrderEmit ==
  ASSUME IInv, entry = None, NEW v \in Entries, Emitted(v),
         \A o \in Returned : Clear(o)' /\ ~IsPrefix(o, v), Clear(v)'
  PROVE  OrderInv'
<1>1. Returned = ToSet(out) /\ v # None
  BY TreeAssumption DEF Returned
<1>2. CASE out' = out /\ entry' \in {v, None}
  BY <1>1, <1>2 DEF IInv, OrderInv, OnceNestedFirst, Returned
<1>3. CASE out' = Append(out, v) /\ entry' = None
  <2>1. OnceNestedFirst' /\ ToSet(out') = ToSet(out) \cup {v}
    BY <1>1, <1>3, OutAppend DEF IInv, OrderInv
  <2> QED
    BY <1>1, <1>3, <2>1 DEF OrderInv, Returned
<1> QED
  BY <1>2, <1>3 DEF Emitted

\* What is handed out is clear of the rest: it is a leaf of the path, or the
\* end of the path that has no lister any more.
LeafIsClear ==
  \A v \in Entries :
    /\ Types /\ PathInv /\ ListerInv /\ stack # << >> /\ opening = None /\ nextDir = None
    /\ IsPrefix(Dir(Len(stack)), v)
    /\ \/ Len(v) = Len(stack) /\ v \notin Items(stack[Len(stack)].l)
       \/ v = Dir(Len(stack)) /\ ~Open(Len(stack))
    => Clear(v)

LEMMA LeafClear == LeafIsClear
<1> SUFFICES ASSUME NEW v \in Entries, Types, PathInv, ListerInv, stack # << >>,
                    opening = None, nextDir = None, IsPrefix(Dir(Len(stack)), v),
                    \/ Len(v) = Len(stack) /\ v \notin Items(stack[Len(stack)].l)
                    \/ v = Dir(Len(stack)) /\ ~Open(Len(stack))
             PROVE  Clear(v)
  BY DEF LeafIsClear
<1> DEFINE n == Len(stack)
<1>1. n \in Nat /\ n >= 1 /\ n \in 1..n
  BY TopFacts
<1>2. \A i \in 1..n : /\ stack[i].l \in Listers /\ Dir(i) \in Entries /\ Dir(i) = stack[i].l.dir
                      /\ Len(Dir(i)) = i - 1
  BY StackFacts DEF PathInv
<1>3. \A i \in 1..n : Open(i) => ~IsPrefix(v, Dir(i))
  <2> TAKE i \in 1..n
  <2> HAVE Open(i)
  <2>1. Len(v) >= n \/ (Len(v) = n - 1 /\ i # n)
    BY <1>1, <1>2
  <2>2. Len(Dir(i)) < Len(v)
    BY <1>1, <1>2, <2>1
  <2> QED
    BY <1>2, <2>2, PrefixLength, EntryPath
<1>4. ASSUME NEW i \in 1..n, NEW c \in Items(stack[i].l) PROVE Apart(v, c)
  <2>1. c \in Entries /\ Len(c) = i
    <3>1. c \in Entries /\ Len(c) = Len(Dir(i)) + 1
      BY <1>2, <1>4, ListerFacts
    <3> QED
      BY <1>1, <1>2, <3>1
  <2>2. CASE i = n
    <3>1. Len(v) = n /\ v # c
      BY <2>2 DEF ListerInv
    <3> QED
      BY <2>1, <2>2, <3>1, PrefixLength DEF Apart
  <2>3. CASE i < n
    <3>1. i + 1 \in 1..n /\ Len(v) >= n - 1
      <4>1. i + 1 \in 1..n
        BY <1>1, <2>3
      <4>2. Len(Dir(n)) = n - 1
        BY <1>1, <1>2
      <4> QED
        BY <1>1, <4>1, <4>2
    <3>2. Dir(i + 1) \in Entries /\ Len(Dir(i + 1)) = i /\ Dir(i + 1) \notin Items(stack[i].l)
      BY <1>1, <1>2, <3>1 DEF ListerInv
    <3>3. IsPrefix(Dir(i + 1), v)
      <4>1. i + 1 = n \/ IsPrefix(Dir(i + 1), Dir(n))
        <5>1. i + 1 = n \/ i + 1 < n
          BY <1>1, <3>1
        <5> QED
          BY <1>1, <3>1, <5>1 DEF PathInv
      <4> QED
        BY <1>1, <1>2, <3>2, <4>1, PrefixTrans
    <3>4. ~IsPrefix(c, v)
      <4>1. IsPrefix(c, v) => IsPrefix(c, Dir(i + 1))
        BY <2>1, <3>2, <3>3, PrefixCommon
      <4> QED
        BY <2>1, <3>2, <4>1, PrefixLength
    <3>5. ~IsPrefix(v, c)
      <4>1. IsPrefix(v, c) => Len(v) = i /\ v = c
        BY <1>1, <2>1, <2>3, <3>1, PrefixLength
      <4>2. v # c
        BY <3>4, PrefixRefl
      <4> QED
        BY <4>1, <4>2
    <3> QED
      BY <3>4, <3>5 DEF Apart
  <2> QED
    BY <1>1, <2>2, <2>3
<1> QED
  BY <1>3, <1>4 DEF Clear

LEMMA ClearSame ==
  ASSUME stack' = stack, opening' \in {opening, None}, nextDir' \in {nextDir, None},
         NEW o, Clear(o)
  PROVE  Clear(o)'
BY DEF Clear, Open, Dir, Items, Apart

LEMMA ClearTakeDir ==
  ASSUME IInv, TakeDir, NEW o, Clear(o)
  PROVE  Clear(o)'
<1>1. nextDir \in Dirs /\ nextDir # None /\ nextDir' = None /\ stack' = stack
  BY DEF TakeDir, IInv, Types
<1>2. opening'.dir = nextDir
  BY <1>1, NewListerFacts DEF TakeDir
<1> QED
  BY <1>1, <1>2 DEF Clear, Open, Dir, Items, Apart

LEMMA ClearFirstPage ==
  ASSUME IInv, FirstPage, NEW o, Clear(o)
  PROVE  Clear(o)'
<1>1. opening # None /\ opening \in Listers /\ stack' = stack /\ nextDir' = nextDir
  BY DEF IInv, FirstPage, PcInv, Types
<1>2. opening'.dir = opening.dir
  BY <1>1, PageFacts DEF IInv, FirstPage, ListerInv
<1> QED
  BY <1>1, <1>2 DEF Clear, Open, Dir, Items, Apart

LEMMA ClearPop ==
  ASSUME IInv, Pop, NEW o, Clear(o)
  PROVE  Clear(o)'
<1>1. /\ Len(stack') \in Nat /\ Len(stack) = Len(stack') + 1
      /\ \A i \in 1..Len(stack') : stack'[i] = stack[i]
  BY PopFacts DEF IInv, Types, Pop
<1>2. \A i \in 1..Len(stack') : i \in 1..Len(stack)
  BY <1>1
<1>3. opening' = opening /\ nextDir' = nextDir
  BY DEF Pop
<1>4. \A i \in 1..Len(stack') : /\ stack'[i].de # None => ~IsPrefix(o, stack'[i].l.dir)
                                /\ \A c \in Items(stack'[i].l) : Apart(o, c)
  BY <1>1, <1>2 DEF Clear, Open, Dir
<1> QED
  BY <1>3, <1>4 DEF Clear, Open, Dir, Apart

LEMMA ClearTop ==
  ASSUME IInv, AtTop, NEW o, Clear(o), NEW m \in Listers, m.dir = Top.l.dir,
         Items(m) \subseteq Items(Top.l), NEW de \in {Top.de, None},
         TopSet([de |-> de, l |-> m]), opening' = None,
         nextDir' # None => nextDir' \in Items(Top.l)
  PROVE  Clear(o)'
<1> DEFINE n == Len(stack)
<1>1. stack # << >> /\ Top.de # None
  BY DEF AtTop
<1>2. n \in Nat /\ n \in 1..n /\ Top = stack[n]
  BY <1>1, TopFacts DEF IInv
<1>3. /\ Len(stack') = n /\ \A i \in 1..n : i < n => stack'[i] = stack[i]
      /\ stack'[n].de = de /\ stack'[n].l = m
  BY DEF TopSet
<1>4. \A i \in 1..n : /\ stack[i].de # None => ~IsPrefix(o, stack[i].l.dir)
                      /\ \A c \in Items(stack[i].l) : Apart(o, c)
  BY DEF Clear, Open, Dir
<1>5. \A i \in 1..n : i = n \/ i < n
  BY <1>2
<1> HIDE DEF n
<1>6. \A i \in 1..n : /\ stack'[i].de # None => ~IsPrefix(o, stack'[i].l.dir)
                      /\ \A c \in Items(stack'[i].l) : Apart(o, c)
  BY <1>1, <1>2, <1>3, <1>4, <1>5
<1>7. nextDir' # None => Apart(o, nextDir')
  BY <1>2, <1>4
<1> QED
  BY <1>3, <1>6, <1>7 DEF Clear, Open, Dir, Apart

LEMMA ClearFirstEntry ==
  ASSUME IInv, NEW v \in Entries, FirstEntry(v), NEW o \in Entries, Clear(o)
  PROVE  Clear(o)' /\ Apart(o, v)
<1> DEFINE n == Len(stack)
           d == opening.dir
<1>1. pc = "first" /\ opening # None /\ opening \in Listers /\ nextDir = None /\ v \in opening.buf
  BY DEF FirstEntry, IInv, PcInv, Types
<1>2. PICK m \in Listers :
        /\ m = [opening EXCEPT !.buf = @ \ {v}] /\ m.dir = d
        /\ Len(stack') = n + 1
        /\ \A i \in 1..n : stack'[i] = stack[i]
        /\ stack'[n + 1] = [de |-> d, l |-> m]
  BY <1>1, FirstEntryFacts DEF IInv
<1>3. n \in Nat /\ d \in Entries /\ Apart(o, d)
  BY <1>1, StackFacts, ListerFacts DEF IInv, Clear
<1>4. stack'[n + 1].de = d /\ stack'[n + 1].l = m
  BY <1>2
<1>5. \A i \in 1..(n + 1) : i = n + 1 \/ i \in 1..n
  BY <1>3
<1>6. \A i \in 1..n : /\ stack[i].de # None => ~IsPrefix(o, stack[i].l.dir)
                      /\ \A c \in Items(stack[i].l) : Apart(o, c)
  BY DEF Clear, Open, Dir
<1>7. \A c \in Items(m) : Apart(o, c)
  BY <1>2, <1>3, ListerFacts, ApartBelow
<1>8. Apart(o, v)
  <2>1. v = d \/ v \in Items(opening)
    BY <1>1 DEF Items
  <2> QED
    BY <1>1, <1>3, <2>1, ListerFacts, ApartBelow
<1> HIDE DEF n, d
<1>9. \A i \in 1..(n + 1) : /\ stack'[i].de # None => ~IsPrefix(o, stack'[i].l.dir)
                            /\ \A c \in Items(stack'[i].l) : Apart(o, c)
  BY <1>2, <1>3, <1>4, <1>5, <1>6, <1>7 DEF Apart
<1>10. opening' = None /\ nextDir' \in {None, v}
  BY <1>1 DEF FirstEntry
<1>11. Clear(o)'
  BY <1>2, <1>8, <1>9, <1>10 DEF Clear, Open, Dir, Apart
<1> QED
  BY <1>8, <1>11

\* What a step at the top of the stack starts from.
LEMMA AtTopFacts ==
  ASSUME IInv, AtTop
  PROVE  /\ stack # << >> /\ Len(stack) \in Nat /\ Len(stack) \in 1..Len(stack)
         /\ Top = stack[Len(stack)] /\ Top.l \in Listers
         /\ Top.l.buf \cap Top.l.rest = {} /\ (Top.l.done => Top.l.rest \subseteq gone)
         /\ Top.de = Top.l.dir /\ Top.de = Dir(Len(stack)) /\ Top.de \in Entries
         /\ Top.de # None /\ Open(Len(stack))
         /\ pc = "loop" /\ nextDir = None /\ opening = None /\ entry = None
<1>1. stack # << >> /\ Top.de # None /\ pc = "loop" /\ nextDir = None
  BY DEF AtTop
<1>2. /\ Len(stack) \in Nat /\ Len(stack) \in 1..Len(stack)
      /\ Top = stack[Len(stack)] /\ Top.l \in Listers /\ Top.l.dir = Dir(Len(stack))
  BY <1>1, TopFacts DEF IInv
<1>3. /\ Top.l.buf \cap Top.l.rest = {} /\ (Top.l.done => Top.l.rest \subseteq gone)
      /\ Top.de \in {Dir(Len(stack)), None}
  BY <1>2 DEF IInv, ListerInv, PathInv
<1>4. opening = None /\ entry = None
  BY <1>1 DEF IInv, PcInv
<1>5. Dir(Len(stack)) \in Entries
  BY <1>2, StackFacts DEF IInv
<1> QED
  BY <1>1, <1>2, <1>3, <1>4, <1>5 DEF Open

LEMMA TopPageShape ==
  ASSUME IInv, TopPage
  PROVE  /\ AtTop
         /\ UNCHANGED <<settings, pc, nextDir, opening, entry, out, lost, gone>>
         /\ \E m \in Listers : /\ TopSet([de |-> Top.de, l |-> m]) /\ m.dir = Top.l.dir
                               /\ Items(m) \subseteq Items(Top.l)
                               /\ \A c \in Items(Top.l) : c \in Items(m) \/ c \in gone
<1>1. AtTop /\ Asks(Top.l)
  BY DEF TopPage
<1>2. PICK m \in Pages(Top.l) : TopSet([de |-> Top.de, l |-> m]) /\ m \in Listers
  BY TopPageFacts DEF IInv
<1>3. Top.l \in Listers /\ Top.l.buf \cap Top.l.rest = {}
  BY <1>1, AtTopFacts
<1>4. /\ m.dir = Top.l.dir /\ Items(m) \subseteq Items(Top.l)
      /\ \A c \in Items(Top.l) : c \in Items(m) \/ c \in gone
  BY <1>1, <1>2, <1>3, PageFacts
<1>5. UNCHANGED <<settings, pc, nextDir, opening, entry, out, lost, gone>>
  BY DEF TopPage, service
<1> QED
  BY <1>1, <1>2, <1>4, <1>5

LEMMA TopEntryShape ==
  ASSUME IInv, NEW v \in Entries, TopEntry(v)
  PROVE  /\ AtTop
         /\ UNCHANGED <<settings, opening, lost, gone>>
         /\ \E m \in Listers : /\ TopSet([de |-> Top.de, l |-> m]) /\ m.dir = Top.l.dir
                               /\ Items(m) = Items(Top.l) \ {v}
         /\ v = Top.l.dir \/ v \in Items(Top.l)
         /\ \/ /\ v \in Dirs /\ nextDir' = IF v = Top.l.dir THEN None ELSE v
               /\ pc' = "loop" /\ UNCHANGED <<entry, out>>
            \/ /\ v \in Files /\ v # Top.l.dir /\ Emitted(v) /\ nextDir' = None
<1>1. AtTop /\ v \in Top.l.buf
  BY DEF TopEntry
<1>2. PICK m \in Listers : /\ m = [Top.l EXCEPT !.buf = @ \ {v}]
                           /\ TopSet([de |-> Top.de, l |-> m])
  BY TopEntryFacts DEF IInv
<1>3. /\ Top.l \in Listers /\ Top.l.buf \cap Top.l.rest = {} /\ Top.de = Top.l.dir
      /\ entry = None /\ nextDir = None
  BY <1>1, AtTopFacts
<1>4. m.dir = Top.l.dir /\ Items(m) = Items(Top.l) \ {v} /\ (v # Top.l.dir => v \in Items(Top.l))
  BY <1>1, <1>2, <1>3, TakenFacts
<1>5. UNCHANGED <<settings, opening, lost, gone>>
  BY DEF TopEntry, service
<1>6. \/ /\ v \in Dirs /\ nextDir' = IF v = Top.l.dir THEN None ELSE v
         /\ pc' = "loop" /\ UNCHANGED <<entry, out>>
      \/ /\ v \in Files /\ Emit(v) /\ nextDir' = None
  BY <1>3 DEF TopEntry
<1>7. v \in Files => v # Top.l.dir
  BY <1>3, ListerFacts, TreeAssumption
<1>8. Emit(v) => Emitted(v)
  BY <1>3, EmitFacts DEF IInv
<1> QED
  BY <1>1, <1>2, <1>4, <1>5, <1>6, <1>7, <1>8

LEMMA TopDoneShape ==
  ASSUME IInv, TopDone
  PROVE  /\ AtTop /\ TopSet([de |-> None, l |-> Top.l]) /\ Items(Top.l) = {}
         /\ Emitted(Top.de)
         /\ UNCHANGED <<settings, nextDir, opening, lost, gone>>
<1>1. AtTop /\ Emit(Top.de)
  BY DEF TopDone
<1>2. TopSet([de |-> None, l |-> Top.l])
  BY TopDoneFacts DEF IInv
<1>3. Emitted(Top.de)
  BY <1>1, AtTopFacts, EmitFacts DEF IInv
<1>4. UNCHANGED <<settings, nextDir, opening, lost, gone>>
  BY DEF TopDone, service
<1> QED
  BY <1>1, <1>2, <1>3, <1>4, WalkTopDone

LEMMA FirstEntryShape ==
  ASSUME IInv, NEW v \in Entries, FirstEntry(v)
  PROVE  /\ opening # None /\ opening \in Listers /\ nextDir = None /\ entry = None
         /\ Len(stack) \in Nat
         /\ opening' = None /\ UNCHANGED <<settings, lost, gone>>
         /\ \E m \in Listers : /\ m.dir = opening.dir /\ Items(m) = Items(opening) \ {v}
                               /\ Len(stack') = Len(stack) + 1
                               /\ \A i \in 1..Len(stack) : stack'[i] = stack[i]
                               /\ stack'[Len(stack) + 1].de = opening.dir
                               /\ stack'[Len(stack) + 1].l = m
         /\ v = opening.dir \/ v \in Items(opening)
         /\ \/ /\ v \in Dirs /\ nextDir' = IF v = opening.dir THEN None ELSE v
               /\ pc' = "loop" /\ UNCHANGED <<entry, out>>
            \/ /\ v \in Files /\ v # opening.dir /\ Emitted(v) /\ nextDir' = None
<1>1. /\ pc = "first" /\ opening # None /\ opening \in Listers /\ nextDir = None
      /\ v \in opening.buf /\ entry = None
  BY DEF FirstEntry, IInv, PcInv, Types
<1>2. PICK m \in Listers :
        /\ m = [opening EXCEPT !.buf = @ \ {v}] /\ m.dir = opening.dir
        /\ Len(stack') = Len(stack) + 1
        /\ \A i \in 1..Len(stack) : stack'[i] = stack[i]
        /\ stack'[Len(stack) + 1] = [de |-> opening.dir, l |-> m]
  BY <1>1, FirstEntryFacts DEF IInv
<1>3. Items(m) = Items(opening) \ {v} /\ (v # opening.dir => v \in Items(opening))
  BY <1>1, <1>2, TakenFacts DEF IInv, ListerInv
<1>4. stack'[Len(stack) + 1].de = opening.dir /\ stack'[Len(stack) + 1].l = m
  BY <1>2
<1>5. opening' = None /\ UNCHANGED <<settings, lost, gone>>
  BY DEF FirstEntry, service
<1>6. \/ /\ v \in Dirs /\ nextDir' = IF v = opening.dir THEN None ELSE v
         /\ pc' = "loop" /\ UNCHANGED <<entry, out>>
      \/ /\ v \in Files /\ Emit(v) /\ nextDir' = None
  BY <1>1 DEF FirstEntry
<1>7. v \in Files => v # opening.dir
  BY <1>1, ListerFacts, TreeAssumption
<1>8. Emit(v) => Emitted(v)
  BY <1>1, EmitFacts DEF IInv
<1>9. Len(stack) \in Nat
  BY DEF IInv, Types
<1> QED
  BY <1>1, <1>2, <1>3, <1>4, <1>5, <1>6, <1>7, <1>8, <1>9

LEMMA OrderTopEntry ==
  ASSUME IInv, Types', PathInv', ListerInv', NEW v \in Entries, TopEntry(v)
  PROVE  OrderInv'
<1> DEFINE n == Len(stack)
<1>1. /\ AtTop /\ opening' = None
      /\ v = Top.l.dir \/ v \in Items(Top.l)
      /\ \/ nextDir' = (IF v = Top.l.dir THEN None ELSE v) /\ UNCHANGED <<entry, out>>
         \/ v # Top.l.dir /\ Emitted(v) /\ nextDir' = None
  BY TopEntryShape, AtTopFacts
<1>2. PICK m \in Listers : /\ TopSet([de |-> Top.de, l |-> m]) /\ m.dir = Top.l.dir
                           /\ Items(m) = Items(Top.l) \ {v}
  BY TopEntryShape
<1>3. /\ n \in Nat /\ n \in 1..n /\ Top = stack[n] /\ Top.l \in Listers /\ entry = None
      /\ Top.l.dir = Dir(n)
  BY <1>1, AtTopFacts
<1>4. \A o \in Returned : Clear(o)
  BY DEF IInv, OrderInv
<1>5. \A o \in Returned : Clear(o)'
  BY <1>1, <1>2, <1>4, ClearTop
<1>6. CASE entry' = entry /\ out' = out
  BY <1>5, <1>6, OrderSame
<1>7. CASE v # Top.l.dir /\ Emitted(v) /\ nextDir' = None
  <2>1. v \in Items(Top.l) /\ IsPrefix(Top.l.dir, v) /\ Len(v) = Len(Top.l.dir) + 1
    BY <1>1, <1>3, <1>7, ListerFacts
  <2>2. \A o \in Returned : ~IsPrefix(o, v)
    BY <1>3, <1>4, <2>1 DEF Clear, Apart
  <2>3. Len(v) = n
    <3>1. Len(Top.l.dir) = n - 1
      BY <1>3 DEF IInv, PathInv
    <3> QED
      BY <1>3, <2>1, <3>1
  <2>4. /\ Len(stack') = n /\ stack'[n].l = m
    BY <1>2 DEF TopSet
  <2>5. stack' # << >>
    BY <1>3, <2>4
  <2>6. Clear(v)'
    <3>1. LeafIsClear'
      BY LeafClear, PTL
    <3> QED
      BY <1>1, <1>2, <1>7, <2>1, <2>3, <2>4, <2>5, <3>1 DEF LeafIsClear, Dir
  <2> QED
    BY <1>3, <1>5, <1>7, <2>2, <2>6, OrderEmit
<1> QED
  BY <1>1, <1>6, <1>7

LEMMA OrderTopDone ==
  ASSUME IInv, Types', PathInv', ListerInv', TopDone
  PROVE  OrderInv'
<1> DEFINE n == Len(stack)
<1>1. AtTop /\ TopSet([de |-> None, l |-> Top.l]) /\ nextDir' = None /\ opening' = None
  BY TopDoneShape, AtTopFacts
<1>2. /\ n \in Nat /\ n \in 1..n /\ Top = stack[n] /\ Top.l \in Listers /\ entry = None
      /\ Top.l.dir = Dir(n) /\ Top.de = Dir(n) /\ Open(n) /\ Top.de \in Entries
  BY <1>1, AtTopFacts
<1>3. PICK v \in Entries : v = Top.de
  BY <1>2
<1>4. Emitted(v)
  BY <1>3, TopDoneShape
<1>5. \A o \in Returned : Clear(o)
  BY DEF IInv, OrderInv
<1>6. \A o \in Returned : Clear(o)'
  BY <1>1, <1>2, <1>5, ClearTop
<1>7. \A o \in Returned : ~IsPrefix(o, v)
  BY <1>2, <1>3, <1>5 DEF Clear
<1>8. Len(stack') = n /\ stack'[n].l = Top.l /\ stack'[n].de = None
  BY <1>1 DEF TopSet
<1>9. stack' # << >>
  BY <1>2, <1>8
<1>10. Clear(v)'
  <2>1. LeafIsClear'
    BY LeafClear, PTL
  <2>2. v = stack'[n].l.dir /\ IsPrefix(stack'[n].l.dir, v)
    BY <1>2, <1>3, <1>8, PrefixRefl
  <2> QED
    BY <1>1, <1>8, <1>9, <2>1, <2>2 DEF LeafIsClear, Dir, Open
<1> QED
  BY <1>2, <1>4, <1>6, <1>7, <1>10, OrderEmit

LEMMA OrderFirstEntry ==
  ASSUME IInv, Types', PathInv', ListerInv', NEW v \in Entries, FirstEntry(v)
  PROVE  OrderInv'
<1> DEFINE n == Len(stack)
<1>1. /\ opening # None /\ opening \in Listers /\ entry = None /\ n \in Nat /\ opening' = None
      /\ v = opening.dir \/ v \in Items(opening)
      /\ \/ nextDir' = (IF v = opening.dir THEN None ELSE v) /\ UNCHANGED <<entry, out>>
         \/ v # opening.dir /\ Emitted(v) /\ nextDir' = None
  BY FirstEntryShape
<1>2. PICK m \in Listers : /\ m.dir = opening.dir /\ Items(m) = Items(opening) \ {v}
                           /\ Len(stack') = n + 1 /\ stack'[n + 1].l = m
  BY FirstEntryShape
<1>3. \A o \in Returned : Clear(o)' /\ ~IsPrefix(o, v)
  BY ClearFirstEntry, ReturnedFacts DEF IInv, OrderInv, Apart
<1>4. CASE entry' = entry /\ out' = out
  BY <1>3, <1>4, OrderSame
<1>5. CASE v # opening.dir /\ Emitted(v) /\ nextDir' = None
  <2>1. v \in Items(opening) /\ IsPrefix(opening.dir, v) /\ Len(v) = Len(opening.dir) + 1
    BY <1>1, <1>5, ListerFacts
  <2>2. Len(v) = n + 1
    <3>1. Len(opening.dir) = n
      BY <1>1 DEF IInv, PathInv, Fits
    <3> QED
      BY <1>1, <2>1, <3>1
  <2>3. stack' # << >>
    BY <1>1, <1>2
  <2>4. Clear(v)'
    <3>1. LeafIsClear'
      BY LeafClear, PTL
    <3> QED
      BY <1>1, <1>2, <1>5, <2>1, <2>2, <2>3, <3>1 DEF LeafIsClear, Dir
  <2> QED
    BY <1>1, <1>3, <1>5, <2>4, OrderEmit
<1> QED
  BY <1>1, <1>4, <1>5

LEMMA StepOrder ==
  ASSUME IInv, [Next]_vars
  PROVE  OrderInv'
<1>1. Types' /\ PathInv' /\ ListerInv'
  BY StepTypes, StepWalk
<1>2. \A o \in Returned : Clear(o)
  BY DEF IInv, OrderInv
<1>3. CASE Quiet \/ ListSkips \/ FirstNone \/ StatNotFound \/ \E e \in Entries : RemoveEntry(e)
  <2>1. /\ stack' = stack /\ opening' \in {opening, None} /\ nextDir' = nextDir
        /\ entry' \in {entry, None} /\ out' = out
    BY <1>3 DEF Quiet, ListSkips, FirstNone, StatNotFound, RemoveEntry, lister
  <2> QED
    BY <1>2, <2>1, ClearSame, OrderSame
<1>4. CASE TakeDir \/ FirstPage \/ Pop
  <2>1. entry' = entry /\ out' = out
    BY <1>4 DEF TakeDir, FirstPage, Pop
  <2> QED
    BY <1>2, <1>4, <2>1, ClearTakeDir, ClearFirstPage, ClearPop, OrderSame
<1>5. CASE TopPage
  <2>1. AtTop /\ UNCHANGED <<nextDir, opening, entry, out>>
    BY <1>5, TopPageShape
  <2>2. opening' = None /\ nextDir' = None
    BY <2>1, AtTopFacts
  <2>3. PICK m \in Listers : /\ TopSet([de |-> Top.de, l |-> m]) /\ m.dir = Top.l.dir
                             /\ Items(m) \subseteq Items(Top.l)
    BY <1>5, TopPageShape
  <2>4. \A o \in Returned : Clear(o)'
    BY <1>2, <2>1, <2>2, <2>3, ClearTop
  <2> QED
    BY <2>1, <2>4, OrderSame
<1>6. CASE StatOk \/ DeleteOk
  <2>1. entry # None /\ entry \in Entries
    BY <1>6 DEF StatOk, DeleteOk, IInv, PcInv, Types
  <2>2. UNCHANGED <<nextDir, opening, stack>> /\ out' = Append(out, entry) /\ entry' = None
    BY <1>6 DEF StatOk, DeleteOk, lister
  <2>3. OnceNestedFirst' /\ ToSet(out') = ToSet(out) \cup {entry}
    BY <2>1, <2>2, OutAppend DEF IInv, OrderInv
  <2>4. Returned' = Returned
    BY <2>1, <2>2, <2>3 DEF Returned
  <2>5. \A o \in Returned : Clear(o)'
    BY <1>2, <2>2, ClearSame
  <2> QED
    BY <2>2, <2>3, <2>4, <2>5 DEF OrderInv
<1>7. CASE FailStep
  <2>1. CASE stack' = stack /\ nextDir' = nextDir /\ out' = out
    <3>1. opening' = None /\ entry' = None
      BY <1>7 DEF FailStep
    <3> QED
      BY <1>2, <2>1, <3>1, ClearSame, OrderSame
  <2>2. CASE out' = << >>
    <3>1. entry' = None /\ ToSet(out') = {} /\ DOMAIN out' = {}
      BY <1>7, <2>2 DEF FailStep, ToSet
    <3> QED
      BY <3>1 DEF OrderInv, OnceNestedFirst, Returned
  <2> QED
    BY <1>7, <2>1, <2>2 DEF FailStep
<1> QED
  BY <1>1, <1>3, <1>4, <1>5, <1>6, <1>7, StepKinds, OrderTopEntry, OrderTopDone, OrderFirstEntry

---------------------------------------------------------------------------
(* Nothing is left out. *)

LEMMA WantedFacts == \A w : w \in Wanted <=> w \in Entries /\ IsWanted(w)
BY DEF Wanted, IsWanted

\* An entry that is handed out is returned, held or filtered.
LEMMA EmitCovers ==
  ASSUME Types, NEW v \in Entries, Emitted(v)
  PROVE  /\ ToSet(out) \subseteq ToSet(out')
         /\ IsWanted(v) => v \in ToSet(out') \/ entry' = v
         /\ pc' # "errored"
<1>1. out' = Append(out, v) => ToSet(out) \subseteq ToSet(out') /\ v \in ToSet(out')
  <2>1. /\ DOMAIN Append(out, v) = 1..(Len(out) + 1) /\ DOMAIN out = 1..Len(out) /\ Len(out) \in Nat
        /\ \A i \in 1..Len(out) : Append(out, v)[i] = out[i]
        /\ Append(out, v)[Len(out) + 1] = v
    BY DEF Types
  <2> QED
    BY <2>1 DEF ToSet
<1> QED
  BY <1>1 DEF Emitted

\* Steps that leave the open directories alone.
LEMMA CoverStay ==
  ASSUME NEW w, Covered(w), stack' = stack, gone \subseteq gone', lost \subseteq lost',
         ToSet(out) \subseteq ToSet(out'),
         opening # None /\ IsPrefix(opening.dir, w) => Covered(w)',
         nextDir # None /\ IsPrefix(nextDir, w) => Covered(w)',
         w = entry => Covered(w)'
  PROVE  Covered(w)'
<1>1. CASE w \in ToSet(out) \/ Excused(w)
  BY <1>1 DEF Covered, Excused
<1>2. CASE \E i \in 1..Len(stack) : From(stack[i], w)
  BY <1>2 DEF Covered, Coming
<1> QED
  BY <1>1, <1>2 DEF Covered, Coming

\* Steps at the top of the stack: what its lister does not hand out any more
\* is covered otherwise.
LEMMA CoverTop ==
  ASSUME IInv, AtTop, NEW w \in Entries, Covered(w), NEW m, NEW de,
         TopSet([de |-> de, l |-> m]), gone' = gone, lost' = lost,
         ToSet(out) \subseteq ToSet(out'),
         w = Top.de => de = Top.de \/ Covered(w)',
         \A c \in Items(Top.l) : IsPrefix(c, w) => c \in Items(m) \/ Covered(w)'
  PROVE  Covered(w)'
<1> DEFINE n == Len(stack)
<1>1. /\ n \in Nat /\ n \in 1..n /\ Top = stack[n] /\ opening = None /\ nextDir = None /\ entry = None
  BY AtTopFacts
<1>2. /\ Len(stack') = n /\ \A i \in 1..n : i < n => stack'[i] = stack[i]
      /\ stack'[n].de = de /\ stack'[n].l = m
  BY DEF TopSet
<1>3. CASE w \in ToSet(out) \/ Excused(w)
  BY <1>3 DEF Covered, Excused
<1>4. ASSUME NEW i \in 1..n, From(stack[i], w) PROVE Covered(w)'
  <2>1. CASE i < n
    BY <1>2, <1>4, <2>1 DEF Covered, Coming
  <2>2. CASE i = n
    <3>1. w = Top.de \/ \E c \in Items(Top.l) : IsPrefix(c, w)
      BY <1>1, <1>4, <2>2 DEF From
    <3>2. Covered(w)' \/ w = de \/ \E c \in Items(m) : IsPrefix(c, w)
      BY <3>1
    <3>3. Covered(w)' \/ From(stack'[n], w)
      BY <1>2, <3>2 DEF From
    <3> QED
      BY <1>1, <1>2, <3>3 DEF Covered, Coming
  <2> QED
    BY <1>1, <2>1, <2>2
<1>5. w # None
  BY TreeAssumption
<1> QED
  BY <1>1, <1>3, <1>4, <1>5 DEF Covered, Coming

\* A file, or a directory to turn to, that the top hands out.
LEMMA CoverTopEntry ==
  ASSUME IInv, NEW v \in Entries, TopEntry(v), NEW w \in Wanted, Covered(w)
  PROVE  Covered(w)'
<1>1. /\ AtTop /\ gone' = gone /\ lost' = lost
      /\ v = Top.l.dir \/ v \in Items(Top.l)
      /\ \/ nextDir' = (IF v = Top.l.dir THEN None ELSE v) /\ out' = out
         \/ v \in Files /\ Emitted(v)
  BY TopEntryShape
<1>2. PICK m \in Listers : /\ TopSet([de |-> Top.de, l |-> m])
                           /\ Items(m) = Items(Top.l) \ {v}
  BY TopEntryShape
<1>3. w \in Entries /\ IsWanted(w)
  BY WantedFacts
<1>4. ToSet(out) \subseteq ToSet(out')
  BY <1>1, EmitCovers DEF IInv
<1>5. ASSUME v \in Items(Top.l), IsPrefix(v, w) PROVE Covered(w)'
  <2>1. v # Top.l.dir /\ v # None
    BY <1>5, TreeAssumption DEF Items
  <2>2. CASE nextDir' = v
    BY <1>5, <2>1, <2>2 DEF Covered, Coming
  <2>3. CASE v \in Files /\ Emitted(v)
    <3>1. w = v
      BY <1>3, <1>5, <2>3, FileLeaf
    <3>2. w \in ToSet(out') \/ w = entry'
      BY <1>3, <2>3, <3>1, EmitCovers DEF IInv
    <3> QED
      BY <3>2 DEF Covered, Coming
  <2> QED
    BY <1>1, <2>1, <2>2, <2>3
<1>6. \A c \in Items(Top.l) : IsPrefix(c, w) => c \in Items(m) \/ Covered(w)'
  BY <1>2, <1>5
<1> QED
  BY <1>1, <1>2, <1>3, <1>4, <1>6, CoverTop

LEMMA CoverTopPage ==
  ASSUME IInv, TopPage, NEW w \in Wanted, Covered(w)
  PROVE  Covered(w)'
<1>1. AtTop /\ gone' = gone /\ lost' = lost /\ out' = out
  BY TopPageShape
<1>2. PICK m \in Listers : /\ TopSet([de |-> Top.de, l |-> m])
                           /\ \A c \in Items(Top.l) : c \in Items(m) \/ c \in gone
  BY TopPageShape
<1>3. w \in Entries
  BY WantedFacts
<1>4. ASSUME NEW c \in Items(Top.l), IsPrefix(c, w), c \in gone PROVE Covered(w)'
  BY <1>1, <1>3, <1>4, UnderMember DEF IInv, GoneInv, Covered, Excused
<1> QED
  BY <1>1, <1>2, <1>3, <1>4, CoverTop

LEMMA CoverTopDone ==
  ASSUME IInv, TopDone, NEW w \in Wanted, Covered(w)
  PROVE  Covered(w)'
<1>1. /\ AtTop /\ gone' = gone /\ lost' = lost /\ TopSet([de |-> None, l |-> Top.l])
      /\ Emitted(Top.de) /\ Top.de \in Entries
  BY TopDoneShape, AtTopFacts
<1>2. w \in Entries /\ IsWanted(w)
  BY WantedFacts
<1>3. PICK v \in Entries : v = Top.de
  BY <1>1
<1>4. ToSet(out) \subseteq ToSet(out') /\ (w = v => w \in ToSet(out') \/ w = entry')
  BY <1>1, <1>2, <1>3, EmitCovers DEF IInv
<1>5. w = Top.de => Covered(w)'
  BY <1>3, <1>4 DEF Covered, Coming
<1> QED
  BY <1>1, <1>2, <1>4, <1>5, CoverTop

LEMMA CoverPop ==
  ASSUME IInv, Pop, NEW w \in Wanted, Covered(w)
  PROVE  Covered(w)'
<1> DEFINE n == Len(stack)
<1>1. /\ stack # << >> /\ Top.de = None
      /\ UNCHANGED <<nextDir, opening, entry, out, lost, gone>>
  BY DEF Pop, service
<1>2. n \in Nat /\ n \in 1..n /\ Top = stack[n]
  BY <1>1, TopFacts DEF IInv
<1>3. Len(stack') = n - 1 /\ \A i \in 1..(n - 1) : stack'[i] = stack[i]
  BY PopFacts DEF IInv, Types, Pop
<1>4. w # None
  BY WantedFacts, TreeAssumption
<1>5. ~From(stack[n], w)
  BY <1>1, <1>2, <1>4 DEF IInv, ListerInv, From, Open
<1>6. CASE \E i \in 1..n : From(stack[i], w)
  <2>1. PICK i \in 1..n : From(stack[i], w)
    BY <1>6
  <2>2. i \in 1..(n - 1)
    BY <1>2, <1>5, <2>1
  <2> QED
    BY <1>3, <2>1, <2>2 DEF Covered, Coming
<1> QED
  BY <1>1, <1>6 DEF Covered, Coming, Excused

LEMMA CoverFirstEntry ==
  ASSUME IInv, NEW v \in Entries, FirstEntry(v), NEW w \in Wanted, Covered(w)
  PROVE  Covered(w)'
<1> DEFINE n == Len(stack)
           d == opening.dir
<1>1. /\ opening # None /\ opening \in Listers /\ nextDir = None /\ entry = None /\ n \in Nat
      /\ gone' = gone /\ lost' = lost
      /\ \/ nextDir' = (IF v = d THEN None ELSE v) /\ out' = out
         \/ v \in Files /\ Emitted(v)
  BY FirstEntryShape
<1>2. PICK m \in Listers : /\ Items(m) = Items(opening) \ {v}
                           /\ Len(stack') = n + 1
                           /\ \A i \in 1..n : stack'[i] = stack[i]
                           /\ stack'[n + 1].de = d /\ stack'[n + 1].l = m
  BY FirstEntryShape
<1>3. w \in Entries /\ IsWanted(w) /\ w # None /\ d \in Entries
  BY <1>1, WantedFacts, ListerFacts, TreeAssumption
<1>4. ToSet(out) \subseteq ToSet(out')
  BY <1>1, EmitCovers DEF IInv
<1>5. n + 1 \in 1..Len(stack') /\ \A i \in 1..n : i \in 1..Len(stack')
  BY <1>1, <1>2
<1>6. CASE w \in ToSet(out) \/ Excused(w)
  BY <1>1, <1>4, <1>6 DEF Covered, Excused
<1>7. CASE \E i \in 1..n : From(stack[i], w)
  BY <1>2, <1>5, <1>7 DEF Covered, Coming
<1>8. ASSUME NEW c \in Items(opening), IsPrefix(c, w) PROVE Covered(w)'
  <2>1. CASE c # v
    <3>1. c \in Items(stack'[n + 1].l)
      BY <1>2, <2>1
    <3> QED
      BY <1>5, <1>8, <3>1 DEF Covered, Coming, From
  <2>2. CASE c = v /\ nextDir' = (IF v = d THEN None ELSE v)
    <3>1. v # d /\ v # None
      BY <2>2, TreeAssumption DEF Items
    <3> QED
      BY <1>8, <2>2, <3>1 DEF Covered, Coming
  <2>3. CASE c = v /\ v \in Files /\ Emitted(v)
    <3>1. w = v
      BY <1>3, <1>8, <2>3, FileLeaf
    <3>2. w \in ToSet(out') \/ w = entry'
      BY <1>3, <2>3, <3>1, EmitCovers DEF IInv
    <3> QED
      BY <3>2 DEF Covered, Coming
  <2> QED
    BY <1>1, <2>1, <2>2, <2>3
<1>9. CASE IsPrefix(d, w)
  <2>1. CASE w = d
    BY <1>2, <1>5, <2>1 DEF Covered, Coming, From
  <2>2. CASE w # d
    <3>1. PICK c \in Children(d) : IsPrefix(c, w)
      BY <1>3, <1>9, <2>2, BelowChild
    <3>2. c \in Entries /\ c # d
      BY <1>3, <3>1, ChildPath, EntryPath DEF Children
    <3>3. c \in opening.buf \cup opening.rest /\ (opening.done => opening.rest \subseteq gone)
      BY <1>1, <3>1 DEF IInv, ListerInv
    <3>4. c \in Items(opening) \/ c \in gone
      BY <3>2, <3>3 DEF Items
    <3>5. c \in gone => w \in gone
      BY <1>3, <3>1, UnderMember DEF IInv, GoneInv
    <3> QED
      BY <1>1, <1>8, <3>1, <3>4, <3>5 DEF Covered, Excused
  <2> QED
    BY <2>1, <2>2
<1> QED
  BY <1>1, <1>3, <1>6, <1>7, <1>9 DEF Covered, Coming

\* Steps on the directory that is being opened.
LEMMA CoverOpening ==
  ASSUME IInv, TakeDir \/ ListSkips \/ FirstPage \/ FirstNone, NEW w \in Wanted, Covered(w)
  PROVE  Covered(w)'
<1>1. w \in Entries
  BY WantedFacts
<1>2. UNCHANGED <<stack, entry, out, lost, gone>>
  BY DEF TakeDir, ListSkips, FirstPage, FirstNone, service
<1>3. w = entry => Covered(w)'
  BY <1>2 DEF Covered, Coming
<1>4. CASE TakeDir
  <2>1. nextDir \in Dirs /\ nextDir # None /\ opening' = NewLister(nextDir) /\ opening = None
    BY <1>4 DEF TakeDir, IInv, Types, PcInv
  <2>2. opening'.dir = nextDir /\ opening' # None
    BY <2>1, NewListerFacts, ListerFacts
  <2>3. IsPrefix(nextDir, w) => Covered(w)'
    BY <2>2 DEF Covered, Coming
  <2> QED
    BY <1>2, <1>3, <2>1, <2>3, CoverStay
<1>5. CASE ListSkips
  <2>1. opening.dir \in Denied \cup gone /\ nextDir' = nextDir
    BY <1>5 DEF ListSkips
  <2>2. IsPrefix(opening.dir, w) => Excused(w)
    BY <1>1, <2>1, UnderMember DEF IInv, GoneInv, Excused
  <2>3. IsPrefix(opening.dir, w) => Covered(w)'
    BY <1>2, <2>2 DEF Covered, Excused
  <2>4. nextDir # None /\ IsPrefix(nextDir, w) => Covered(w)'
    BY <2>1 DEF Covered, Coming
  <2> QED
    BY <1>2, <1>3, <2>3, <2>4, CoverStay
<1>6. CASE FirstPage
  <2>1. opening \in Listers /\ opening # None /\ nextDir' = nextDir
    BY <1>6 DEF FirstPage, IInv, PcInv, Types
  <2>2. opening' \in Listers /\ opening'.dir = opening.dir
    BY <1>6, <2>1, PageFacts DEF FirstPage, IInv, ListerInv
  <2>3. opening' # None
    BY <2>2, ListerFacts
  <2>4. IsPrefix(opening.dir, w) => Covered(w)'
    BY <2>2, <2>3 DEF Covered, Coming
  <2>5. nextDir # None /\ IsPrefix(nextDir, w) => Covered(w)'
    BY <2>1 DEF Covered, Coming
  <2> QED
    BY <1>2, <1>3, <2>4, <2>5, CoverStay
<1>7. CASE FirstNone
  <2>1. pc = "first" /\ opening # None /\ opening.buf = {} /\ opening.done /\ nextDir' = nextDir
    BY <1>7 DEF FirstNone, IInv, PcInv
  <2>2. opening.dir \in gone
    BY <2>1 DEF IInv, ListerInv
  <2>3. IsPrefix(opening.dir, w) => Excused(w)
    BY <1>1, <2>2, UnderMember DEF IInv, GoneInv, Excused
  <2>4. IsPrefix(opening.dir, w) => Covered(w)'
    BY <1>2, <2>3 DEF Covered, Excused
  <2>5. nextDir # None /\ IsPrefix(nextDir, w) => Covered(w)'
    BY <2>1 DEF Covered, Coming
  <2> QED
    BY <1>2, <1>3, <2>4, <2>5, CoverStay
<1> QED
  BY <1>4, <1>5, <1>6, <1>7

\* Steps on the entry that is held, and of another client.
LEMMA CoverHeld ==
  ASSUME IInv, StatOk \/ DeleteOk \/ StatNotFound \/ Quiet \/ \E e \in Entries : RemoveEntry(e),
         NEW w \in Wanted, Covered(w)
  PROVE  Covered(w)'
<1>1. UNCHANGED <<stack, opening, nextDir, lost>> /\ gone \subseteq gone'
  BY DEF StatOk, DeleteOk, StatNotFound, Quiet, RemoveEntry, lister, service
<1>2. /\ opening # None /\ IsPrefix(opening.dir, w) => Covered(w)'
      /\ nextDir # None /\ IsPrefix(nextDir, w) => Covered(w)'
  BY <1>1 DEF Covered, Coming
<1>3. CASE StatOk \/ DeleteOk
  <2>1. entry # None /\ entry \in Entries /\ out' = Append(out, entry)
    BY <1>3 DEF StatOk, DeleteOk, IInv, PcInv, Types
  <2>2. ToSet(out') = ToSet(out) \cup {entry}
    BY <2>1, OutAppend DEF IInv, OrderInv
  <2>3. w = entry => Covered(w)'
    BY <2>2 DEF Covered
  <2> QED
    BY <1>1, <1>2, <2>2, <2>3, CoverStay
<1>4. CASE StatNotFound
  <2>1. out' = out /\ entry \in gone
    BY <1>4 DEF StatNotFound
  <2>2. w = entry => Covered(w)'
    BY <1>1, <2>1 DEF Covered, Excused
  <2> QED
    BY <1>1, <1>2, <2>1, <2>2, CoverStay
<1>5. CASE Quiet \/ \E e \in Entries : RemoveEntry(e)
  <2>1. out' = out /\ entry' = entry
    BY <1>5 DEF Quiet, RemoveEntry
  <2>2. w = entry => Covered(w)'
    BY <2>1 DEF Covered, Coming
  <2> QED
    BY <1>1, <1>2, <2>1, <2>2, CoverStay
<1> QED
  BY <1>3, <1>4, <1>5

LEMMA CoverFail ==
  ASSUME IInv, FailStep, pc' # "errored", NEW w \in Wanted, Covered(w)
  PROVE  Covered(w)'
<1>1. w \in Entries
  BY WantedFacts
<1>2. CASE mode = "list" /\ UNCHANGED <<nextDir, stack, out>> /\ lost \subseteq lost'
           /\ (opening # None => Under(opening.dir) \subseteq lost')
           /\ (entry # None => entry \in lost')
  <2>1. gone' = gone /\ nextDir = None
    BY DEF FailStep
  <2>2. opening # None /\ IsPrefix(opening.dir, w) => Covered(w)'
    BY <1>1, <1>2, UnderMember DEF Covered, Excused
  <2>3. w = entry => Covered(w)'
    BY <1>1, <1>2, TreeAssumption DEF Covered, Excused
  <2> QED
    BY <1>2, <2>1, <2>2, <2>3, CoverStay
<1>3. CASE nextDir' = Root
  BY <1>1, <1>3, RootAbove, RootPath, TreeAssumption DEF Covered, Coming
<1> QED
  BY <1>2, <1>3 DEF FailStep

\* A lister that failed for good stays so.
LEMMA StepSettings ==
  ASSUME [Next]_vars, pc' # "errored"
  PROVE  mode' = mode /\ prefixed' = prefixed /\ pc # "errored"
BY DEF Next, Step, Failing, vars, settings, AtTop, TakeDir, ListOk, ListSkips, FirstPage, FirstNotFound,
   FirstNone, Ends, Pop, TopPage, TopNotFound, TopDone, FirstEntry, TopEntry, ListFails,
   FirstFails, TopFails, StatFails, DeleteFails, StatOk, StatNotFound, DeleteOk,
   DeleteNotEmpty, UserNext, RemoveEntry

LEMMA StepCover ==
  ASSUME IInv, [Next]_vars
  PROVE  CoverInv'
<1> SUFFICES ASSUME pc' # "errored", NEW w \in Wanted' PROVE Covered(w)'
  BY DEF CoverInv
<1>1. mode' = mode /\ prefixed' = prefixed /\ pc # "errored"
  BY StepSettings
<1>2. w \in Wanted
  BY <1>1 DEF Wanted
<1>4. Covered(w)
  BY <1>1, <1>2 DEF IInv, CoverInv
<1> QED
  BY <1>2, <1>4, StepKinds, CoverOpening, CoverHeld, CoverFail, CoverPop, CoverTopPage, CoverTopDone,
     CoverTopEntry, CoverFirstEntry

---------------------------------------------------------------------------
(* The recursive delete. *)

\* A step of a recursive delete, and what is known before it.
Deletes ==
  /\ mode = "delete" /\ prefixed' = prefixed
  /\ lost = {} /\ ToSet(out) \subseteq gone
  /\ \A i \in 1..Len(stack) : Emptied(i)
  /\ entry # None => \A c \in Children(entry) : Settled(c)
  /\ RootDeleted

LEMMA SettledStays == ASSUME NEW c, Settled(c), gone \subseteq gone' PROVE Settled(c)'
BY DEF Settled

LEMMA GoneSettled == ASSUME GoneInv, NEW c \in gone, gone' = gone PROVE Settled(c) /\ Settled(c)'
BY DEF Settled, GoneInv

\* The prefix that is listed holds for all of a directory.
LEMMA WantedBelow ==
  ASSUME NEW d \in Entries, NEW c \in Entries, IsPrefix(d, c), IsWanted(d)
  PROVE  IsWanted(c)
BY UnderMember, TreeAssumption DEF IsWanted

LEMMA ChildFacts ==
  ASSUME NEW d \in Entries, NEW c \in Children(d)
  PROVE  c \in Entries /\ c # None /\ IsPrefix(d, c) /\ Len(c) = Len(d) + 1 /\ c # d
<1>1. c \in Entries
  BY DEF Children
<1>2. IsPrefix(d, c) /\ Len(c) = Len(d) + 1
  BY <1>1, ChildPath
<1> QED
  BY <1>1, <1>2, EntryPath, TreeAssumption

LEMMA FileChildren == \A f \in Files : Children(f) = {}
<1> SUFFICES ASSUME NEW f \in Files, NEW c \in Children(f) PROVE FALSE
  OBVIOUS
<1>1. f \in Entries
  BY DEF Entries
<1> QED
  BY <1>1, ChildFacts, FileLeaf

\* Steps that leave the open directories alone.
LEMMA EmptiedStays ==
  ASSUME IInv, Deletes, stack' = stack, gone \subseteq gone',
         \A c \in Entries : stack # << >> /\ Turning(c) => Turning(c)' \/ Settled(c)',
         entry \in Entries => entry' = entry \/ entry \in gone'
  PROVE  \A i \in 1..Len(stack') : Emptied(i)'
<1> SUFFICES ASSUME NEW i \in 1..Len(stack) PROVE Emptied(i)'
  OBVIOUS
<1> DEFINE d == stack[i].l.dir
<1>1. d = Dir(i) /\ d \in Entries /\ stack # << >>
  BY StackFacts DEF IInv
<1>2. IsWanted(d)' <=> IsWanted(d)
  BY DEF Deletes, IsWanted
<1>3. ASSUME IsWanted(d), stack[i].de # None, NEW c \in Children(d) PROVE Settled(c)' \/ Awaited(i, c)'
  <2>1. Settled(c) \/ Awaited(i, c)
    BY <1>1, <1>3 DEF Deletes, Emptied, Open
  <2>2. c \in Entries
    BY <1>1, <1>3, ChildFacts
  <2>3. CASE Settled(c)
    BY <2>3, SettledStays
  <2>4. CASE Awaited(i, c)
    BY <1>1, <2>2, <2>4 DEF Awaited, Dir, Items
  <2> QED
    BY <2>1, <2>3, <2>4
<1>4. ASSUME IsWanted(d), stack[i].de = None PROVE entry' = d \/ d \in gone'
  <2>1. entry = d \/ d \in gone
    BY <1>1, <1>4 DEF Deletes, Emptied, Open
  <2> QED
    BY <1>1, <2>1
<1>5. Dir(i)' = d /\ (Open(i)' <=> stack[i].de # None)
  BY DEF Dir, Open
<1> QED
  BY <1>2, <1>3, <1>4, <1>5 DEF Emptied

\* Steps at the top of the stack.
LEMMA EmptiedTop ==
  ASSUME IInv, Deletes, AtTop, NEW m \in Listers, m.dir = Top.l.dir, NEW de \in {Top.de, None},
         TopSet([de |-> de, l |-> m]), gone' = gone,
         IsWanted(Top.l.dir) /\ de # None =>
           \A c \in Items(Top.l) : c \in Items(m) \/ Turning(c)' \/ Settled(c),
         IsWanted(Top.l.dir) /\ de = None => entry' = Top.l.dir
  PROVE  \A i \in 1..Len(stack') : Emptied(i)'
<1> DEFINE n == Len(stack)
<1>1. /\ n \in Nat /\ n \in 1..n /\ Top = stack[n] /\ Top.de # None
      /\ opening = None /\ nextDir = None /\ entry = None
  BY AtTopFacts
<1>2. /\ Len(stack') = n /\ \A i \in 1..n : i < n => stack'[i] = stack[i]
      /\ stack'[n].de = de /\ stack'[n].l = m
  BY DEF TopSet
<1>3. \A i \in 1..n : /\ stack'[i].l.dir = stack[i].l.dir /\ Dir(i) = stack[i].l.dir
                      /\ Dir(i) \in Entries
  BY <1>1, <1>2, StackFacts DEF IInv
<1>4. prefixed' = prefixed
  BY DEF Deletes
<1> SUFFICES ASSUME NEW i \in 1..n PROVE Emptied(i)'
  BY <1>2
<1>5. CASE i < n
  <2>1. stack'[i] = stack[i] /\ i + 1 \in 1..n
    BY <1>1, <1>2, <1>5
  <2>2. ASSUME IsWanted(Dir(i)), stack[i].de # None, NEW c \in Children(Dir(i))
        PROVE  Settled(c)' \/ c \in Items(stack'[i].l) \/ c = stack'[i + 1].l.dir
    <3>1. Settled(c) \/ Awaited(i, c)
      BY <2>2 DEF Deletes, Emptied, Open
    <3>2. Settled(c) => Settled(c)'
      BY SettledStays
    <3>3. stack'[i + 1].l.dir = Dir(i + 1)
      BY <1>3, <2>1
    <3> QED
      BY <1>1, <1>5, <2>1, <3>1, <3>2, <3>3 DEF Awaited
  <2>3. ASSUME IsWanted(Dir(i)), stack[i].de = None PROVE Dir(i) \in gone
    BY <1>1, <1>3, <2>3, TreeAssumption DEF Deletes, Emptied, Open
  <2> QED
    BY <1>1, <1>2, <1>3, <1>4, <1>5, <2>1, <2>2, <2>3 DEF Emptied, Open, Dir, Awaited, IsWanted
<1>6. CASE i = n
  <2>1. ASSUME IsWanted(Dir(n)), de # None, NEW c \in Children(Dir(n))
        PROVE  Settled(c)' \/ c \in Items(m) \/ Turning(c)'
    <3>1. Settled(c) \/ Awaited(n, c)
      BY <1>1, <2>1 DEF Deletes, Emptied, Open
    <3>2. c # None
      BY <1>1, <1>3, <2>1, ChildFacts
    <3>3. Settled(c) \/ c \in Items(Top.l)
      BY <1>1, <3>1, <3>2 DEF Awaited, Turning
    <3>4. Settled(c) => Settled(c)'
      BY SettledStays
    <3> QED
      BY <1>1, <1>3, <2>1, <3>3, <3>4
  <2>2. ASSUME IsWanted(Dir(n)), de = None PROVE entry' = Dir(n)
    BY <1>1, <1>3, <2>2
  <2>3. n \in 1..n /\ stack'[n].l.dir = stack[n].l.dir
    BY <1>1, <1>3
  <2> QED
    BY <1>1, <1>2, <1>3, <1>4, <1>6, <2>1, <2>2, <2>3 DEF Emptied, Open, Dir, Awaited, IsWanted
<1> QED
  BY <1>1, <1>5, <1>6

LEMMA EmptiedFirstEntry ==
  ASSUME IInv, Deletes, NEW v \in Entries, FirstEntry(v)
  PROVE  \A i \in 1..Len(stack') : Emptied(i)'
<1> DEFINE n == Len(stack)
<1>1. PICK d \in Entries : d = opening.dir
  BY FirstEntryShape, ListerFacts
<1>2. /\ opening # None /\ opening \in Listers /\ nextDir = None /\ entry = None /\ n \in Nat
      /\ gone' = gone /\ prefixed' = prefixed
      /\ \/ nextDir' = (IF v = d THEN None ELSE v)
         \/ v \in Files /\ Emitted(v)
  BY <1>1, FirstEntryShape DEF Deletes
<1>3. PICK m \in Listers : /\ m.dir = d /\ Items(m) = Items(opening) \ {v}
                           /\ Len(stack') = n + 1
                           /\ \A i \in 1..n : stack'[i] = stack[i]
                           /\ stack'[n + 1].de = d /\ stack'[n + 1].l = m
  BY <1>1, FirstEntryShape
<1>4. \A i \in 1..n : Dir(i) = stack[i].l.dir /\ Dir(i) \in Entries
  BY StackFacts DEF IInv
<1> SUFFICES ASSUME NEW i \in 1..(n + 1) PROVE Emptied(i)'
  BY <1>3
<1>5. CASE i \in 1..n
  <2>1. stack'[i] = stack[i] /\ (i < n => i + 1 \in 1..n /\ stack'[i + 1] = stack[i + 1]) /\ i < n + 1
    BY <1>2, <1>3, <1>5
  <2>2. ASSUME IsWanted(Dir(i)), stack[i].de # None, NEW c \in Children(Dir(i))
        PROVE  Settled(c)' \/ c \in Items(stack'[i].l) \/ c = stack'[i + 1].l.dir
    <3>1. Settled(c) \/ Awaited(i, c)
      BY <1>5, <2>2 DEF Deletes, Emptied, Open
    <3>2. Settled(c) => Settled(c)'
      BY <1>2, SettledStays
    <3>3. c # None
      BY <1>4, <1>5, <2>2, ChildFacts
    <3>4. CASE i < n /\ c = Dir(i + 1)
      BY <1>4, <2>1, <3>4
    <3>5. CASE i = n /\ Turning(c)
      BY <1>1, <1>2, <1>3, <3>3, <3>5 DEF Turning
    <3> QED
      BY <2>1, <3>1, <3>2, <3>4, <3>5 DEF Awaited
  <2>3. ASSUME IsWanted(Dir(i)), stack[i].de = None PROVE Dir(i) \in gone
    BY <1>2, <1>4, <1>5, <2>3, TreeAssumption DEF Deletes, Emptied, Open
  <2> QED
    BY <1>2, <1>3, <1>4, <1>5, <2>1, <2>2, <2>3 DEF Emptied, Open, Dir, Awaited, IsWanted
<1>6. CASE i = n + 1
  <2>1. ASSUME IsWanted(d), NEW c \in Children(d) PROVE Settled(c)' \/ c \in Items(m) \/ Turning(c)'
    <3>1. c \in Entries /\ c # d /\ IsPrefix(d, c) /\ c # None
      BY <2>1, ChildFacts
    <3>2. c \in opening.buf \cup opening.rest /\ (opening.done => opening.rest \subseteq gone)
      BY <1>1, <1>2, <2>1 DEF IInv, ListerInv
    <3>3. c \in Items(opening) \/ c \in gone
      BY <1>1, <3>1, <3>2 DEF Items
    <3>4. c \in gone => Settled(c)'
      BY <1>2, GoneSettled DEF IInv
    <3>5. CASE c = v /\ nextDir' = (IF v = d THEN None ELSE v)
      BY <3>1, <3>5 DEF Turning
    <3>6. CASE c = v /\ v \in Files /\ Emitted(v)
      <4>1. IsWanted(v)
        BY <2>1, <3>1, <3>6, WantedBelow
      <4> QED
        BY <3>6, <4>1 DEF Emitted, Deletes, Turning
    <3> QED
      BY <1>2, <1>3, <3>3, <3>4, <3>5, <3>6
  <2>2. d # None
    BY TreeAssumption
  <2> QED
    BY <1>2, <1>3, <1>6, <2>1, <2>2 DEF Emptied, Open, Dir, Awaited, IsWanted
<1> QED
  BY <1>2, <1>5, <1>6

LEMMA EmptiedPop ==
  ASSUME IInv, Deletes, Pop
  PROVE  (\A i \in 1..Len(stack') : Emptied(i)') /\ RootDeleted'
<1> DEFINE n == Len(stack)
<1>1. /\ stack # << >> /\ Top.de = None /\ pc = "loop"
      /\ UNCHANGED <<nextDir, opening, entry, gone, prefixed>>
  BY DEF Pop, service, settings
<1>2. n \in Nat /\ n >= 1 /\ n \in 1..n /\ ~Open(n)
  BY <1>1, TopFacts DEF IInv, Open
<1>3. Len(stack') = n - 1 /\ \A i \in 1..(n - 1) : stack'[i] = stack[i] /\ i \in 1..n /\ i < n
  <2>1. Len(stack') = n - 1 /\ \A i \in 1..Len(stack') : stack'[i] = stack[i]
    BY PopFacts DEF IInv, Types, Pop
  <2>2. \A i \in 1..(n - 1) : i \in 1..n /\ i < n
    BY <1>2
  <2> QED
    BY <2>1, <2>2
<1>4. entry = None
  BY <1>1 DEF IInv, PcInv
<1>5. \A i \in 1..n : Dir(i) = stack[i].l.dir /\ Dir(i) \in Entries /\ Dir(i) # None
  BY StackFacts DEF IInv
\* The directory that was returned last is gone.
<1>6. IsWanted(Dir(n)) => Dir(n) \in gone
  BY <1>2, <1>4, <1>5 DEF Deletes, Emptied
<1>7. ASSUME NEW i \in 1..(n - 1) PROVE Emptied(i)'
  <2>1. stack'[i] = stack[i] /\ i \in 1..n /\ i < n /\ i + 1 \in 1..n
    BY <1>2, <1>3
  <2>2. ASSUME IsWanted(Dir(i)), stack[i].de # None, NEW c \in Children(Dir(i))
        PROVE  \/ Settled(c)' \/ c \in Items(stack'[i].l)
               \/ i < n - 1 /\ c = stack'[i + 1].l.dir
    <3>1. Settled(c) \/ Awaited(i, c)
      BY <2>1, <2>2 DEF Deletes, Emptied, Open
    <3>2. Settled(c) => Settled(c)'
      BY <1>1, SettledStays
    <3>3. CASE c = Dir(i + 1) /\ i + 1 = n
      <4>1. IsWanted(Dir(n))
        BY <1>2, <1>5, <2>1, <2>2, <3>3, ChildFacts, WantedBelow
      <4> QED
        BY <1>1, <1>6, <3>3, <4>1, GoneSettled DEF IInv
    <3>4. CASE c = Dir(i + 1) /\ i + 1 # n
      <4>1. i < n - 1 /\ i + 1 \in 1..(n - 1)
        BY <1>2, <2>1, <3>4
      <4> QED
        BY <1>3, <1>5, <2>1, <3>4, <4>1
    <3> QED
      BY <1>2, <2>1, <3>1, <3>2, <3>3, <3>4 DEF Awaited
  <2>3. ASSUME IsWanted(Dir(i)), stack[i].de = None PROVE Dir(i) \in gone
    BY <1>4, <1>5, <2>1, <2>3 DEF Deletes, Emptied, Open
  <2>4. stack'[i].l.dir = Dir(i) /\ stack[i].l.dir = Dir(i)
    BY <1>5, <2>1
  <2> QED
    BY <1>1, <1>3, <2>1, <2>2, <2>3, <2>4 DEF Emptied, Open, Dir, Awaited, IsWanted
<1>8. RootDeleted'
  <2> SUFFICES ASSUME stack' = << >>, ~prefixed PROVE Root \in gone
    BY <1>1 DEF RootDeleted
  <2>1. n = 1
    BY <1>2, <1>3
  <2>2. Len(Dir(n)) = 0
    BY <1>2, <2>1 DEF IInv, PathInv
  <2>3. Dir(n) = Root
    BY <1>2, <1>5, <2>2, RootPath, RootAbove, PrefixLength
  <2> QED
    BY <1>6, <2>3 DEF IsWanted
<1> QED
  BY <1>3, <1>7, <1>8

\* A directory that is not opened after all: it may not be listed, or it is
\* gone.
LEMMA EmptiedSkip ==
  ASSUME IInv, Deletes, opening # None, opening.dir \in Denied \cup gone,
         opening' = None, UNCHANGED <<nextDir, stack, entry, gone>>
  PROVE  (\A i \in 1..Len(stack') : Emptied(i)') /\ RootDeleted'
<1>1. opening \in Listers /\ opening.dir \in Entries
  BY ListerFacts DEF IInv, Types
<1>2. Settled(opening.dir)
  BY <1>1, PrefixRefl, UnderMember DEF Settled, IInv, GoneInv
<1>3. \A c \in Entries : c = opening.dir => Settled(c)'
  BY <1>2, SettledStays
<1>4. \A c \in Entries : stack # << >> /\ Turning(c) => Turning(c)' \/ Settled(c)'
  BY <1>3 DEF Turning
<1>5. \A i \in 1..Len(stack') : Emptied(i)'
  BY <1>4, EmptiedStays
<1>6. RootDeleted'
  <2> SUFFICES ASSUME stack = << >>, Root \notin Denied PROVE Root \in gone
    BY DEF RootDeleted
  <2>1. Len(opening.dir) = 0
    BY DEF IInv, PathInv, Fits
  <2>2. opening.dir = Root
    BY <1>1, <2>1, RootPath, RootAbove, PrefixLength
  <2> QED
    BY <2>2
<1> QED
  BY <1>5, <1>6

LEMMA DeleteOpening ==
  ASSUME IInv, Deletes, TakeDir \/ ListSkips \/ FirstPage \/ FirstNone
  PROVE  (\A i \in 1..Len(stack') : Emptied(i)') /\ RootDeleted'
<1>1. UNCHANGED <<stack, entry, gone>> /\ prefixed' = prefixed
  BY DEF TakeDir, ListSkips, FirstPage, FirstNone, service, settings
<1>2. CASE TakeDir
  <2>1. nextDir \in Dirs /\ nextDir # None /\ opening' = NewLister(nextDir) /\ opening = None
    BY <1>2 DEF TakeDir, IInv, Types, PcInv
  <2>2. opening'.dir = nextDir /\ opening' # None
    BY <2>1, NewListerFacts, ListerFacts
  <2>3. \A c \in Entries : Turning(c) => Turning(c)'
    BY <1>1, <2>1, <2>2 DEF Turning
  <2> QED
    BY <1>1, <2>2, <2>3, EmptiedStays DEF RootDeleted
<1>3. CASE ListSkips
  <2>1. /\ opening # None /\ opening.dir \in Denied \cup gone
        /\ opening' = None /\ nextDir' = nextDir
    BY <1>3 DEF ListSkips, IInv, PcInv
  <2> QED
    BY <1>1, <2>1, EmptiedSkip
<1>4. CASE FirstPage
  <2>1. opening \in Listers /\ opening # None /\ nextDir' = nextDir
    BY <1>4 DEF FirstPage, IInv, PcInv, Types
  <2>2. opening' \in Listers /\ opening'.dir = opening.dir
    BY <1>4, <2>1, PageFacts DEF FirstPage, IInv, ListerInv
  <2>3. opening' # None
    BY <2>2, ListerFacts
  <2>4. \A c \in Entries : Turning(c) => Turning(c)'
    BY <1>1, <2>1, <2>2, <2>3 DEF Turning
  <2> QED
    BY <1>1, <2>3, <2>4, EmptiedStays DEF RootDeleted
<1>5. CASE FirstNone
  <2>1. /\ opening # None /\ opening.buf = {} /\ opening.done
        /\ opening' = None /\ nextDir' = nextDir
    BY <1>5 DEF FirstNone, IInv, PcInv
  <2>2. opening.dir \in gone
    BY <2>1 DEF IInv, ListerInv
  <2> QED
    BY <1>1, <2>1, <2>2, EmptiedSkip
<1> QED
  BY <1>2, <1>3, <1>4, <1>5

\* Steps that hand something out: an entry is held for its deletion only
\* when nothing is left below it.
LEMMA DeleteListed ==
  ASSUME IInv, Deletes, TopPage \/ TopDone \/ \E v \in Entries : FirstEntry(v) \/ TopEntry(v)
  PROVE  DeleteInv'
<1>1. ASSUME NEW v \in Entries, IsWanted(v) => \A c \in Children(v) : Settled(c),
             entry = None, Emitted(v) \/ UNCHANGED <<entry, out>>, gone' = gone, lost' = lost
      PROVE  /\ lost' = {} /\ ToSet(out') \subseteq gone'
             /\ entry' # None => \A c \in Children(entry') : Settled(c)'
  <2>1. out' = out /\ (entry' # None => entry' = v /\ IsWanted(v))
    BY <1>1 DEF Emitted, Deletes
  <2> QED
    BY <1>1, <2>1, SettledStays DEF Deletes
<1>2. ASSUME stack' # << >>, gone' = gone, lost' = lost, \A i \in 1..Len(stack') : Emptied(i)',
             NEW v \in Entries, IsWanted(v) => \A c \in Children(v) : Settled(c),
             entry = None, Emitted(v) \/ UNCHANGED <<entry, out>>
      PROVE  DeleteInv'
  BY <1>1, <1>2 DEF DeleteInv, RootDeleted
<1>3. ASSUME AtTop, NEW t, TopSet(t) PROVE stack' # << >>
  <2>1. Len(stack') = Len(stack) /\ Len(stack) >= 1
    BY <1>3, AtTopFacts DEF TopSet
  <2> QED
    BY <2>1
<1>4. CASE TopPage
  <2>1. AtTop /\ gone' = gone /\ lost' = lost /\ UNCHANGED <<entry, out>>
    BY <1>4, TopPageShape
  <2>2. PICK m \in Listers : /\ TopSet([de |-> Top.de, l |-> m]) /\ m.dir = Top.l.dir
                             /\ \A c \in Items(Top.l) : c \in Items(m) \/ c \in gone
    BY <1>4, TopPageShape
  <2>3. \A c \in Items(Top.l) : c \in Items(m) \/ Settled(c)
    BY <2>1, <2>2, GoneSettled DEF IInv
  <2>4. Top.de # None /\ entry = None
    BY <2>1, AtTopFacts
  <2>5. \A i \in 1..Len(stack') : Emptied(i)'
    BY <2>1, <2>2, <2>3, <2>4, EmptiedTop
  <2>6. lost' = {} /\ ToSet(out') \subseteq gone' /\ entry' = None /\ stack' # << >>
    BY <1>3, <2>1, <2>2, <2>4 DEF Deletes
  <2> QED
    BY <2>5, <2>6 DEF DeleteInv, RootDeleted
<1>5. ASSUME NEW v \in Entries, TopEntry(v) PROVE DeleteInv'
  <2>1. /\ AtTop /\ gone' = gone /\ lost' = lost
        /\ \/ v \in Dirs /\ nextDir' = (IF v = Top.l.dir THEN None ELSE v) /\ UNCHANGED <<entry, out>>
           \/ v \in Files /\ Emitted(v)
    BY <1>5, TopEntryShape
  <2>2. PICK m \in Listers : /\ TopSet([de |-> Top.de, l |-> m]) /\ m.dir = Top.l.dir
                             /\ Items(m) = Items(Top.l) \ {v}
    BY <1>5, TopEntryShape
  <2>3. entry = None /\ Top.l \in Listers /\ Top.de # None
    BY <2>1, AtTopFacts
  <2>4. ASSUME IsWanted(Top.l.dir), v \in Items(Top.l) PROVE Turning(v)'
    <3>1. v # Top.l.dir
      BY <2>4 DEF Items
    <3>2. IsWanted(v)
      BY <2>3, <2>4, ListerFacts, WantedBelow
    <3> QED
      BY <2>1, <3>1, <3>2 DEF Turning, Emitted, Deletes
  <2>5. \A i \in 1..Len(stack') : Emptied(i)'
    BY <2>1, <2>2, <2>3, <2>4, EmptiedTop
  <2>6. stack' # << >>
    BY <1>3, <2>1, <2>2
  <2>7. CASE v \in Files
    <3>1. \A c \in Children(v) : Settled(c)
      BY <2>7, FileChildren
    <3> QED
      BY <1>2, <2>1, <2>3, <2>5, <2>6, <3>1
  <2>8. CASE UNCHANGED <<entry, out>>
    BY <2>1, <2>3, <2>5, <2>6, <2>8 DEF Deletes, DeleteInv, RootDeleted
  <2> QED
    BY <2>1, <2>7, <2>8
<1>6. CASE TopDone
  <2>1. /\ AtTop /\ gone' = gone /\ lost' = lost /\ TopSet([de |-> None, l |-> Top.l])
        /\ Items(Top.l) = {}
    BY <1>6, TopDoneShape
  <2>2. /\ entry = None /\ opening = None /\ nextDir = None /\ Top.l \in Listers
        /\ Top.de = Top.l.dir /\ Top.de \in Entries /\ Top.de = Dir(Len(stack))
        /\ Open(Len(stack)) /\ Len(stack) \in 1..Len(stack) /\ Top = stack[Len(stack)]
        /\ Len(stack) \in Nat
    BY <2>1, AtTopFacts
  <2>3. PICK v \in Entries : v = Top.de
    BY <2>2
  <2>4. Emitted(v)
    BY <1>6, <2>3, TopDoneShape
  <2>5. IsWanted(v) => entry' = v
    BY <2>4 DEF Emitted, Deletes
  <2>6. ASSUME IsWanted(v), NEW c \in Children(v) PROVE Settled(c)
    <3>1. Settled(c) \/ Awaited(Len(stack), c)
      BY <2>2, <2>3, <2>6 DEF Deletes, Emptied
    <3>2. c # None
      BY <2>6, ChildFacts
    <3> QED
      BY <2>1, <2>2, <3>1, <3>2 DEF Awaited, Turning
  <2>7. \A i \in 1..Len(stack') : Emptied(i)'
    BY <2>1, <2>2, <2>3, <2>5, EmptiedTop
  <2>8. stack' # << >>
    BY <1>3, <2>1
  <2> QED
    BY <1>2, <2>1, <2>2, <2>4, <2>6, <2>7, <2>8
<1>7. ASSUME NEW v \in Entries, FirstEntry(v) PROVE DeleteInv'
  <2>1. /\ gone' = gone /\ lost' = lost /\ entry = None /\ Len(stack) \in Nat
        /\ Len(stack') = Len(stack) + 1
        /\ UNCHANGED <<entry, out>> \/ (v \in Files /\ Emitted(v))
    BY <1>7, FirstEntryShape
  <2>2. \A i \in 1..Len(stack') : Emptied(i)'
    BY <1>7, EmptiedFirstEntry
  <2>3. stack' # << >>
    BY <2>1
  <2>4. CASE v \in Files
    <3>1. \A c \in Children(v) : Settled(c)
      BY <2>4, FileChildren
    <3> QED
      BY <1>2, <2>1, <2>2, <2>3, <3>1
  <2>5. CASE UNCHANGED <<entry, out>>
    BY <2>1, <2>2, <2>3, <2>5 DEF Deletes, DeleteInv, RootDeleted
  <2> QED
    BY <2>1, <2>4, <2>5
<1> QED
  BY <1>4, <1>5, <1>6, <1>7

LEMMA StepDelete ==
  ASSUME IInv, [Next]_vars
  PROVE  DeleteInv'
<1> SUFFICES ASSUME mode' = "delete", pc' # "errored" PROVE DeleteInv'
  BY DEF DeleteInv
<1>1. mode = "delete" /\ prefixed' = prefixed /\ pc # "errored"
  BY StepSettings
<1>2. Deletes
  BY <1>1 DEF IInv, DeleteInv, Deletes
<1>3. CASE TakeDir \/ ListSkips \/ FirstPage \/ FirstNone \/ Pop
  <2>1. UNCHANGED <<entry, out, lost, gone>>
    BY <1>3 DEF TakeDir, ListSkips, FirstPage, FirstNone, Pop, service
  <2>2. (\A i \in 1..Len(stack') : Emptied(i)') /\ RootDeleted'
    BY <1>2, <1>3, DeleteOpening, EmptiedPop
  <2> QED
    BY <1>2, <2>1, <2>2, SettledStays DEF Deletes, DeleteInv
<1>4. CASE Quiet \/ \E e \in Entries : RemoveEntry(e)
  <2>1. UNCHANGED <<opening, nextDir, stack, entry, out, lost>> /\ gone \subseteq gone'
    BY <1>4 DEF Quiet, RemoveEntry, lister
  <2>2. \A c \in Entries : Turning(c) => Turning(c)'
    BY <2>1 DEF Turning
  <2>3. \A i \in 1..Len(stack') : Emptied(i)'
    BY <1>2, <2>1, <2>2, EmptiedStays
  <2> QED
    BY <1>1, <1>2, <2>1, <2>3, SettledStays DEF Deletes, DeleteInv, RootDeleted
<1>5. CASE DeleteOk
  <2>1. /\ entry \in Entries /\ UNCHANGED <<opening, nextDir, stack, lost>>
        /\ gone' = gone \cup {entry} /\ out' = Append(out, entry) /\ entry' = None
    BY <1>5 DEF DeleteOk, lister, IInv, PcInv, Types
  <2>2. ToSet(out') = ToSet(out) \cup {entry}
    BY <2>1, OutAppend, TreeAssumption DEF IInv, OrderInv
  <2>3. ASSUME NEW c \in Entries, Turning(c) PROVE Turning(c)' \/ Settled(c)'
    <3>1. c = entry => c \in gone' /\ Under(c) \subseteq gone'
      BY <2>1, StepGone DEF GoneInv
    <3>2. c = entry => Settled(c)'
      BY <3>1 DEF Settled
    <3> QED
      BY <2>1, <2>3, <3>2 DEF Turning
  <2>4. \A i \in 1..Len(stack') : Emptied(i)'
    BY <1>2, <2>1, <2>3, EmptiedStays
  <2> QED
    BY <1>1, <1>2, <2>1, <2>2, <2>4 DEF Deletes, DeleteInv, RootDeleted
<1>6. CASE FailStep
  <2>1. /\ nextDir' = Root /\ stack' = << >> /\ out' = << >> /\ lost' = {} /\ entry' = None
    BY <1>1, <1>2, <1>6 DEF FailStep, Deletes
  <2>2. ToSet(out') = {} /\ Len(stack') = 0 /\ nextDir' # None
    BY <2>1, RootPath, TreeAssumption DEF ToSet
  <2> QED
    BY <2>1, <2>2 DEF DeleteInv, RootDeleted
<1>7. CASE StatOk \/ StatNotFound
  BY <1>1, <1>7 DEF StatOk, StatNotFound, IInv, PcInv
\* Emitted entries are held for their deletion.
<1>8. CASE TopPage \/ TopDone \/ \E v \in Entries : FirstEntry(v) \/ TopEntry(v)
  BY <1>1, <1>2, <1>8, DeleteListed
<1> QED
  BY <1>3, <1>4, <1>5, <1>6, <1>7, <1>8, StepKinds

---------------------------------------------------------------------------
(* The invariant, and what follows from it. *)

LEMMA InitInv == Init => IInv
<1> SUFFICES ASSUME Init PROVE IInv
  OBVIOUS
<1>1. /\ Root \in Dirs /\ Root \in Entries /\ Root # None /\ Len(Root) = 0
      /\ MaxTimes \in Nat /\ MaxGone \in Nat /\ MaxErrors \in Nat
  BY RootPath, TreeAssumption
<1>2. Len(stack) = 0 /\ ToSet(out) = {} /\ Returned = {} /\ DOMAIN out = {}
  BY DEF Init, ToSet, Returned
<1>3. Types
  <2>1. stack \in Seq(Frames) /\ out \in Seq(Entries)
    BY DEF Init
  <2> QED
    BY <1>1, <2>1 DEF Init, Types
<1>4. PcInv /\ ListerInv /\ GoneInv
  BY <1>2 DEF Init, PcInv, ListerInv, GoneInv
<1>5. PathInv
  BY <1>1, <1>2 DEF Init, PathInv, Fits
<1>6. OrderInv
  BY <1>2 DEF Init, OrderInv, OnceNestedFirst
<1>7. CoverInv
  BY <1>1, RootAbove, WantedFacts DEF Init, CoverInv, Covered, Coming
<1>8. DeleteInv
  BY <1>1, <1>2 DEF Init, DeleteInv, RootDeleted
<1> QED
  BY <1>3, <1>4, <1>5, <1>6, <1>7, <1>8 DEF IInv

LEMMA NextInv == IInv /\ [Next]_vars => IInv'
BY StepTypes, StepWalk, StepGone, StepOrder, StepCover, StepDelete DEF IInv

\* The inductive invariant of FlatLister::next and the layers above it holds
\* at every moment of every listing and recursive delete.
THEOREM Inductive == Spec => []IInv
BY InitInv, NextInv, PTL DEF Spec

\* Every variable keeps its type, a lister on the stack is the one of its
\* directory, and no call is repeated more than max_times times, whatever
\* fails and whatever is removed.
THEOREM ListerTypeCorrect == Spec => []TypeOK
<1>1. IInv => TypeOK
  <2> SUFFICES ASSUME IInv PROVE TypeOK
    OBVIOUS
  <2>1. \A i \in DOMAIN stack : stack[i].de \in {stack[i].l.dir, None} /\ stack[i].l \in Listers
    BY StackFacts DEF IInv, Types, PathInv, Dir
  <2> QED
    BY <2>1 DEF IInv, Types, TypeOK
<1> QED
  BY <1>1, Inductive, PTL

\* One more directory at the end of a path.
LEMMA PathExtends ==
  ASSUME NEW p \in Seq(Entries), NEW d \in Entries, Len(d) = Len(p),
         \A i \in 1..Len(p) : Len(p[i]) = i - 1 /\ (i > 1 => Parent(p[i]) = p[i - 1]),
         Len(p) > 0 => IsPrefix(p[Len(p)], d),
         NEW q, q = p \o <<d>>
  PROVE  \A i \in DOMAIN q : Len(q[i]) = i - 1 /\ (i > 1 => Parent(q[i]) = q[i - 1])
<1>1. /\ Len(p) \in Nat /\ DOMAIN q = 1..(Len(p) + 1)
      /\ \A i \in 1..Len(p) : q[i] = p[i] /\ p[i] \in Entries
      /\ q[Len(p) + 1] = d
  OBVIOUS
<1> SUFFICES ASSUME NEW i \in 1..(Len(p) + 1)
             PROVE  Len(q[i]) = i - 1 /\ (i > 1 => Parent(q[i]) = q[i - 1])
  BY <1>1
<1>2. CASE i \in 1..Len(p)
  <2>1. i > 1 => i - 1 \in 1..Len(p)
    BY <1>1, <1>2
  <2> QED
    BY <1>1, <1>2, <2>1
<1>3. CASE i = Len(p) + 1
  <2>1. ASSUME i > 1 PROVE Parent(d) = q[i - 1]
    <3>1. Len(p) \in 1..Len(p) /\ i - 1 = Len(p)
      BY <1>1, <1>3, <2>1
    <3>2. p[Len(p)] \in Entries /\ Len(p[Len(p)]) + 1 = Len(d) /\ IsPrefix(p[Len(p)], d)
      BY <1>1, <3>1
    <3>3. d \in Children(p[Len(p)])
      BY <3>2, ChildPath
    <3> QED
      BY <1>1, <3>1, <3>3 DEF Children
  <2> QED
    BY <1>1, <1>3, <2>1
<1>4. i \in 1..Len(p) \/ i = Len(p) + 1
  BY <1>1
<1> QED
  BY <1>2, <1>3, <1>4

LEMMA WalkIsPath == IInv => StackIsPath
<1> SUFFICES ASSUME IInv PROVE StackIsPath
  OBVIOUS
<1> DEFINE p == [i \in DOMAIN stack |-> stack[i].l.dir]
           n == Len(stack)
           Good(q) == \A i \in DOMAIN q : Len(q[i]) = i - 1 /\ (i > 1 => Parent(q[i]) = q[i - 1])
<1>1. n \in Nat /\ DOMAIN stack = 1..n
  BY DEF IInv, Types
<1>2. \A i \in 1..n : Dir(i) = stack[i].l.dir /\ Dir(i) \in Entries
  BY StackFacts DEF IInv
<1>3. p \in Seq(Entries) /\ Len(p) = n /\ DOMAIN p = 1..n /\ \A i \in 1..n : p[i] = Dir(i)
  <2>1. p \in [1..n -> Entries]
    BY <1>1, <1>2
  <2>2. p \in Seq(Entries)
    BY <1>1, <2>1
  <2> QED
    BY <1>1, <1>2, <2>1, <2>2
<1> HIDE DEF p
<1>4. \A i \in 1..n : Len(p[i]) = i - 1 /\ (i > 1 => Parent(p[i]) = p[i - 1])
  <2> TAKE i \in 1..n
  <2>1. Len(Dir(i)) = i - 1
    BY DEF IInv, PathInv
  <2>2. ASSUME i > 1 PROVE Parent(Dir(i)) = Dir(i - 1)
    <3>1. i - 1 \in 1..n /\ i - 1 < i
      BY <1>1, <2>2
    <3>2. IsPrefix(Dir(i - 1), Dir(i)) /\ Len(Dir(i - 1)) = (i - 1) - 1
      BY <3>1 DEF IInv, PathInv
    <3>3. Len(Dir(i)) = Len(Dir(i - 1)) + 1
      BY <1>1, <2>1, <3>1, <3>2
    <3>4. Dir(i) \in Children(Dir(i - 1))
      BY <1>2, <3>1, <3>2, <3>3, ChildPath
    <3> QED
      BY <3>4 DEF Children
  <2>3. i > 1 => i - 1 \in 1..n
    BY <1>1
  <2> QED
    BY <1>3, <2>1, <2>2, <2>3
<1>5. ASSUME NEW d \in Entries, Fits(d) PROVE Good(p \o <<d>>)
  <2>1. Len(d) = Len(p)
    BY <1>3, <1>5 DEF Fits
  <2>2. Len(p) > 0 => IsPrefix(p[Len(p)], d)
    <3>1. n > 0 => n \in 1..n /\ stack # << >>
      BY <1>1, <1>3
    <3> QED
      BY <1>3, <1>5, <3>1 DEF Fits
  <2> QED
    BY <1>3, <1>4, <2>1, <2>2, PathExtends
<1>6. Good(p)
  BY <1>3, <1>4
<1>7. \A q \in Seq(Entries) : q \o << >> = q
  OBVIOUS
<1>8. \A d \in Entries : p \o <<d>> \in Seq(Entries)
  BY <1>3
<1>9. opening = None \/ nextDir = None
  BY DEF IInv, PcInv
<1>10. opening # None => opening.dir \in Entries /\ Fits(opening.dir)
  BY ListerFacts DEF IInv, Types, PathInv
<1>11. nextDir # None => nextDir \in Entries /\ Fits(nextDir)
  BY DEF IInv, Types, PathInv, Entries
<1>12. Good(p \o (IF opening = None THEN << >> ELSE <<opening.dir>>)
              \o (IF nextDir = None THEN << >> ELSE <<nextDir>>))
  <2>1. CASE opening = None /\ nextDir = None
    BY <1>3, <1>6, <1>7, <2>1
  <2>2. CASE opening # None /\ nextDir = None
    <3>1. p \o <<opening.dir>> \o << >> = p \o <<opening.dir>>
      BY <1>7, <1>8, <1>10, <2>2
    <3> QED
      BY <1>5, <1>10, <2>2, <3>1
  <2>3. CASE opening = None /\ nextDir # None
    <3>1. p \o << >> \o <<nextDir>> = p \o <<nextDir>>
      BY <1>3, <1>7
    <3> QED
      BY <1>5, <1>11, <2>3, <3>1
  <2> QED
    BY <1>9, <2>1, <2>2, <2>3
<1> QED
  BY <1>12 DEF StackIsPath, p

\* No entry is returned twice or after the directory it lies in, and the
\* directories that FlatLister::next holds open are a path from the listed one
\* down, for every tree, however the service cuts its pages and whatever fails
\* or is removed on the way.
THEOREM BottomUpWalk == Spec => []BottomUp
<1>1. IInv => BottomUp
  BY WalkIsPath DEF BottomUp, IInv, OrderInv
<1> QED
  BY <1>1, Inductive, PTL

LEMMA ComingIsAhead ==
  ASSUME IInv, NEW w \in Entries, Coming(w)
  PROVE  w \in Ahead
<1>1. w # None
  BY TreeAssumption
<1>2. ASSUME NEW i \in 1..Len(stack), From(stack[i], w)
      PROVE  w \in Todo(stack[i].l) \cup ({stack[i].de} \ {None})
  <2>1. CASE w = stack[i].de
    BY <1>1, <2>1
  <2>2. ASSUME NEW c \in Items(stack[i].l), IsPrefix(c, w) PROVE w \in Todo(stack[i].l)
    <3>1. c \in (stack[i].l.buf \cup stack[i].l.rest) \ {stack[i].l.dir}
      BY <2>2 DEF Items
    <3>2. w \in Under(c)
      BY <2>2, UnderMember
    <3> QED
      BY <3>1, <3>2 DEF Todo
  <2> QED
    BY <1>2, <2>1, <2>2 DEF From
<1>3. DOMAIN stack = 1..Len(stack)
  BY DEF IInv, Types
<1>4. CASE \E i \in 1..Len(stack) : From(stack[i], w)
  BY <1>2, <1>3, <1>4 DEF Ahead
<1>5. CASE opening # None /\ IsPrefix(opening.dir, w)
  BY <1>5, UnderMember DEF Ahead
<1>6. CASE nextDir # None /\ IsPrefix(nextDir, w)
  BY <1>6, UnderMember DEF Ahead
<1>7. CASE w = entry
  BY <1>1, <1>7 DEF Ahead
<1> QED
  BY <1>4, <1>5, <1>6, <1>7 DEF Coming

\* FlatLister::next, PrefixLister and CompleteLister leave nothing out: at
\* every moment each entry that is asked for was returned, is still ahead of
\* the walk, does not exist any more, lies in a directory that may not be
\* listed or was dropped with an error that the RetryLayer repeated.
THEOREM NothingLeftOut == Spec => []Accounted
<1>1. IInv => Accounted
  <2> SUFFICES ASSUME IInv, pc # "errored", NEW w \in Wanted
               PROVE  w \in ToSet(out) \cup Ahead \cup gone \cup Hidden \cup lost
    BY DEF Accounted
  <2>1. w \in Entries /\ Covered(w)
    BY WantedFacts DEF IInv, CoverInv
  <2>2. Excused(w) => w \in gone \cup Hidden \cup lost
    BY <2>1, UnderMember DEF Excused, Hidden
  <2>3. Coming(w) => w \in Ahead
    BY <2>1, ComingIsAhead
  <2> QED
    BY <2>1, <2>2, <2>3 DEF Covered
<1> QED
  BY <1>1, Inductive, PTL

LEMMA DirectoryIsEmpty == IInv => DeletesBottomUp
<1> SUFFICES ASSUME IInv, pc = "delete", Under(entry) \cap Denied = {},
                    NEW e \in Under(entry) \ {entry}
             PROVE  e \in gone
  BY DEF DeletesBottomUp
<1>1. entry \in Entries /\ mode = "delete" /\ entry # None
  BY DEF IInv, PcInv, Types
<1>2. PICK c \in Children(entry) : e \in Under(c)
  BY <1>1, UnderChildren
<1>3. c \in Entries /\ IsPrefix(entry, c)
  BY <1>1, ChildFacts
<1>4. Settled(c)
  BY <1>1 DEF IInv, DeleteInv
<1>5. Under(c) \subseteq Under(entry)
  BY <1>1, <1>3, UnderMember, PrefixTrans
<1> QED
  BY <1>2, <1>4, <1>5 DEF Settled

LEMMA DeletedIsGone == IInv => DeletedMeansGone
<1> SUFFICES ASSUME IInv, pc = "deleted", NEW w \in Wanted
             PROVE  w \in gone \cup (IF prefixed \/ Root \in Denied THEN Hidden ELSE {})
  BY DEF DeletedMeansGone
<1>1. w \in Entries /\ w # None
  BY WantedFacts, TreeAssumption
<1>2. /\ mode = "delete" /\ stack = << >> /\ opening = None /\ nextDir = None /\ entry = None
  BY DEF IInv, PcInv
<1>3. lost = {} /\ ToSet(out) \subseteq gone /\ RootDeleted
  BY <1>2 DEF IInv, DeleteInv
<1>4. CASE prefixed \/ Root \in Denied
  <2>1. Covered(w)
    BY DEF IInv, CoverInv
  <2>2. Len(stack) = 0
    BY <1>2
  <2>3. w \in gone \/ \E d \in Denied : IsPrefix(d, w)
    BY <1>1, <1>2, <1>3, <2>1, <2>2 DEF Covered, Coming, Excused
  <2>4. w \in gone \cup Hidden
    BY <1>1, <2>3, UnderMember DEF Hidden
  <2> QED
    BY <1>4, <2>4
<1>5. CASE ~prefixed /\ Root \notin Denied
  <2>1. Root \in gone
    BY <1>2, <1>3, <1>5 DEF RootDeleted, IInv, Types
  <2> QED
    BY <1>1, <2>1, RootAbove, UnderMember DEF IInv, GoneInv
<1> QED
  BY <1>4, <1>5 DEF IInv, Types

\* A recursive delete asks for a directory only when nothing is left in it
\* that it could have deleted, and once SimulateDeleter returns Ok all it was
\* asked to delete is gone, however often it was repeated; only what lies in
\* a directory that may not be listed can be passed over, and only when that
\* is the listed directory or a prefix was listed.
THEOREM DeletesEverything == Spec => []DeletesAll
<1>1. IInv => DeletesAll
  BY DirectoryIsEmpty, DeletedIsGone DEF DeletesAll
<1> QED
  BY <1>1, Inductive, PTL

---------------------------------------------------------------------------
(* BatchDeleter, for every set of paths, every batch size and any number   *)
(* of failures.  ClosedIsDeleted is not inductive: that a close returned   *)
(* Ok says nothing of the service unless nothing was left in the buffer at *)
(* that moment (ClosedIsEmpty) and nothing was forgotten before            *)
(* (NothingForgotten).  Awaiting rules out that the answer of an earlier   *)
(* close survives while a later call is under way.                         *)

ClosedIsEmpty == reply = "closeOk" => buffer = {}

Awaiting == flushing # "idle" => reply = "none"

BatchInv == BDTypeOK /\ NothingForgotten /\ ClosedIsEmpty /\ Awaiting

\* A flush that failed or was dropped, with some of the batch deleted all the
\* same, keeps the invariant.
LEMMA BatchFails ==
  ASSUME BatchInv, NEW r \in {"deleteErr", "closeErr", "dropped"}, Failed(r),
         NEW some \in SUBSET buffer, existing' = existing \ some,
         buffer' = buffer, UNCHANGED <<arg, requested>>
  PROVE  BatchInv'
<1>1. BDTypeOK'
  BY DeleterAssumption DEF BatchInv, BDTypeOK, Failed, Return
<1>2. NothingForgotten'
  BY DEF BatchInv, NothingForgotten
<1>3. ClosedIsEmpty' /\ Awaiting'
  BY DEF Failed, Return, ClosedIsEmpty, Awaiting
<1> QED
  BY <1>1, <1>2, <1>3 DEF BatchInv

\* Every step of the deleter keeps the invariant.
LEMMA BatchStep ==
  ASSUME BatchInv, [BDNext]_bdVars
  PROVE  BatchInv'
<1> USE DEF BatchInv
<1>1. ASSUME NEW p \in Paths, DeleteCall(p) PROVE BatchInv'
  <2>1. BDTypeOK'
    BY <1>1 DEF DeleteCall, Return, BDTypeOK
  <2>2. NothingForgotten'
    BY <1>1 DEF DeleteCall, NothingForgotten
  <2>3. ClosedIsEmpty' /\ Awaiting'
    BY <1>1 DEF DeleteCall, Return, ClosedIsEmpty, Awaiting
  <2> QED
    BY <2>1, <2>2, <2>3
<1>2. ASSUME CloseCall PROVE BatchInv'
  BY <1>2 DEF CloseCall, Return, BDTypeOK, NothingForgotten, ClosedIsEmpty, Awaiting
<1>3. ASSUME OnceOk PROVE BatchInv'
  <2>1. BDTypeOK'
    BY <1>3 DEF OnceOk, Flushed, Return, BDTypeOK
  <2>2. NothingForgotten'
    BY <1>3 DEF OnceOk, NothingForgotten
  <2>3. ClosedIsEmpty' /\ Awaiting'
    BY <1>3 DEF OnceOk, Flushed, Return, ClosedIsEmpty, Awaiting
  <2> QED
    BY <2>1, <2>2, <2>3
<1>4. ASSUME NEW ok \in SUBSET buffer, NEW perm \in SUBSET (buffer \ ok), BatchAnswered(ok, perm)
      PROVE  BatchInv'
  <2>1. NothingForgotten'
    BY <1>4 DEF BatchAnswered, NothingForgotten
  <2>2. CASE Flushed /\ UNCHANGED failures
    <3>1. BDTypeOK'
      BY <1>4, <2>2 DEF BatchAnswered, Flushed, Return, BDTypeOK
    <3>2. ClosedIsEmpty' /\ Awaiting'
      BY <1>4, <2>2 DEF BatchAnswered, Flushed, Return, ClosedIsEmpty, Awaiting
    <3> QED
      BY <2>1, <3>1, <3>2
  <2>3. CASE Failed(ErrOf[flushing])
    <3>1. ErrOf[flushing] \in {"deleteErr", "closeErr"}
      BY <1>4 DEF BatchAnswered, BDTypeOK, ErrOf
    <3>2. BDTypeOK'
      BY <1>4, <2>3, <3>1, DeleterAssumption DEF BatchAnswered, Failed, Return, BDTypeOK
    <3>3. ClosedIsEmpty' /\ Awaiting'
      BY <2>3, <3>1 DEF Failed, Return, ClosedIsEmpty, Awaiting
    <3> QED
      BY <2>1, <3>2, <3>3
  <2> QED
    BY <1>4, <2>2, <2>3 DEF BatchAnswered
<1>5. ASSUME RequestFailed PROVE BatchInv'
  <2>1. ErrOf[flushing] \in {"deleteErr", "closeErr"}
    BY <1>5 DEF RequestFailed, BDTypeOK, ErrOf
  <2> QED
    BY <1>5, <2>1, BatchFails DEF RequestFailed
<1>6. ASSUME DropCall PROVE BatchInv'
  BY <1>6, BatchFails DEF DropCall
<1>7. ASSUME UNCHANGED bdVars PROVE BatchInv'
  BY <1>7 DEF bdVars, BDTypeOK, NothingForgotten, ClosedIsEmpty, Awaiting
<1> QED
  BY <1>1, <1>2, <1>3, <1>4, <1>5, <1>6, <1>7 DEF BDNext

\* The strengthened invariant holds of every behaviour of the deleter.
THEOREM DeleterInductive == BDSpec => []BatchInv
<1>1. BDInit => BatchInv
  BY DeleterAssumption DEF BDInit, BatchInv, BDTypeOK, NothingForgotten, ClosedIsEmpty,
                            Awaiting
<1>2. BatchInv /\ [BDNext]_bdVars => BatchInv'
  BY BatchStep
<1> QED
  BY <1>1, <1>2, PTL DEF BDSpec

\* The variables keep their types, and a flush is awaited only with something
\* to delete (batch_delete.rs:81-98).
THEOREM DeleterTypeCorrect == BDSpec => []BDTypeOK
<1>1. BatchInv => BDTypeOK
  BY DEF BatchInv
<1> QED
  BY <1>1, DeleterInductive, PTL

\* No path given to delete is forgotten, whatever the service answers and
\* wherever a call is dropped (batch_delete.rs:81-129).
THEOREM NoPathForgotten == BDSpec => []NothingForgotten
<1>1. BatchInv => NothingForgotten
  BY DEF BatchInv
<1> QED
  BY <1>1, DeleterInductive, PTL

\* A close that returned Ok means that every path given to delete is gone
\* (batch_delete.rs:143-160).
THEOREM CloseMeansDeleted == BDSpec => []ClosedIsDeleted
<1>1. BatchInv => ClosedIsDeleted
  BY DEF BatchInv, ClosedIsEmpty, NothingForgotten, ClosedIsDeleted
<1> QED
  BY <1>1, DeleterInductive, PTL
=============================================================================
