------------------------------ MODULE StoreProofs ------------------------------
(***************************************************************************)
(* Proofs about the filesystem key store: with any number of processes,    *)
(* entries, puts and crashes, no file is found half-written, a public key  *)
(* is found with its own signature and the listing yields what was put,    *)
(* but for puts that crashed or overlapped.                                *)
(***************************************************************************)
EXTENDS FilesystemStore, SequenceTheorems, TLAPS

(* The provers a leaf is given that names none of its own, tried in this order. *)
USE SMTT(30), ZenonT(30), Z3T(30), SMTT(40)

(* What leaf names are made of. *)
Parts == STRING \cup {"", "sig", "tmp"}

(* A file: in a compartment, with a leaf name. *)
Name == [sub : {"private", "public"}, leaf : Seq(Parts)]

(* The file n is one of the entry e. *)
HasFile(e, n) == n = e \/ (e.sub = "public" /\ n = SigPath(e))

(* The parts that the store adds. *)
LEMMA AddedParts == "" \in Parts /\ "sig" \in Parts /\ "tmp" \in Parts /\ "sig" # "tmp"
BY DEF Parts

(* Two files with one leaf name in one compartment are the same. *)
LEMMA SameName ==
  ASSUME NEW m \in Name, NEW n \in Name, m.sub = n.sub, m.leaf = n.leaf
  PROVE  m = n
BY DEF Name

(* The names of entries. *)
LEMMA EntryNames ==
  ASSUME NEW e \in Entries
  PROVE  /\ e \in Name /\ e.sub \in {"private", "public"}
         /\ e.leaf \in Seq(Parts) /\ e.leaf # <<>>
         /\ ~(Head(e.leaf) = "" /\ Extension(e.leaf) = "tmp")
<1>1. Seq(STRING) \subseteq Seq(Parts)
  <2>1. PICK S : S = STRING
    OBVIOUS
  <2>2. S \subseteq Parts
    BY <2>1, ZenonT(30) DEF Parts
  <2>3. Seq(S) \subseteq Seq(Parts)
    BY <2>2, SeqMonotonic
  <2> QED
    BY <2>1, <2>3
<1>2. ASSUME NEW id \in Secrets \cup Identities
      PROVE  id \in Seq(Parts) /\ id # <<>> /\ ~(Head(id) = "" /\ Extension(id) = "tmp")
  BY <1>1, <1>2, StoreAssumption, Zenon
<1>3. PICK id \in Secrets \cup Identities :
        \/ e = [sub |-> "private", leaf |-> id]
        \/ e = [sub |-> "public", leaf |-> id]
  BY DEF Entries, Private, Public
<1>4. e \in Name /\ e.leaf = id /\ e.sub \in {"private", "public"}
  <2>1. id \in Seq(Parts)
    BY <1>2, ZenonT(30)
  <2>2. CASE e = [sub |-> "private", leaf |-> id]
    BY <2>1, <2>2 DEF Name
  <2>3. CASE e = [sub |-> "public", leaf |-> id]
    BY <2>1, <2>3 DEF Name
  <2> QED
    BY <1>3, <2>2, <2>3
<1> QED
  BY <1>2, <1>4, ZenonT(30)

(* The name of a signature file. *)
LEMMA SigNames ==
  ASSUME NEW n \in Name
  PROVE  /\ SigPath(n) \in Name /\ SigPath(n).sub = n.sub
         /\ SigPath(n).leaf = Append(n.leaf, "sig")
         /\ SigPath(n).leaf # <<>> /\ Extension(SigPath(n).leaf) = "sig"
         /\ SigPath(n) # n
<1>1. PICK a \in Seq(Parts) : a = n.leaf
  BY DEF Name
<1>2. n.sub \in {"private", "public"}
  BY DEF Name
<1>3. PICK k \in Nat : k = Len(a)
  BY LenProperties
<1>4. PICK b : b = Append(a, "sig")
  BY ZenonT(30)
<1>5. b \in Seq(Parts) /\ b # <<>> /\ Len(b) = k + 1 /\ b[k + 1] = "sig"
  <2>1. PICK v \in Parts : v = "sig"
    BY AddedParts, ZenonT(30)
  <2>2. b = Append(a, v)
    BY <1>4, <2>1
  <2>3. b \in Seq(Parts) /\ b # <<>> /\ Len(b) = k + 1 /\ b[k + 1] = v
    BY <1>3, <2>2, AppendProperties
  <2> QED
    BY <2>1, <2>3
<1>6. Extension(b) = "sig"
  BY <1>5 DEF Extension
<1>7. b # a
  <2>1. k + 1 # k
    OBVIOUS
  <2> QED
    BY <1>3, <1>5, <2>1
<1>8. SigPath(n) = [n EXCEPT !.leaf = b]
  BY <1>1, <1>4 DEF SigPath
<1>9. SigPath(n) = [sub |-> n.sub, leaf |-> b]
  BY <1>8 DEF Name
<1>10. SigPath(n) \in Name
  BY <1>2, <1>5, <1>9 DEF Name
<1>11. SigPath(n).sub = n.sub /\ SigPath(n).leaf = b
  BY <1>9
<1> QED
  BY <1>1, <1>4, <1>5, <1>6, <1>7, <1>10, <1>11

(* Two signature files with one name are those of one file. *)
LEMMA SigInjective ==
  ASSUME NEW m \in Name, NEW n \in Name, SigPath(m) = SigPath(n)
  PROVE  m = n
<1>1. PICK a \in Seq(Parts), b \in Seq(Parts) : a = m.leaf /\ b = n.leaf
  BY DEF Name
<1>2. Append(a, "sig") = Append(b, "sig") /\ m.sub = n.sub
  BY <1>1, SigNames
<1>3. PICK v \in Parts : v = "sig"
  BY AddedParts, ZenonT(30)
<1>4. a = b
  BY <1>2, <1>3, AppendInjective
<1> QED
  BY <1>1, <1>2, <1>4, SameName, ZenonT(30)

(* The name of a temp file: it tells the file that is staged in it. *)
IsTemp(x, n, a, k) ==
  /\ x \in Name /\ x.sub = n.sub
  /\ x.leaf \in Seq(Parts) /\ Len(x.leaf) = k + 2
  /\ x.leaf[1] = "" /\ x.leaf[k + 2] = "tmp"
  /\ \A i \in 1 .. k : x.leaf[i + 1] = a[i]

(* It is the name that atomic_write makes. *)
LEMMA TempNames ==
  ASSUME NEW n \in Name, NEW a \in Seq(Parts), NEW k \in Nat, a = n.leaf, k = Len(a),
         NEW x, x = Staged(n)
  PROVE  IsTemp(x, n, a, k)
<1>1. PICK v \in Parts, w \in Parts : v = "" /\ w = "tmp"
  BY AddedParts, ZenonT(30)
<1>2. PICK h \in Seq(Parts), t \in Seq(Parts) : h = <<v>> /\ t = <<w>>
  <2>1. <<v>> \in Seq(Parts) /\ <<w>> \in Seq(Parts)
    OBVIOUS
  <2> QED
    BY <2>1, Zenon
<1>3. Len(h) = 1 /\ h[1] = "" /\ Len(t) = 1 /\ t[1] = "tmp"
  BY <1>1, <1>2, ZenonT(30)
<1>4. PICK b : b = h \o a
  BY ZenonT(30)
<1>5. /\ b \in Seq(Parts) /\ Len(b) = 1 + k
      /\ \A i \in 1 .. (1 + k) : b[i] = IF i <= 1 THEN h[i] ELSE a[i - 1]
  <2>1. /\ b \in Seq(Parts) /\ Len(b) = Len(h) + Len(a)
        /\ \A i \in 1 .. Len(h) + Len(a) : b[i] = IF i <= Len(h) THEN h[i] ELSE a[i - Len(h)]
    BY <1>4, ConcatProperties
  <2> QED
    BY <1>3, <2>1, ZenonT(30)
<1>6. PICK c : c = b \o t
  BY ZenonT(30)
<1>7. /\ c \in Seq(Parts) /\ Len(c) = (1 + k) + 1
      /\ \A i \in 1 .. ((1 + k) + 1) :
           c[i] = IF i <= 1 + k THEN b[i] ELSE t[i - (1 + k)]
  <2>1. /\ c \in Seq(Parts) /\ Len(c) = Len(b) + Len(t)
        /\ \A i \in 1 .. Len(b) + Len(t) : c[i] = IF i <= Len(b) THEN b[i] ELSE t[i - Len(b)]
    BY <1>5, <1>6, ConcatProperties, ZenonT(30)
  <2> QED
    BY <1>3, <1>5, <2>1, ZenonT(30)
<1>8. c[1] = "" /\ c[k + 2] = "tmp" /\ (1 + k) + 1 = k + 2
  <2>1. 1 \in 1 .. (1 + k) /\ 1 \in 1 .. ((1 + k) + 1) /\ k + 2 \in 1 .. ((1 + k) + 1)
        /\ ~(k + 2 <= 1 + k) /\ (k + 2) - (1 + k) = 1 /\ 1 <= 1 + k /\ (1 + k) + 1 = k + 2
    OBVIOUS
  <2>2. c[1] = b[1]
    BY <1>7, <2>1, ZenonT(30)
  <2>a. b[1] = h[1]
    BY <1>5, <2>1
  <2>3. c[k + 2] = t[1]
    BY <1>7, <2>1, ZenonT(30)
  <2> QED
    BY <1>3, <2>1, <2>2, <2>a, <2>3, ZenonT(30)
<1>9. ASSUME NEW i \in 1 .. k PROVE c[i + 1] = a[i]
  <2>1. i + 1 \in 1 .. (1 + k) /\ i + 1 \in 1 .. ((1 + k) + 1) /\ ~(i + 1 <= 1)
        /\ i + 1 <= 1 + k /\ (i + 1) - 1 = i
    OBVIOUS
  <2>2. c[i + 1] = b[i + 1]
    BY <1>7, <2>1, ZenonT(30)
  <2>3. b[i + 1] = a[i]
    BY <1>5, <2>1
  <2> QED
    BY <2>2, <2>3
<1>10. Staged(n) = [sub |-> n.sub, leaf |-> c]
  <2>1. Staged(n) = [n EXCEPT !.leaf = c]
    BY <1>1, <1>2, <1>4, <1>6, ZenonT(30) DEF Staged
  <2> QED
    BY <2>1 DEF Name
<1>11. Staged(n) \in Name /\ Staged(n).sub = n.sub /\ Staged(n).leaf = c
  <2>1. n.sub \in {"private", "public"}
    BY DEF Name
  <2> QED
    BY <1>7, <1>10, <2>1 DEF Name
<1> QED
  BY <1>7, <1>8, <1>9, <1>11, ZenonT(30) DEF IsTemp

(* Two files are staged in different temp files. *)
LEMMA StagedInjective ==
  ASSUME NEW m \in Name, NEW n \in Name, Staged(m) = Staged(n)
  PROVE  m = n
<1>1. PICK a \in Seq(Parts), b \in Seq(Parts) : a = m.leaf /\ b = n.leaf
  BY DEF Name
<1>2. PICK i \in Nat, j \in Nat : i = Len(a) /\ j = Len(b)
  BY LenProperties
<1>3. PICK x : x = Staged(m)
  OBVIOUS
<1>4. x.sub = m.sub /\ Len(x.leaf) = i + 2 /\ \A q \in 1 .. i : x.leaf[q + 1] = a[q]
  <2>1. IsTemp(x, m, a, i)
    BY <1>1, <1>2, <1>3, TempNames
  <2> QED
    BY <2>1, ZenonT(30) DEF IsTemp
<1>5. x.sub = n.sub /\ Len(x.leaf) = j + 2 /\ \A q \in 1 .. j : x.leaf[q + 1] = b[q]
  <2>1. IsTemp(x, n, b, j)
    BY <1>1, <1>2, <1>3, TempNames
  <2> QED
    BY <2>1, ZenonT(30) DEF IsTemp
<1>6. i = j
  BY <1>4, <1>5
<1>7. \A q \in 1 .. i : a[q] = b[q]
  BY <1>4, <1>5, <1>6
<1>8. a = b
  BY <1>2, <1>6, <1>7, SeqEqual, ZenonT(30)
<1> QED
  BY <1>1, <1>4, <1>5, <1>8, SameName, ZenonT(30)

(* The files of an entry are files. *)
LEMMA FileNames ==
  ASSUME NEW e \in Entries, NEW n, HasFile(e, n)
  PROVE  n \in Name
<1>1. e \in Name
  BY EntryNames, ZenonT(30)
<1> QED
  BY <1>1, SigNames DEF HasFile

(* No file of an entry has the name of a temp file. *)
LEMMA TempIsNoFile ==
  ASSUME NEW m \in Name, NEW e \in Entries
  PROVE  ~HasFile(e, Staged(m))
<1>1. PICK a \in Seq(Parts) : a = m.leaf
  BY DEF Name
<1>2. PICK k \in Nat : k = Len(a)
  BY LenProperties
<1>3. PICK x : x = Staged(m)
  OBVIOUS
<1>4. x.leaf \in Seq(Parts) /\ Len(x.leaf) = k + 2 /\ x.leaf[1] = "" /\ x.leaf[k + 2] = "tmp"
  <2>1. IsTemp(x, m, a, k)
    BY <1>1, <1>2, <1>3, TempNames
  <2> QED
    BY <2>1, ZenonT(30) DEF IsTemp
<1>5. Head(x.leaf) = "" /\ Extension(x.leaf) = "tmp"
  <2>1. PICK y \in Seq(Parts) : y = x.leaf
    BY <1>4, ZenonT(30)
  <2>2. y # <<>>
    <3>1. k + 2 # 0
      OBVIOUS
    <3> QED
      BY <1>4, <2>1, <3>1, ZenonT(30)
  <2>3. Head(y) = y[1]
    BY <2>2, HeadTailProperties
  <2> QED
    BY <1>4, <2>1, <2>3, ZenonT(30) DEF Extension
<1>6. x # e
  BY <1>5, EntryNames, ZenonT(30)
<1>7. x # SigPath(e)
  <2>1. Extension(SigPath(e).leaf) = "sig"
    BY EntryNames, SigNames, ZenonT(30)
  <2> QED
    BY <1>5, <2>1, ZenonT(30)
<1> QED
  BY <1>3, <1>6, <1>7 DEF HasFile

(* Entries with a file in common share. *)
LEMMA SharedFile ==
  ASSUME NEW e \in Entries, NEW f \in Entries, NEW n, HasFile(e, n), HasFile(f, n)
  PROVE  Share(e, f)
<1>1. e \in Name /\ f \in Name
  BY EntryNames, ZenonT(30)
<1>2. CASE n = e /\ n = f
  BY <1>2 DEF Share
<1>3. CASE n = e /\ f.sub = "public" /\ n = SigPath(f)
  BY <1>1, <1>3, SigNames DEF Share
<1>4. CASE n = f /\ e.sub = "public" /\ n = SigPath(e)
  BY <1>1, <1>4, SigNames DEF Share
<1>5. CASE n = SigPath(e) /\ n = SigPath(f)
  BY <1>1, <1>5, SigInjective, ZenonT(30) DEF Share
<1> QED
  BY <1>2, <1>3, <1>4, <1>5 DEF HasFile

(* An entry shares with itself, and two share with each other. *)
LEMMA ShareBoth ==
  ASSUME NEW e, NEW f
  PROVE  Share(e, e) /\ (Share(e, f) <=> Share(f, e))
BY DEF Share

(* The files, and the temp files, of entries that do not share. *)
LEMMA FilesApart ==
  ASSUME NEW e \in Entries, NEW f \in Entries, ~Share(e, f),
         NEW m, NEW n, HasFile(e, m), HasFile(f, n)
  PROVE  m # n /\ Staged(m) # Staged(n)
<1>1. m # n
  BY SharedFile
<1>2. m \in Name /\ n \in Name
  BY FileNames
<1> QED
  BY <1>1, <1>2, StagedInjective

(* A put that is under way; whether it has come to its signature file; the *)
(* file that it writes next, and the temp file in which it stages it.      *)
Writes(c) == c.at \in {"stage", "fill", "rename"}
Second(c) == c.entry.sub = "public" /\ Len(c.todo) = 1
Target(c) == IF Second(c) THEN SigPath(c.entry) ELSE c.entry
Temp(c) == Staged(Target(c))

(* No put that shares a file with e is under way. *)
Calm(s, e) == \A p \in Processes : Writes(s[p]) => ~Share(s[p].entry, e)

Call ==
  [at : {"idle", "stage", "fill", "rename", "sig", "got"},
   entry : Entries \cup {{}}, todo : Seq(Name), put : Nat, fd : Nat,
   undisturbed : BOOLEAN, key : Nat, sig : Nat]

(* Every name leads to a file of its own. *)
DirOk(d, k) ==
  /\ k \in Seq(Nat)
  /\ d = [n \in DOMAIN d |-> d[n]]
  /\ \A n \in DOMAIN d : d[n] \in 1 .. Len(k)
  /\ \A m, n \in DOMAIN d : d[m] = d[n] => m = n

PutType(c) ==
  /\ c.entry \in Entries
  /\ c.put \in Nat /\ c.put # Torn
  /\ c.todo \in {Paths(c.entry), <<SigPath(c.entry)>>}
  /\ c.entry.sub = "private" => c.todo = Paths(c.entry)

(* The file that is open is the temp file, or was renamed since. *)
OpenIsLinked(c, d, k) ==
  c.at = "fill" =>
    /\ c.fd \in 1 .. Len(k)
    /\ \A n \in DOMAIN d : d[n] = c.fd => n = Temp(c) \/ n = Target(c)

(* Entries that share a file with a put are unsettled, and its own is if   *)
(* another put shares one with it.                                         *)
SharersUnsettled(c, u) ==
  \A f \in Entries : Share(c.entry, f) /\ (f # c.entry \/ ~c.undisturbed) => f \in u

(* An undisturbed put finds its files as it left them. *)
FindsItsFiles(c, d, k) ==
  c.undisturbed =>
    /\ c.at = "fill" => Temp(c) \in DOMAIN d /\ d[Temp(c)] = c.fd
    /\ c.at = "rename" => Temp(c) \in DOMAIN d /\ k[d[Temp(c)]] = c.put
    /\ Second(c) => /\ c.entry \in DOMAIN d /\ k[d[c.entry]] = c.put
                    /\ Staged(c.entry) \notin DOMAIN d

(* A temp file that is torn, though the put has written it or writes       *)
(* another, was staged by a second put.                                    *)
TornIsCrossed(c, d, k, x) ==
  /\ c.at \in {"fill", "rename"}
  /\ Temp(c) \in DOMAIN d /\ k[d[Temp(c)]] = Torn
  /\ c.at = "fill" => d[Temp(c)] # c.fd
  => \A g \in Entries : HasFile(g, Target(c)) => g \in x

PutInv(c, d, k, u, x) ==
  /\ PutType(c)
  /\ OpenIsLinked(c, d, k)
  /\ SharersUnsettled(c, u)
  /\ FindsItsFiles(c, d, k)
  /\ TornIsCrossed(c, d, k, x)

(* Two puts that share a file disturb each other, and every entry with a   *)
(* file that both write is crossed.                                        *)
MeetInv(b, c, x) ==
  Share(b.entry, c.entry) =>
    /\ ~b.undisturbed /\ ~c.undisturbed
    /\ \A g \in Entries, n \in Name :
         HasFile(g, n) /\ HasFile(b.entry, n) /\ HasFile(c.entry, n) => g \in x

WholeInv(d, k, x) ==
  \A g \in Entries, n \in DOMAIN d : HasFile(g, n) /\ g \notin x => k[d[n]] # Torn

(* The key and the signature file of e are of one put. *)
Paired(d, k, e) ==
  e \in DOMAIN d /\ SigPath(e) \in DOMAIN d => k[d[e]] = k[d[SigPath(e)]]

PairInv(s, d, k, u) ==
  \A e \in Entries : e.sub = "public" /\ e \notin u /\ Calm(s, e) => Paired(d, k, e)

(* get_public between its two reads, and after them. *)
GetInv(c, s, d, k, u) ==
  /\ c.at = "sig" => c.entry \in Entries /\ c.entry.sub = "public"
  /\ c.at = "sig" /\ c.undisturbed =>
       /\ Calm(s, c.entry) /\ c.entry \notin u
       /\ c.entry \in DOMAIN d /\ c.key = k[d[c.entry]]
  /\ c.at = "got" /\ c.undisturbed => c.key = c.sig

(* Every file is one of an entry or a temp file that a put has yet to      *)
(* rename or has left behind.                                              *)
NamedInv(s, d, u) ==
  \A n \in DOMAIN d :
    \/ \E e \in Entries : HasFile(e, n)
    \/ \E e \in Entries, m \in Name :
         HasFile(e, m) /\ n = Staged(m) /\ (e \in u \/ ~Calm(s, e))

PutsInv(s, d, k, u, x) ==
  \A p \in Processes : Writes(s[p]) => PutInv(s[p], d, k, u, x)

MeetsInv(s, x) ==
  \A p, q \in Processes : Writes(s[p]) /\ Writes(s[q]) /\ p # q => MeetInv(s[p], s[q], x)

GetsInv(s, d, k, u) == \A p \in Processes : GetInv(s[p], s, d, k, u)

StoreOk(s, d, k, u, x) ==
  /\ DirOk(d, k) /\ s \in [Processes -> Call]
  /\ PutsInv(s, d, k, u, x)
  /\ MeetsInv(s, x)
  /\ WholeInv(d, k, x)
  /\ PairInv(s, d, k, u)
  /\ GetsInv(s, d, k, u)
  /\ NamedInv(s, d, u)

(* What the store keeps. *)
StoreInv == puts \in Nat /\ StoreOk(store, dir, content, unsettled, crossed)

-----------------------------------------------------------------------------
(* The files that a put writes. *)
LEMMA PutFiles ==
  ASSUME NEW c, PutType(c)
  PROVE  /\ HasFile(c.entry, Target(c)) /\ Target(c) \in Name /\ Temp(c) \in Name
         /\ Head(c.todo) = Target(c) /\ c.entry \in Name
         /\ Len(c.todo) = 1 => c.entry.sub = "private" \/ Second(c)
         /\ Len(c.todo) # 1 => c.entry.sub = "public" /\ c.todo = <<c.entry, SigPath(c.entry)>>
         /\ Len(c.todo) \in {1, 2}
<1>1. c.entry \in Name /\ c.entry.sub \in {"private", "public"}
  BY EntryNames, ZenonT(30) DEF PutType
<1>2. HasFile(c.entry, Target(c))
  BY DEF Target, Second, HasFile
<1>3. Target(c) \in Name
  BY <1>2, FileNames DEF PutType
<1>4. Temp(c) \in Name
  <2>1. PICK a \in Seq(Parts), n \in Name : a = n.leaf /\ n = Target(c)
    BY <1>3 DEF Name
  <2>2. PICK k \in Nat : k = Len(a)
    BY LenProperties
  <2>3. IsTemp(Staged(n), n, a, k)
    BY <2>1, <2>2, TempNames
  <2> QED
    BY <2>1, <2>3, ZenonT(30) DEF IsTemp, Temp
<1>5. PICK e, g, t : e = c.entry /\ g = SigPath(c.entry) /\ t = c.todo
  OBVIOUS
<1>6. CASE e.sub = "private"
  <2>1. t = <<e>>
    BY <1>5, <1>6 DEF PutType, Paths
  <2>2. Len(t) = 1 /\ Head(t) = e /\ ~Second(c)
    BY <1>5, <1>6, <2>1 DEF Second
  <2> QED
    BY <1>1, <1>2, <1>3, <1>4, <1>5, <1>6, <2>2 DEF Target
<1>7. CASE e.sub = "public" /\ t = <<e, g>>
  <2>1. Len(t) = 2 /\ Head(t) = e
    BY <1>7
  <2>2. ~Second(c)
    BY <1>5, <2>1 DEF Second
  <2> QED
    BY <1>1, <1>2, <1>3, <1>4, <1>5, <1>7, <2>1, <2>2 DEF Target
<1>8. CASE e.sub = "public" /\ t = <<g>>
  <2>1. Len(t) = 1 /\ Head(t) = g
    BY <1>8
  <2>2. Second(c)
    BY <1>5, <1>8, <2>1 DEF Second
  <2> QED
    BY <1>1, <1>2, <1>3, <1>4, <1>5, <2>1, <2>2 DEF Target
<1>9. e.sub = "public" => t = <<e, g>> \/ t = <<g>>
  BY <1>5 DEF PutType, Paths
<1> QED
  BY <1>1, <1>5, <1>6, <1>7, <1>8, <1>9

(* A put touches no file, and no temp file of one, of an entry that does   *)
(* not share with its own.                                                 *)
LEMMA PutApart ==
  ASSUME NEW c, PutType(c), NEW e \in Entries, ~Share(c.entry, e), NEW n, HasFile(e, n)
  PROVE  /\ n # Target(c) /\ n # Temp(c)
         /\ Staged(n) # Target(c) /\ Staged(n) # Temp(c)
<1>1. HasFile(c.entry, Target(c)) /\ Target(c) \in Name /\ c.entry \in Entries
  BY PutFiles DEF PutType
<1>2. n \in Name
  BY FileNames
<1>3. n # Target(c) /\ Staged(n) # Temp(c)
  BY <1>1, FilesApart DEF Temp
<1>4. n # Temp(c)
  BY <1>1, TempIsNoFile DEF Temp
<1>5. Staged(n) # Target(c)
  BY <1>1, <1>2, TempIsNoFile
<1> QED
  BY <1>3, <1>4, <1>5

(* A temp file is no file of an entry. *)
LEMMA TempApart ==
  ASSUME NEW c, PutType(c), NEW e \in Entries, NEW n, HasFile(e, n)
  PROVE  n # Temp(c) /\ Temp(c) # Target(c) /\ Staged(n) # Target(c)
<1>1. HasFile(c.entry, Target(c)) /\ Target(c) \in Name /\ c.entry \in Entries
  BY PutFiles DEF PutType
<1>2. n \in Name
  BY FileNames
<1> QED
  BY <1>1, <1>2, TempIsNoFile DEF Temp

(* What an undisturbed put writes is its own. *)
LEMMA UndisturbedApart ==
  ASSUME NEW b, NEW c, NEW x, PutType(b), PutType(c), MeetInv(b, c, x),
         b.undisturbed \/ c.undisturbed
  PROVE  /\ ~Share(b.entry, c.entry) /\ ~Share(c.entry, b.entry)
         /\ Temp(b) # Temp(c) /\ Temp(b) # Target(c) /\ Target(b) # Target(c)
         /\ b.entry # Temp(c) /\ b.entry # Target(c)
         /\ Staged(b.entry) # Temp(c) /\ Staged(b.entry) # Target(c)
<1>1. ~Share(b.entry, c.entry) /\ ~Share(c.entry, b.entry)
  BY ShareBoth DEF MeetInv
<1>2. HasFile(b.entry, Target(b)) /\ HasFile(b.entry, b.entry) /\ b.entry \in Entries
  BY PutFiles DEF PutType, HasFile
<1>3. Temp(b) = Staged(Target(b))
  BY DEF Temp
<1> QED
  BY <1>1, <1>2, <1>3, PutApart

(* Process p goes on with its put: nobody else does anything. *)
PutGoesOn(s, p, at, fd, t) ==
  /\ t \in [Processes -> Call]
  /\ \A q \in Processes : q # p => t[q] = s[q]
  /\ t[p].at = at /\ t[p].fd = fd
  /\ t[p].entry = s[p].entry /\ t[p].todo = s[p].todo /\ t[p].put = s[p].put
  /\ t[p].undisturbed = s[p].undisturbed

(* The calls look the same to an entry. *)
LEMMA CalmGoesOn ==
  ASSUME NEW s, NEW p \in Processes, Writes(s[p]), NEW at \in {"fill", "rename"}, NEW fd,
         NEW t, PutGoesOn(s, p, at, fd, t)
  PROVE  /\ \A q \in Processes : Writes(t[q]) <=> Writes(s[q])
         /\ \A q \in Processes : t[q].entry = s[q].entry /\ t[q].undisturbed = s[q].undisturbed
         /\ \A e : Calm(t, e) <=> Calm(s, e)
         /\ Target(t[p]) = Target(s[p]) /\ Temp(t[p]) = Temp(s[p])
         /\ Second(t[p]) <=> Second(s[p])
<1>1. \A q \in Processes : Writes(t[q]) <=> Writes(s[q])
  BY DEF PutGoesOn, Writes
<1>2. \A q \in Processes : t[q].entry = s[q].entry /\ t[q].undisturbed = s[q].undisturbed
  BY DEF PutGoesOn
<1>3. \A e : Calm(t, e) <=> Calm(s, e)
  BY <1>1, <1>2 DEF Calm
<1>4. Second(t[p]) <=> Second(s[p])
  BY DEF PutGoesOn, Second
<1>5. Target(t[p]) = Target(s[p])
  BY <1>2, <1>4 DEF Target
<1> QED
  BY <1>1, <1>2, <1>3, <1>4, <1>5 DEF Temp

(* A put that goes on meets whom it met. *)
LEMMA MeetsGoesOn ==
  ASSUME NEW s, NEW p \in Processes, Writes(s[p]), NEW at \in {"fill", "rename"}, NEW fd,
         NEW t, PutGoesOn(s, p, at, fd, t), NEW x, MeetsInv(s, x)
  PROVE  MeetsInv(t, x)
<1>1. SUFFICES ASSUME NEW q \in Processes, NEW r \in Processes,
                      Writes(t[q]), Writes(t[r]), q # r
               PROVE  MeetInv(t[q], t[r], x)
  BY DEF MeetsInv
<1>2. /\ Writes(s[q]) /\ Writes(s[r])
      /\ t[q].entry = s[q].entry /\ t[r].entry = s[r].entry
      /\ t[q].undisturbed = s[q].undisturbed /\ t[r].undisturbed = s[r].undisturbed
  BY <1>1, CalmGoesOn
<1>3. MeetInv(s[q], s[r], x)
  BY <1>1, <1>2 DEF MeetsInv
<1> QED
  BY <1>2, <1>3 DEF MeetInv

-----------------------------------------------------------------------------
(* The directory d2 and the files k2 after fs::write has opened tmp as fd. *)
Opened(d, k, tmp, fd, d2, k2) ==
  /\ DirOk(d2, k2) /\ fd \in 1 .. Len(k2)
  /\ DOMAIN d2 = DOMAIN d \cup {tmp} /\ d2[tmp] = fd
  /\ \A n \in DOMAIN d : n # tmp => d2[n] = d[n] /\ k2[d2[n]] = k[d[n]] /\ d2[n] # fd
  /\ \A i \in 1 .. Len(k) : i \in 1 .. Len(k2) /\ (i = fd => tmp \in DOMAIN d /\ d[tmp] = fd)

(* A put opens its temp file. *)
LEMMA StageKeeps ==
  ASSUME NEW s, NEW d, NEW k, NEW u, NEW x, StoreOk(s, d, k, u, x),
         NEW p \in Processes, s[p].at = "stage",
         NEW tmp, tmp = Temp(s[p]), NEW fd, NEW d2, NEW k2, Opened(d, k, tmp, fd, d2, k2),
         NEW t, PutGoesOn(s, p, "fill", fd, t)
  PROVE  StoreOk(t, d2, k2, u, x)
<1>1. Writes(s[p]) /\ PutInv(s[p], d, k, u, x) /\ PutType(s[p])
  BY DEF StoreOk, PutsInv, Writes, PutInv
<1>2. /\ \A q \in Processes : Writes(t[q]) <=> Writes(s[q])
      /\ \A q \in Processes : t[q].entry = s[q].entry /\ t[q].undisturbed = s[q].undisturbed
      /\ \A e : Calm(t, e) <=> Calm(s, e)
      /\ Target(t[p]) = Target(s[p]) /\ Temp(t[p]) = tmp /\ (Second(t[p]) <=> Second(s[p]))
  BY <1>1, CalmGoesOn
<1>3. \A g \in Entries : \A n : HasFile(g, n) => n # tmp
  BY <1>1, TempApart
<1>4. \A n \in DOMAIN d : n # tmp => d2[n] = d[n] /\ k2[d2[n]] = k[d[n]] /\ n \in DOMAIN d2
  BY DEF Opened
<1>5. \A n \in DOMAIN d2 : n # tmp => n \in DOMAIN d
  BY DEF Opened
<1>6. PutInv(t[p], d2, k2, u, x)
  <2>1. PutType(t[p])
    BY <1>1 DEF PutType, PutGoesOn
  <2>2. OpenIsLinked(t[p], d2, k2)
    <3>1. fd \in 1 .. Len(k2) /\ t[p].fd = fd
      BY DEF Opened, PutGoesOn
    <3>2. \A n \in DOMAIN d2 : d2[n] = fd => n = tmp
      BY DEF Opened
    <3> QED
      BY <1>2, <3>1, <3>2 DEF OpenIsLinked
  <2>3. SharersUnsettled(t[p], u)
    BY <1>1, <1>2 DEF PutInv, SharersUnsettled
  <2>4. FindsItsFiles(t[p], d2, k2)
    <3>1. t[p].at = "fill" /\ tmp \in DOMAIN d2 /\ d2[tmp] = t[p].fd
      BY DEF Opened, PutGoesOn
    <3>2. ASSUME t[p].undisturbed, Second(t[p])
          PROVE  /\ t[p].entry \in DOMAIN d2 /\ k2[d2[t[p].entry]] = t[p].put
                 /\ Staged(t[p].entry) \notin DOMAIN d2
      <4>1. /\ s[p].entry \in DOMAIN d /\ k[d[s[p].entry]] = s[p].put
            /\ Staged(s[p].entry) \notin DOMAIN d
        BY <1>1, <1>2, <3>2 DEF PutInv, FindsItsFiles
      <4>2. s[p].entry \in Entries /\ HasFile(s[p].entry, s[p].entry) /\ s[p].entry \in Name
        BY <1>1, EntryNames, ZenonT(30) DEF PutType, HasFile
      <4>3. s[p].entry # tmp
        BY <1>3, <4>2
      <4>4. Staged(s[p].entry) # tmp
        <5>1. tmp = Staged(SigPath(s[p].entry))
          BY <1>2, <3>2 DEF Temp, Target
        <5>2. SigPath(s[p].entry) \in Name /\ SigPath(s[p].entry) # s[p].entry
          BY <4>2, SigNames
        <5> QED
          BY <4>2, <5>1, <5>2, StagedInjective
      <4>5. t[p].entry = s[p].entry /\ t[p].put = s[p].put
        BY DEF PutGoesOn
      <4> QED
        BY <1>4, <1>5, <4>1, <4>3, <4>4, <4>5
    <3> QED
      BY <1>2, <3>1, <3>2 DEF FindsItsFiles
  <2>5. TornIsCrossed(t[p], d2, k2, x)
    <3>1. t[p].at = "fill" /\ d2[tmp] = t[p].fd
      BY DEF Opened, PutGoesOn
    <3> QED
      BY <1>2, <3>1 DEF TornIsCrossed
  <2> QED
    BY <2>1, <2>2, <2>3, <2>4, <2>5 DEF PutInv
<1>7. ASSUME NEW q \in Processes, q # p, Writes(s[q]) PROVE PutInv(s[q], d2, k2, u, x)
  <2>1. PutInv(s[q], d, k, u, x) /\ PutType(s[q]) /\ MeetInv(s[q], s[p], x)
    BY <1>1, <1>7 DEF StoreOk, PutsInv, MeetsInv, PutInv
  <2>2. OpenIsLinked(s[q], d2, k2)
    <3>1. SUFFICES ASSUME s[q].at = "fill"
                   PROVE  /\ s[q].fd \in 1 .. Len(k2)
                          /\ \A n \in DOMAIN d2 : d2[n] = s[q].fd =>
                               n = Temp(s[q]) \/ n = Target(s[q])
      BY DEF OpenIsLinked
    <3>2. /\ s[q].fd \in 1 .. Len(k)
          /\ \A n \in DOMAIN d : d[n] = s[q].fd => n = Temp(s[q]) \/ n = Target(s[q])
      BY <2>1, <3>1 DEF PutInv, OpenIsLinked
    <3>3. s[q].fd \in 1 .. Len(k2) /\ (s[q].fd = fd => tmp \in DOMAIN d /\ d[tmp] = fd)
      BY <3>2 DEF Opened
    <3>4. d2[tmp] = fd
      BY DEF Opened
    <3> QED
      BY <1>4, <1>5, <3>2, <3>3, <3>4
  <2>3. FindsItsFiles(s[q], d2, k2)
    <3>1. SUFFICES ASSUME s[q].undisturbed PROVE FindsItsFiles(s[q], d2, k2)
      BY DEF FindsItsFiles
    <3>2. Temp(s[q]) # tmp /\ s[q].entry # tmp /\ Staged(s[q].entry) # tmp
      BY <1>1, <2>1, <3>1, UndisturbedApart
    <3> QED
      BY <1>4, <1>5, <2>1, <3>1, <3>2 DEF PutInv, FindsItsFiles
  <2>4. TornIsCrossed(s[q], d2, k2, x)
    <3>1. CASE Temp(s[q]) # tmp
      BY <1>4, <1>5, <2>1, <3>1 DEF PutInv, TornIsCrossed
    <3>2. CASE Temp(s[q]) = tmp
      <4>1. Target(s[q]) \in Name /\ Target(s[p]) \in Name
        BY <1>1, <2>1, PutFiles
      <4>2. Target(s[q]) = Target(s[p])
        BY <3>2, <4>1, StagedInjective DEF Temp
      <4>3. HasFile(s[q].entry, Target(s[q])) /\ HasFile(s[p].entry, Target(s[q]))
        BY <1>1, <2>1, <4>2, PutFiles
      <4>4. Share(s[q].entry, s[p].entry)
        BY <1>1, <2>1, <4>3, SharedFile DEF PutType
      <4>5. \A g \in Entries : HasFile(g, Target(s[q])) => g \in x
        BY <2>1, <4>1, <4>3, <4>4 DEF MeetInv
      <4> QED
        BY <4>5 DEF TornIsCrossed
    <3> QED
      BY <3>1, <3>2
  <2> QED
    BY <2>1, <2>2, <2>3, <2>4 DEF PutInv
<1>8. PutsInv(t, d2, k2, u, x)
  BY <1>2, <1>6, <1>7 DEF PutsInv, PutGoesOn
<1>9. MeetsInv(t, x)
  BY <1>1, MeetsGoesOn DEF StoreOk
<1>10. WholeInv(d2, k2, x)
  BY <1>3, <1>4, <1>5 DEF StoreOk, WholeInv
<1>11. PairInv(t, d2, k2, u)
  <2>1. SUFFICES ASSUME NEW e \in Entries, e.sub = "public", e \notin u, Calm(t, e)
                 PROVE  Paired(d2, k2, e)
    BY DEF PairInv
  <2>2. Paired(d, k, e)
    BY <1>2, <2>1 DEF StoreOk, PairInv
  <2>3. e # tmp /\ SigPath(e) # tmp
    BY <1>3, <2>1 DEF HasFile
  <2> QED
    BY <1>4, <1>5, <2>2, <2>3 DEF Paired
<1>12. GetsInv(t, d2, k2, u)
  <2>1. SUFFICES ASSUME NEW q \in Processes PROVE GetInv(t[q], t, d2, k2, u)
    BY DEF GetsInv
  <2>2. CASE q = p
    <3>1. t[q].at = "fill"
      BY <2>2 DEF PutGoesOn
    <3> QED
      BY <3>1 DEF GetInv
  <2>3. CASE q # p
    <3>1. t[q] = s[q] /\ GetInv(s[q], s, d, k, u)
      BY <2>3 DEF PutGoesOn, StoreOk, GetsInv
    <3>2. s[q].at = "sig" => s[q].entry # tmp
      BY <1>3, <3>1 DEF GetInv, HasFile
    <3> QED
      BY <1>2, <1>4, <3>1, <3>2 DEF GetInv
  <2> QED
    BY <2>2, <2>3
<1>13. NamedInv(t, d2, u)
  <2>1. SUFFICES ASSUME NEW n \in DOMAIN d2
                 PROVE  \/ \E e \in Entries : HasFile(e, n)
                        \/ \E e \in Entries, m \in Name :
                             HasFile(e, m) /\ n = Staged(m) /\ (e \in u \/ ~Calm(t, e))
    BY DEF NamedInv
  <2>2. CASE n = tmp
    <3>1. /\ s[p].entry \in Entries /\ Target(s[p]) \in Name
          /\ HasFile(s[p].entry, Target(s[p])) /\ n = Staged(Target(s[p]))
      BY <1>1, <2>2, PutFiles DEF PutType, Temp
    <3>2. ~Calm(s, s[p].entry)
      BY <1>1, ShareBoth DEF Calm
    <3> QED
      BY <1>2, <3>1, <3>2
  <2>3. CASE n # tmp
    BY <1>2, <1>5, <2>3 DEF StoreOk, NamedInv
  <2> QED
    BY <2>2, <2>3
<1>14. DirOk(d2, k2) /\ t \in [Processes -> Call]
  BY DEF Opened, PutGoesOn
<1> QED
  BY <1>8, <1>9, <1>10, <1>11, <1>12, <1>13, <1>14 DEF StoreOk

(* A put writes the file that it has open. *)
LEMMA FillKeeps ==
  ASSUME NEW s, NEW d, NEW k, NEW u, NEW x, StoreOk(s, d, k, u, x),
         NEW p \in Processes, s[p].at = "fill", NEW k2, k2 \in Seq(Nat), Len(k2) = Len(k),
         k2[s[p].fd] = s[p].put, \A i \in 1 .. Len(k) : i # s[p].fd => k2[i] = k[i],
         NEW t, PutGoesOn(s, p, "rename", 0, t)
  PROVE  StoreOk(t, d, k2, u, x)
<1>1. Writes(s[p]) /\ PutInv(s[p], d, k, u, x) /\ PutType(s[p]) /\ DirOk(d, k)
  BY DEF StoreOk, PutsInv, Writes, PutInv
<1>2. /\ \A q \in Processes : Writes(t[q]) <=> Writes(s[q])
      /\ \A q \in Processes : t[q].entry = s[q].entry /\ t[q].undisturbed = s[q].undisturbed
      /\ \A e : Calm(t, e) <=> Calm(s, e)
      /\ Target(t[p]) = Target(s[p]) /\ Temp(t[p]) = Temp(s[p])
      /\ Second(t[p]) <=> Second(s[p])
  BY <1>1, CalmGoesOn
<1>3. \A n \in DOMAIN d :
        \/ d[n] = s[p].fd /\ (n = Temp(s[p]) \/ n = Target(s[p])) /\ k2[d[n]] = s[p].put
        \/ d[n] # s[p].fd /\ k2[d[n]] = k[d[n]]
  BY <1>1 DEF DirOk, PutInv, OpenIsLinked
<1>4. \A n \in DOMAIN d : k2[d[n]] = Torn => k[d[n]] = Torn /\ d[n] # s[p].fd
  BY <1>1, <1>3 DEF PutType
<1>5. PutInv(t[p], d, k2, u, x)
  <2>1. PutType(t[p])
    BY <1>1 DEF PutType, PutGoesOn
  <2>2. t[p].at = "rename" /\ t[p].put = s[p].put
    BY DEF PutGoesOn
  <2>3. OpenIsLinked(t[p], d, k2)
    BY <2>2 DEF OpenIsLinked
  <2>4. SharersUnsettled(t[p], u)
    BY <1>1, <1>2 DEF PutInv, SharersUnsettled
  <2>5. FindsItsFiles(t[p], d, k2)
    <3>1. SUFFICES ASSUME t[p].undisturbed PROVE FindsItsFiles(t[p], d, k2)
      BY DEF FindsItsFiles
    <3>2. /\ Temp(s[p]) \in DOMAIN d /\ d[Temp(s[p])] = s[p].fd
          /\ Second(s[p]) => /\ s[p].entry \in DOMAIN d /\ k[d[s[p].entry]] = s[p].put
                             /\ Staged(s[p].entry) \notin DOMAIN d
      BY <1>1, <1>2, <3>1, ZenonT(30) DEF PutInv, FindsItsFiles
    <3>3. k2[d[Temp(s[p])]] = s[p].put
      BY <1>3, <3>2
    <3>4. Second(s[p]) => k2[d[s[p].entry]] = s[p].put
      BY <1>3, <3>2
    <3> QED
      BY <1>2, <2>2, <3>2, <3>3, <3>4 DEF FindsItsFiles
  <2>6. TornIsCrossed(t[p], d, k2, x)
    BY <1>1, <1>2, <1>4, <2>2, ZenonT(30) DEF PutInv, TornIsCrossed
  <2> QED
    BY <2>1, <2>3, <2>4, <2>5, <2>6 DEF PutInv
<1>6. ASSUME NEW q \in Processes, q # p, Writes(s[q]) PROVE PutInv(s[q], d, k2, u, x)
  <2>1. PutInv(s[q], d, k, u, x) /\ PutType(s[q]) /\ MeetInv(s[q], s[p], x)
    BY <1>1, <1>6, ZenonT(30) DEF StoreOk, PutsInv, MeetsInv, PutInv
  <2>2. OpenIsLinked(s[q], d, k2)
    BY <2>1, ZenonT(30) DEF PutInv, OpenIsLinked
  <2>3. FindsItsFiles(s[q], d, k2)
    <3>1. SUFFICES ASSUME s[q].undisturbed PROVE FindsItsFiles(s[q], d, k2)
      BY DEF FindsItsFiles
    <3>2. /\ Temp(s[q]) # Temp(s[p]) /\ Temp(s[q]) # Target(s[p])
          /\ s[q].entry # Temp(s[p]) /\ s[q].entry # Target(s[p])
      BY <1>1, <2>1, <3>1, UndisturbedApart, ZenonT(30)
    <3> QED
      BY <1>3, <2>1, <3>1, <3>2, ZenonT(30) DEF PutInv, FindsItsFiles
  <2>4. TornIsCrossed(s[q], d, k2, x)
    BY <1>4, <2>1 DEF PutInv, TornIsCrossed
  <2> QED
    BY <2>1, <2>2, <2>3, <2>4 DEF PutInv
<1>7. PutsInv(t, d, k2, u, x)
  BY <1>2, <1>5, <1>6 DEF PutsInv, PutGoesOn
<1>8. MeetsInv(t, x)
  BY <1>1, MeetsGoesOn DEF StoreOk
<1>9. WholeInv(d, k2, x)
  BY <1>4 DEF StoreOk, WholeInv
<1>10. ASSUME NEW e \in Entries, Calm(s, e), NEW n \in DOMAIN d, HasFile(e, n)
       PROVE  k2[d[n]] = k[d[n]]
  <2>1. ~Share(s[p].entry, e)
    BY <1>1, <1>10 DEF Calm
  <2>2. n # Temp(s[p]) /\ n # Target(s[p])
    BY <1>1, <1>10, <2>1, PutApart
  <2> QED
    BY <1>3, <2>2
<1>11. PairInv(t, d, k2, u)
  <2>1. SUFFICES ASSUME NEW e \in Entries, e.sub = "public", e \notin u, Calm(t, e),
                        e \in DOMAIN d, SigPath(e) \in DOMAIN d
                 PROVE  k2[d[e]] = k2[d[SigPath(e)]]
    BY DEF PairInv, Paired
  <2>2. k[d[e]] = k[d[SigPath(e)]]
    BY <1>2, <2>1 DEF StoreOk, PairInv, Paired
  <2>3. HasFile(e, e) /\ HasFile(e, SigPath(e)) /\ Calm(s, e)
    BY <1>2, <2>1 DEF HasFile
  <2> QED
    BY <1>10, <2>1, <2>2, <2>3
<1>12. GetsInv(t, d, k2, u)
  <2>1. SUFFICES ASSUME NEW q \in Processes PROVE GetInv(t[q], t, d, k2, u)
    BY DEF GetsInv
  <2>2. CASE q = p
    <3>1. t[q].at = "rename"
      BY <2>2 DEF PutGoesOn
    <3> QED
      BY <3>1 DEF GetInv
  <2>3. CASE q # p
    <3>1. t[q] = s[q] /\ GetInv(s[q], s, d, k, u)
      BY <2>3, ZenonT(30) DEF PutGoesOn, StoreOk, GetsInv
    <3>2. s[q].at = "sig" /\ s[q].undisturbed => k2[d[s[q].entry]] = k[d[s[q].entry]]
      BY <1>10, <3>1 DEF GetInv, HasFile
    <3> QED
      BY <1>2, <3>1, <3>2, ZenonT(30) DEF GetInv
  <2> QED
    BY <2>2, <2>3
<1>13. NamedInv(t, d, u)
  BY <1>2 DEF StoreOk, NamedInv
<1>14. DirOk(d, k2) /\ t \in [Processes -> Call]
  BY <1>1 DEF DirOk, PutGoesOn
<1> QED
  BY <1>7, <1>8, <1>9, <1>11, <1>12, <1>13, <1>14 DEF StoreOk

-----------------------------------------------------------------------------
(* The calls t, after p has left its put: nobody else does anything. *)
Left(s, p, t) ==
  /\ t \in [Processes -> Call] /\ t[p].at = "idle"
  /\ \A q \in Processes : q # p => t[q] = s[q]

(* A put ends without its last rename: the process dies, or the temp file  *)
(* is gone.  Whatever shares a file with the put is unsettled.             *)
LEMMA LeaveKeeps ==
  ASSUME NEW s, NEW d, NEW k, NEW u, NEW x, StoreOk(s, d, k, u, x),
         NEW p \in Processes, Writes(s[p]), NEW t, Left(s, p, t), NEW v, u \subseteq v,
         \A f \in Entries : Share(s[p].entry, f) => f \in v,
         \A f \in v : f \in u \/ f = s[p].entry
  PROVE  StoreOk(t, d, k, v, x)
<1>1. PutType(s[p])
  BY DEF StoreOk, PutsInv, PutInv
<1>2. /\ ~Writes(t[p])
      /\ \A q \in Processes : Writes(t[q]) => q # p /\ t[q] = s[q] /\ Writes(s[q])
  BY DEF Left, Writes
<1>3. \A e : Calm(s, e) => Calm(t, e)
  BY <1>2 DEF Calm
<1>4. \A e \in Entries : e \notin v /\ Calm(t, e) => e \notin u /\ Calm(s, e)
  BY DEF Calm, Left
<1>5. PutsInv(t, d, k, v, x)
  <2>1. SUFFICES ASSUME NEW q \in Processes, Writes(s[q]) PROVE PutInv(s[q], d, k, v, x)
    BY <1>2 DEF PutsInv
  <2>2. PutInv(s[q], d, k, u, x)
    BY <2>1 DEF StoreOk, PutsInv
  <2> QED
    BY <2>2 DEF PutInv, SharersUnsettled
<1>6. MeetsInv(t, x)
  BY <1>2 DEF StoreOk, MeetsInv
<1>7. PairInv(t, d, k, v)
  BY <1>4 DEF StoreOk, PairInv
<1>8. GetsInv(t, d, k, v)
  <2>1. SUFFICES ASSUME NEW q \in Processes PROVE GetInv(t[q], t, d, k, v)
    BY DEF GetsInv
  <2>2. CASE q = p
    BY <2>2 DEF GetInv, Left
  <2>3. CASE q # p
    <3>1. t[q] = s[q] /\ GetInv(s[q], s, d, k, u)
      BY <2>3 DEF Left, StoreOk, GetsInv
    <3>2. s[q].at = "sig" /\ s[q].undisturbed => s[q].entry \notin v
      BY <3>1, ShareBoth DEF GetInv, Calm
    <3> QED
      BY <1>3, <3>1, <3>2 DEF GetInv
  <2> QED
    BY <2>2, <2>3
<1>9. NamedInv(t, d, v)
  <2>1. \A e \in Entries : e \in u \/ ~Calm(s, e) => e \in v \/ ~Calm(t, e)
    BY <1>4
  <2> QED
    BY <2>1 DEF StoreOk, NamedInv
<1> QED
  BY <1>5, <1>6, <1>7, <1>8, <1>9 DEF StoreOk, Left

(* A process reads: its call before and after is no put. *)
LEMMA ReadKeeps ==
  ASSUME NEW s, NEW d, NEW k, NEW u, NEW x, StoreOk(s, d, k, u, x),
         NEW p \in Processes, ~Writes(s[p]), NEW t, t \in [Processes -> Call],
         \A q \in Processes : q # p => t[q] = s[q],
         ~Writes(t[p]), GetInv(t[p], s, d, k, u)
  PROVE  StoreOk(t, d, k, u, x)
<1>1. \A q \in Processes : Writes(t[q]) <=> Writes(s[q])
  OBVIOUS
<1>2. \A q \in Processes : Writes(t[q]) => t[q] = s[q]
  OBVIOUS
<1>3. \A e : Calm(t, e) <=> Calm(s, e)
  BY <1>1, <1>2 DEF Calm
<1>4. PutsInv(t, d, k, u, x)
  BY <1>1, <1>2 DEF StoreOk, PutsInv
<1>5. MeetsInv(t, x)
  BY <1>1, <1>2 DEF StoreOk, MeetsInv
<1>6. PairInv(t, d, k, u)
  BY <1>3 DEF StoreOk, PairInv
<1>7. GetsInv(t, d, k, u)
  <2>1. SUFFICES ASSUME NEW q \in Processes PROVE GetInv(t[q], t, d, k, u)
    BY DEF GetsInv
  <2>2. GetInv(t[q], s, d, k, u)
    BY DEF StoreOk, GetsInv
  <2> QED
    BY <1>3, <2>2 DEF GetInv
<1>8. NamedInv(t, d, u)
  BY <1>3 DEF StoreOk, NamedInv
<1> QED
  BY <1>4, <1>5, <1>6, <1>7, <1>8 DEF StoreOk

(* The directory d2 after tmp was renamed to path. *)
Renamed(d, tmp, path, d2) ==
  /\ d2 = [n \in DOMAIN d2 |-> d2[n]]
  /\ DOMAIN d2 = (DOMAIN d \ {tmp}) \cup {path} /\ d2[path] = d[tmp]
  /\ \A n \in DOMAIN d2 : n # path => n \in DOMAIN d /\ n # tmp /\ d2[n] = d[n]

(* The calls t after a rename of p: its put has ended, or goes on with the *)
(* signature file.                                                         *)
HasRenamed(s, p, t) ==
  /\ t \in [Processes -> Call]
  /\ \A q \in Processes : q # p => t[q] = s[q]
  /\ Len(s[p].todo) = 1 => t[p].at = "idle"
  /\ Len(s[p].todo) # 1 =>
       /\ t[p].at = "stage" /\ t[p].todo = <<SigPath(s[p].entry)>>
       /\ t[p].entry = s[p].entry /\ t[p].put = s[p].put
       /\ t[p].undisturbed = s[p].undisturbed

(* What an undisturbed put has settled with its last rename. *)
Settled(c) == IF Len(c.todo) = 1 /\ c.undisturbed THEN {c.entry} ELSE {}

(* Nobody who writes shares with an entry that was settled. *)
LEMMA SettledApart ==
  ASSUME NEW s, NEW d, NEW k, NEW u, NEW x, StoreOk(s, d, k, u, x),
         NEW p \in Processes, Writes(s[p]), NEW q \in Processes, q # p, Writes(s[q]),
         NEW f \in Settled(s[p])
  PROVE  ~Share(s[q].entry, f) /\ \A n : HasFile(s[q].entry, n) => ~HasFile(f, n)
<1>1. f = s[p].entry /\ s[p].undisturbed
  BY DEF Settled
<1>2. PutType(s[p]) /\ PutType(s[q]) /\ MeetInv(s[q], s[p], x)
  BY DEF StoreOk, PutsInv, PutInv, MeetsInv
<1>3. ~Share(s[q].entry, f)
  BY <1>1, <1>2 DEF MeetInv
<1> QED
  BY <1>1, <1>2, <1>3, SharedFile DEF PutType

(* The puts of the others after a rename. *)
LEMMA RenamePuts ==
  ASSUME NEW s, NEW d, NEW k, NEW u, NEW x, StoreOk(s, d, k, u, x),
         NEW p \in Processes, s[p].at = "rename", Temp(s[p]) \in DOMAIN d,
         NEW d2, Renamed(d, Temp(s[p]), Target(s[p]), d2),
         NEW q \in Processes, q # p, Writes(s[q])
  PROVE  PutInv(s[q], d2, k, u \ Settled(s[p]), x \ Settled(s[p]))
<1>1. Writes(s[p]) /\ PutType(s[p])
  BY DEF StoreOk, PutsInv, Writes, PutInv
<1>2. PutInv(s[q], d, k, u, x) /\ PutType(s[q]) /\ MeetInv(s[q], s[p], x)
  BY <1>1 DEF StoreOk, PutsInv, MeetsInv, PutInv
<1>3. PICK tmp, path : tmp = Temp(s[p]) /\ path = Target(s[p])
  OBVIOUS
<1>4. /\ \A n \in DOMAIN d2 : n # path => n \in DOMAIN d /\ n # tmp /\ d2[n] = d[n]
      /\ \A n \in DOMAIN d : n # tmp => n \in DOMAIN d2
      /\ d2[path] = d[tmp] /\ tmp \in DOMAIN d
  BY <1>3 DEF Renamed
<1>5. /\ HasFile(s[q].entry, Target(s[q])) /\ Target(s[q]) \in Name /\ Target(s[p]) \in Name
      /\ s[q].entry \in Entries
  BY <1>1, <1>2, PutFiles, ZenonT(30) DEF PutType
<1>6. OpenIsLinked(s[q], d2, k)
  <2>1. SUFFICES ASSUME s[q].at = "fill", NEW n \in DOMAIN d2, d2[n] = s[q].fd
                 PROVE  n = Temp(s[q]) \/ n = Target(s[q])
    BY <1>2 DEF PutInv, OpenIsLinked
  <2>2. \A m \in DOMAIN d : d[m] = s[q].fd => m = Temp(s[q]) \/ m = Target(s[q])
    BY <1>2, <2>1, ZenonT(30) DEF PutInv, OpenIsLinked
  <2>3. CASE n # path
    BY <1>4, <2>1, <2>2, <2>3
  <2>4. CASE n = path
    <3>1. tmp = Temp(s[q]) \/ tmp = Target(s[q])
      BY <1>4, <2>1, <2>2, <2>4
    <3>2. tmp # Target(s[q])
      BY <1>1, <1>3, <1>5, TempApart
    <3>3. Target(s[q]) = path
      BY <1>3, <1>5, <3>1, <3>2, StagedInjective DEF Temp
    <3> QED
      BY <2>4, <3>3
  <2> QED
    BY <2>3, <2>4
<1>7. SharersUnsettled(s[q], u \ Settled(s[p]))
  <2>1. \A f \in Settled(s[p]) : ~Share(s[q].entry, f)
    BY <1>1, SettledApart, ZenonT(30)
  <2> QED
    BY <1>2, <2>1 DEF PutInv, SharersUnsettled
<1>8. FindsItsFiles(s[q], d2, k)
  <2>1. SUFFICES ASSUME s[q].undisturbed PROVE FindsItsFiles(s[q], d2, k)
    BY ZenonT(30) DEF FindsItsFiles
  <2>2. /\ Temp(s[q]) # tmp /\ Temp(s[q]) # path
        /\ s[q].entry # tmp /\ s[q].entry # path /\ Staged(s[q].entry) # path
    BY <1>1, <1>2, <1>3, <2>1, UndisturbedApart, ZenonT(30)
  <2> QED
    BY <1>2, <1>4, <2>1, <2>2, ZenonT(30) DEF PutInv, FindsItsFiles
<1>9. TornIsCrossed(s[q], d2, k, x \ Settled(s[p]))
  <2>1. SUFFICES ASSUME s[q].at \in {"fill", "rename"}, Temp(s[q]) \in DOMAIN d2,
                        k[d2[Temp(s[q])]] = Torn, s[q].at = "fill" => d2[Temp(s[q])] # s[q].fd,
                        NEW g \in Entries, HasFile(g, Target(s[q]))
                 PROVE  g \in x \ Settled(s[p])
    BY ZenonT(30) DEF TornIsCrossed
  <2>2. Temp(s[q]) # path
    BY <1>1, <1>3, <1>5, TempApart, ZenonT(30) DEF Temp
  <2>3. g \in x
    BY <1>2, <1>4, <2>1, <2>2, ZenonT(30) DEF PutInv, TornIsCrossed
  <2>4. g \notin Settled(s[p])
    BY <1>1, <1>5, <2>1, SettledApart, ZenonT(30)
  <2> QED
    BY <2>3, <2>4
<1> QED
  BY <1>2, <1>6, <1>7, <1>8, <1>9 DEF PutInv

(* A put that goes on with the signature file. *)
LEMMA RenameOwn ==
  ASSUME NEW s, NEW d, NEW k, NEW u, NEW x, StoreOk(s, d, k, u, x),
         NEW p \in Processes, s[p].at = "rename", Temp(s[p]) \in DOMAIN d,
         NEW d2, Renamed(d, Temp(s[p]), Target(s[p]), d2),
         NEW t, HasRenamed(s, p, t), Len(s[p].todo) # 1
  PROVE  PutInv(t[p], d2, k, u, x)
<1>1. PutInv(s[p], d, k, u, x) /\ PutType(s[p])
  BY DEF StoreOk, PutsInv, Writes, PutInv
<1>2. s[p].entry.sub = "public" /\ Target(s[p]) = s[p].entry
  BY <1>1, PutFiles, ZenonT(30) DEF Target, Second
<1>3. /\ t[p].at = "stage" /\ t[p].todo = <<SigPath(s[p].entry)>>
      /\ t[p].entry = s[p].entry /\ t[p].put = s[p].put
      /\ t[p].undisturbed = s[p].undisturbed
  BY DEF HasRenamed
<1>4. PutType(t[p])
  BY <1>1, <1>2, <1>3, ZenonT(30) DEF PutType
<1>5. OpenIsLinked(t[p], d2, k) /\ TornIsCrossed(t[p], d2, k, x)
  BY <1>3, ZenonT(30) DEF OpenIsLinked, TornIsCrossed
<1>6. SharersUnsettled(t[p], u)
  BY <1>1, <1>3, ZenonT(30) DEF PutInv, SharersUnsettled
<1>7. ASSUME t[p].undisturbed
      PROVE  /\ s[p].entry \in DOMAIN d2 /\ k[d2[s[p].entry]] = s[p].put
             /\ Staged(s[p].entry) \notin DOMAIN d2
  <2>1. k[d[Temp(s[p])]] = s[p].put
    BY <1>1, <1>3, <1>7, ZenonT(30) DEF PutInv, FindsItsFiles
  <2>2. s[p].entry \in DOMAIN d2 /\ d2[s[p].entry] = d[Temp(s[p])]
    BY <1>2 DEF Renamed
  <2>3. Temp(s[p]) # Target(s[p])
    BY <1>1, PutFiles, TempApart, ZenonT(30) DEF PutType
  <2>4. Temp(s[p]) \notin DOMAIN d2
    BY <2>3 DEF Renamed
  <2> QED
    BY <1>2, <2>1, <2>2, <2>4, ZenonT(30) DEF Temp
<1>8. FindsItsFiles(t[p], d2, k)
  BY <1>3, <1>7 DEF FindsItsFiles
<1> QED
  BY <1>4, <1>5, <1>6, <1>8, ZenonT(30) DEF PutInv

(* A put renames its temp file. *)
LEMMA RenameKeeps ==
  ASSUME NEW s, NEW d, NEW k, NEW u, NEW x, StoreOk(s, d, k, u, x),
         NEW p \in Processes, s[p].at = "rename", Temp(s[p]) \in DOMAIN d,
         NEW d2, Renamed(d, Temp(s[p]), Target(s[p]), d2),
         NEW t, HasRenamed(s, p, t)
  PROVE  StoreOk(t, d2, k, u \ Settled(s[p]), x \ Settled(s[p]))
<1>1. Writes(s[p]) /\ PutInv(s[p], d, k, u, x) /\ PutType(s[p]) /\ s[p].entry \in Entries
  BY ZenonT(30) DEF StoreOk, PutsInv, Writes, PutInv, PutType
<1>2. PICK tmp, path, e : tmp = Temp(s[p]) /\ path = Target(s[p]) /\ e = s[p].entry
  BY ZenonT(30)
<1>3. PICK done : done = Settled(s[p])
  BY ZenonT(30)
<1>4. /\ \A n \in DOMAIN d2 : n # path => n \in DOMAIN d /\ n # tmp /\ d2[n] = d[n]
      /\ path \in DOMAIN d2 /\ d2[path] = d[tmp] /\ tmp \in DOMAIN d /\ e \in Entries
      /\ HasFile(e, path)
  BY <1>1, <1>2, PutFiles DEF Renamed
<1>5. /\ \A f \in done : f = e /\ s[p].undisturbed /\ Len(s[p].todo) = 1
      /\ s[p].undisturbed /\ Len(s[p].todo) = 1 => e \in done
      /\ Len(s[p].todo) # 1 => done = {}
  BY <1>2, <1>3 DEF Settled
<1>6. s[p].undisturbed => k[d[tmp]] = s[p].put /\ k[d[tmp]] # Torn
  BY <1>1, <1>2, ZenonT(30) DEF PutInv, FindsItsFiles, PutType
<1>7. ASSUME e \in done
      PROVE  \/ path = e /\ e.sub # "public"
             \/ /\ path = SigPath(e) /\ e.sub = "public" /\ path # e
                /\ e \in DOMAIN d2 /\ d2[e] = d[e]
                /\ k[d[e]] = s[p].put /\ k[d[e]] # Torn /\ Staged(e) \notin DOMAIN d
  <2>1. s[p].undisturbed /\ Len(s[p].todo) = 1
    BY <1>5, <1>7
  <2>2. CASE Second(s[p])
    <3>1. path = SigPath(e) /\ e.sub = "public"
      BY <1>2, <2>2 DEF Target, Second
    <3>2. e \in DOMAIN d /\ k[d[e]] = s[p].put /\ Staged(e) \notin DOMAIN d
      BY <1>1, <1>2, <2>1, <2>2, ZenonT(30) DEF PutInv, FindsItsFiles
    <3>3. e # path /\ e # tmp
      BY <1>1, <1>2, <1>4, <3>1, EntryNames, SigNames, TempApart, ZenonT(30) DEF HasFile
    <3>4. e \in DOMAIN d2
      BY <1>2, <3>2, <3>3 DEF Renamed
    <3> QED
      BY <1>1, <1>4, <3>1, <3>2, <3>3, <3>4, ZenonT(30) DEF PutType
  <2>3. CASE ~Second(s[p])
    BY <1>1, <1>2, <2>1, <2>3, PutFiles, ZenonT(30) DEF Target
  <2> QED
    BY <2>2, <2>3, ZenonT(30)
<1>8. /\ \A q \in Processes : q # p => t[q] = s[q]
      /\ Writes(t[p]) <=> Len(s[p].todo) # 1
      /\ Len(s[p].todo) # 1 => t[p].entry = e /\ t[p].undisturbed = s[p].undisturbed
  BY <1>2, ZenonT(30) DEF HasRenamed, Writes
<1>9. ASSUME NEW f, Calm(s, f) PROVE Calm(t, f)
  BY <1>1, <1>2, <1>8, <1>9 DEF Calm
<1>10. ASSUME NEW f \in Entries, f \notin u \ done, Calm(t, f)
       PROVE  f \in done \/ (f \notin u /\ Calm(s, f) /\ ~Share(e, f))
  <2>1. SUFFICES ASSUME f \notin done PROVE f \notin u /\ Calm(s, f) /\ ~Share(e, f)
    OBVIOUS
  <2>2. f \notin u
    BY <1>10, <2>1
  <2>3. ~Share(e, f)
    <3>1. Share(e, f) => f = e /\ s[p].undisturbed
      BY <1>1, <1>2, <2>2 DEF PutInv, SharersUnsettled
    <3>2. Len(s[p].todo) # 1 => ~Share(e, f)
      BY <1>8, <1>10 DEF Calm
    <3> QED
      BY <1>5, <2>1, <3>1, <3>2
  <2>4. Calm(s, f)
    BY <1>2, <1>8, <1>10, <2>3 DEF Calm
  <2> QED
    BY <2>2, <2>3, <2>4
<1>11. PutsInv(t, d2, k, u \ done, x \ done)
  <2>1. ASSUME NEW q \in Processes, q # p, Writes(s[q])
        PROVE  PutInv(s[q], d2, k, u \ done, x \ done)
    BY <1>3, <2>1, RenamePuts
  <2>2. ASSUME Len(s[p].todo) # 1 PROVE PutInv(t[p], d2, k, u \ done, x \ done)
    <3>1. u \ done = u /\ x \ done = x
      BY <1>5, <2>2
    <3>2. PutInv(t[p], d2, k, u, x)
      BY <2>2, RenameOwn
    <3> QED
      BY <3>1, <3>2
  <2> QED
    BY <1>8, <2>1, <2>2 DEF PutsInv
<1>12. MeetsInv(t, x \ done)
  <2>1. SUFFICES ASSUME NEW q \in Processes, NEW r \in Processes,
                        Writes(t[q]), Writes(t[r]), q # r
                 PROVE  MeetInv(t[q], t[r], x \ done)
    BY DEF MeetsInv
  <2>2. /\ Writes(s[q]) /\ t[q].entry = s[q].entry /\ t[q].undisturbed = s[q].undisturbed
        /\ Writes(s[r]) /\ t[r].entry = s[r].entry /\ t[r].undisturbed = s[r].undisturbed
    BY <1>1, <1>2, <1>8, <2>1
  <2>3. MeetInv(s[q], s[r], x)
    BY <2>1, <2>2, ZenonT(30) DEF StoreOk, MeetsInv
  <2>4. ASSUME NEW g \in Entries, NEW n \in Name,
               HasFile(g, n), HasFile(s[q].entry, n), HasFile(s[r].entry, n)
        PROVE  g \notin done
    <3>1. CASE q = p
      BY <1>5, <1>8, <2>1, <3>1
    <3>2. CASE q # p
      BY <1>1, <1>3, <2>2, <2>4, <3>2, SettledApart, ZenonT(30)
    <3> QED
      BY <3>1, <3>2
  <2> QED
    BY <2>2, <2>3, <2>4, ZenonT(30) DEF MeetInv
<1>13. WholeInv(d2, k, x \ done)
  <2>1. SUFFICES ASSUME NEW g \in Entries, NEW n \in DOMAIN d2,
                        HasFile(g, n), g \notin x \ done
                 PROVE  k[d2[n]] # Torn
    BY DEF WholeInv
  <2>2. CASE n = path
    <3>1. CASE g \in done
      BY <1>4, <1>5, <1>6, <2>2, <3>1
    <3>2. CASE g \notin done
      <4>1. g \notin x
        BY <2>1, <3>2
      <4>2. k[d[tmp]] # Torn
        BY <1>1, <1>2, <1>4, <2>1, <2>2, <4>1, ZenonT(30) DEF PutInv, TornIsCrossed
      <4> QED
        BY <1>4, <2>2, <4>2
    <3> QED
      BY <3>1, <3>2
  <2>3. CASE n # path
    <3>1. n \in DOMAIN d /\ d2[n] = d[n]
      BY <1>4, <2>3, ZenonT(30)
    <3>2. CASE g \in done
      <4>1. g = e /\ e \in done
        BY <1>5, <3>2
      <4>2. n = e \/ (e.sub = "public" /\ n = SigPath(e))
        BY <2>1, <4>1 DEF HasFile
      <4> QED
        BY <1>7, <2>3, <4>1, <4>2
    <3>3. CASE g \notin done
      BY <2>1, <3>1, <3>3, ZenonT(30) DEF StoreOk, WholeInv
    <3> QED
      BY <3>2, <3>3
  <2> QED
    BY <2>2, <2>3, ZenonT(30)
<1>14. ASSUME NEW f \in Entries, ~Share(e, f), NEW n, HasFile(f, n)
       PROVE  n # path /\ n # tmp /\ (n \in DOMAIN d <=> n \in DOMAIN d2)
              /\ (n \in DOMAIN d => d2[n] = d[n])
  <2>1. n # path /\ n # tmp
    BY <1>1, <1>2, <1>14, PutApart, ZenonT(30)
  <2> QED
    BY <1>2, <2>1 DEF Renamed
<1>15. PairInv(t, d2, k, u \ done)
  <2>1. SUFFICES ASSUME NEW f \in Entries, f.sub = "public", f \notin u \ done, Calm(t, f)
                 PROVE  Paired(d2, k, f)
    BY DEF PairInv
  <2>2. CASE f \in done
    <3>1. f = e /\ e \in done /\ s[p].undisturbed
      BY <1>5, <2>2
    <3>2. path = SigPath(e) /\ k[d2[e]] = s[p].put
      BY <1>7, <2>1, <3>1
    <3>3. k[d2[SigPath(e)]] = s[p].put
      BY <1>4, <1>6, <3>1, <3>2
    <3> QED
      BY <3>1, <3>2, <3>3 DEF Paired
  <2>3. CASE f \notin done
    <3>1. f \notin u /\ Calm(s, f) /\ ~Share(e, f)
      BY <1>10, <2>1, <2>3
    <3>2. Paired(d, k, f)
      BY <2>1, <3>1 DEF StoreOk, PairInv
    <3>3. HasFile(f, f) /\ HasFile(f, SigPath(f))
      BY <2>1 DEF HasFile
    <3> QED
      BY <1>14, <3>1, <3>2, <3>3 DEF Paired
  <2> QED
    BY <2>2, <2>3
<1>16. GetsInv(t, d2, k, u \ done)
  <2>1. SUFFICES ASSUME NEW q \in Processes PROVE GetInv(t[q], t, d2, k, u \ done)
    BY DEF GetsInv
  <2>2. CASE q = p
    <3>1. t[q].at \in {"idle", "stage"}
      BY <2>2 DEF HasRenamed
    <3> QED
      BY <3>1 DEF GetInv
  <2>3. CASE q # p
    <3>1. t[q] = s[q] /\ GetInv(s[q], s, d, k, u)
      BY <1>8, <2>3, ZenonT(30) DEF StoreOk, GetsInv
    <3>2. ASSUME s[q].at = "sig", s[q].undisturbed
          PROVE  /\ Calm(t, s[q].entry) /\ s[q].entry \notin u \ done
                 /\ s[q].entry \in DOMAIN d2 /\ s[q].key = k[d2[s[q].entry]]
      <4>1. /\ s[q].entry \in Entries /\ Calm(s, s[q].entry) /\ s[q].entry \notin u
            /\ s[q].entry \in DOMAIN d /\ s[q].key = k[d[s[q].entry]]
        BY <3>1, <3>2, ZenonT(30) DEF GetInv
      <4>2. ~Share(e, s[q].entry)
        BY <1>1, <1>2, <4>1, ZenonT(30) DEF Calm
      <4>3. HasFile(s[q].entry, s[q].entry)
        BY ZenonT(30) DEF HasFile
      <4> QED
        BY <1>9, <1>14, <4>1, <4>2, <4>3, ZenonT(30)
    <3> QED
      BY <3>1, <3>2, ZenonT(30) DEF GetInv
  <2> QED
    BY <2>2, <2>3
<1>17. NamedInv(t, d2, u \ done)
  <2>1. SUFFICES ASSUME NEW n \in DOMAIN d2
                 PROVE  \/ \E f \in Entries : HasFile(f, n)
                        \/ \E f \in Entries, m \in Name :
                             HasFile(f, m) /\ n = Staged(m) /\ (f \in u \ done \/ ~Calm(t, f))
    BY DEF NamedInv
  <2>2. CASE n = path
    BY <1>4, <2>2
  <2>3. CASE n # path
    <3>1. n \in DOMAIN d /\ n # tmp
      BY <1>4, <2>3, ZenonT(30)
    <3>2. SUFFICES ASSUME NEW f \in Entries, NEW m \in Name, HasFile(f, m), n = Staged(m),
                          f \in u \/ ~Calm(s, f), f \notin u \ done, Calm(t, f)
                   PROVE  FALSE
      BY <3>1, ZenonT(30) DEF StoreOk, NamedInv
    <3>3. f \in done
      BY <1>10, <3>2
    <3>4. f = e /\ e \in done
      BY <1>5, <3>3
    <3>5. m # path
      BY <1>2, <3>1, <3>2 DEF Temp
    <3>6. m = e /\ e.sub = "public"
      BY <1>7, <3>2, <3>4, <3>5 DEF HasFile
    <3> QED
      BY <1>7, <3>1, <3>2, <3>4, <3>6
  <2> QED
    BY <2>2, <2>3, ZenonT(30)
<1>18. DirOk(d2, k) /\ t \in [Processes -> Call]
  <2>1. DirOk(d, k)
    BY DEF StoreOk
  <2>2. d2 = [n \in DOMAIN d2 |-> d2[n]] /\ t \in [Processes -> Call]
    BY DEF Renamed, HasRenamed
  <2>3. \A n \in DOMAIN d2 : d2[n] \in 1 .. Len(k)
    BY <1>4, <2>1 DEF DirOk
  <2>4. ASSUME NEW m \in DOMAIN d2, NEW n \in DOMAIN d2, d2[m] = d2[n] PROVE m = n
    BY <1>4, <2>1, <2>4 DEF DirOk
  <2> QED
    BY <2>1, <2>2, <2>3, <2>4 DEF DirOk
<1> QED
  BY <1>3, <1>11, <1>12, <1>13, <1>15, <1>16, <1>17, <1>18 DEF StoreOk

(* The calls t after process p has begun put n, of e. *)
HasBegun(s, p, e, n, t) ==
  /\ t \in [Processes -> Call]
  /\ t[p].at = "stage" /\ t[p].entry = e /\ t[p].todo = Paths(e) /\ t[p].put = n
  /\ t[p].undisturbed <=> Calm(s, e)
  /\ \A q \in Processes : q # p =>
       /\ t[q].at = s[q].at /\ t[q].entry = s[q].entry /\ t[q].todo = s[q].todo
       /\ t[q].put = s[q].put /\ t[q].fd = s[q].fd
       /\ t[q].key = s[q].key /\ t[q].sig = s[q].sig
       /\ t[q].undisturbed <=>
            s[q].undisturbed /\ (s[q].at \in {"idle", "got"} \/ ~Share(s[q].entry, e))

(* A put begins, and disturbs the calls whose entries share a file with    *)
(* its own.                                                                *)
LEMMA PutKeeps ==
  ASSUME NEW s, NEW d, NEW k, NEW u, NEW x, StoreOk(s, d, k, u, x),
         NEW p \in Processes, ~Writes(s[p]), NEW e \in Entries,
         NEW n \in Nat, n # Torn, NEW t, HasBegun(s, p, e, n, t),
         NEW u2, u \subseteq u2, NEW x2, x \subseteq x2,
         \A f \in Entries : f \in u2 <=> f \in u \/ (Share(e, f) /\ (f # e \/ ~Calm(s, e))),
         ~Calm(s, e) => \A f \in Entries : Share(e, f) => f \in x2
  PROVE  StoreOk(t, d, k, u2, x2)
<1>1. /\ Writes(t[p]) /\ t[p].entry = e /\ t[p].at = "stage"
      /\ t[p].undisturbed <=> Calm(s, e)
  BY ZenonT(30) DEF HasBegun, Writes
<1>2. ASSUME NEW q \in Processes, q # p
      PROVE  /\ Writes(t[q]) <=> Writes(s[q])
             /\ t[q].entry = s[q].entry
             /\ t[q].undisturbed => s[q].undisturbed
             /\ Writes(s[q]) /\ t[q].undisturbed => ~Share(s[q].entry, e)
             /\ Writes(s[q]) /\ ~t[q].undisturbed /\ s[q].undisturbed => Share(s[q].entry, e)
  BY <1>2, ZenonT(30) DEF HasBegun, Writes
<1>3. ASSUME NEW f, Calm(t, f) PROVE Calm(s, f) /\ ~Share(e, f)
  BY <1>1, <1>2, <1>3, ZenonT(30) DEF Calm
<1>4. ASSUME NEW q \in Processes, q # p, Writes(t[q]) PROVE PutInv(t[q], d, k, u2, x2)
  <2>1. Writes(s[q]) /\ PutInv(s[q], d, k, u, x) /\ s[q].entry \in Entries
    BY <1>2, <1>4, ZenonT(30) DEF StoreOk, PutsInv, PutInv, PutType
  <2>2. /\ t[q].at = s[q].at /\ t[q].entry = s[q].entry /\ t[q].todo = s[q].todo
        /\ t[q].put = s[q].put /\ t[q].fd = s[q].fd
    BY <1>4, ZenonT(30) DEF HasBegun
  <2>3. Second(t[q]) <=> Second(s[q])
    BY <2>2 DEF Second
  <2>4. Target(t[q]) = Target(s[q])
    BY <2>2, <2>3 DEF Target
  <2>5. Temp(t[q]) = Temp(s[q])
    BY <2>4 DEF Temp
  <2>6. PutType(t[q]) /\ OpenIsLinked(t[q], d, k)
    BY <2>1, <2>2, <2>4, <2>5, ZenonT(30) DEF PutInv, PutType, OpenIsLinked
  <2>7. FindsItsFiles(t[q], d, k)
    BY <1>2, <1>4, <2>1, <2>2, <2>3, <2>5, ZenonT(30) DEF PutInv, FindsItsFiles
  <2>8. TornIsCrossed(t[q], d, k, x2)
    BY <2>1, <2>2, <2>4, <2>5, ZenonT(30) DEF PutInv, TornIsCrossed
  <2>9. SharersUnsettled(t[q], u2)
    <3>1. SUFFICES ASSUME NEW f \in Entries, Share(s[q].entry, f),
                          f # s[q].entry \/ ~t[q].undisturbed
                   PROVE  f \in u2
      BY <2>2, ZenonT(30) DEF SharersUnsettled
    <3>2. CASE f # s[q].entry \/ ~s[q].undisturbed
      BY <2>1, <3>1, <3>2, ZenonT(30) DEF PutInv, SharersUnsettled
    <3>3. CASE f = s[q].entry /\ s[q].undisturbed
      <4>1. Share(s[q].entry, e) /\ Share(e, f)
        BY <1>2, <1>4, <2>1, <3>1, <3>3, ShareBoth, ZenonT(30)
      <4>2. ~Calm(s, e)
        BY <2>1, <4>1 DEF Calm
      <4> QED
        BY <4>1, <4>2
    <3> QED
      BY <3>2, <3>3
  <2> QED
    BY <2>6, <2>7, <2>8, <2>9, ZenonT(30) DEF PutInv
<1>5. PutInv(t[p], d, k, u2, x2)
  <2>1. t[p].todo = Paths(e) /\ t[p].put = n
    BY ZenonT(30) DEF HasBegun
  <2>2. PutType(t[p])
    BY <1>1, <2>1 DEF PutType
  <2>3. ~Second(t[p])
    <3>1. e.sub = "public" => Paths(e) = <<e, SigPath(e)>>
      BY DEF Paths
    <3>2. e.sub = "public" => Len(Paths(e)) = 2
      BY <3>1
    <3> QED
      BY <1>1, <2>1, <3>2 DEF Second
  <2>4. OpenIsLinked(t[p], d, k) /\ TornIsCrossed(t[p], d, k, x2)
    BY <1>1, ZenonT(30) DEF OpenIsLinked, TornIsCrossed
  <2>5. FindsItsFiles(t[p], d, k)
    BY <1>1, <2>3, ZenonT(30) DEF FindsItsFiles
  <2>6. SharersUnsettled(t[p], u2)
    BY <1>1 DEF SharersUnsettled
  <2> QED
    BY <2>2, <2>4, <2>5, <2>6, ZenonT(30) DEF PutInv
<1>6. PutsInv(t, d, k, u2, x2)
  BY <1>4, <1>5, ZenonT(30) DEF PutsInv
<1>7. ASSUME NEW q \in Processes, q # p, Writes(t[q])
      PROVE  MeetInv(t[p], t[q], x2) /\ MeetInv(t[q], t[p], x2)
  <2>1. SUFFICES ASSUME Share(e, s[q].entry)
                 PROVE  /\ ~t[p].undisturbed /\ ~t[q].undisturbed
                        /\ \A g \in Entries, m \in Name : HasFile(g, m) /\ HasFile(e, m) => g \in x2
    BY <1>1, <1>2, <1>7, ShareBoth, ZenonT(30) DEF MeetInv
  <2>2. Share(s[q].entry, e) /\ Writes(s[q])
    BY <1>2, <1>7, <2>1, ShareBoth, ZenonT(30)
  <2>3. ~Calm(s, e)
    BY <2>2 DEF Calm
  <2> QED
    BY <1>1, <1>2, <1>7, <2>2, <2>3, SharedFile, ZenonT(30)
<1>8. MeetsInv(t, x2)
  <2>1. SUFFICES ASSUME NEW q \in Processes, NEW r \in Processes,
                        Writes(t[q]), Writes(t[r]), q # r
                 PROVE  MeetInv(t[q], t[r], x2)
    BY DEF MeetsInv
  <2>2. CASE q = p \/ r = p
    BY <1>7, <2>1, <2>2
  <2>3. CASE q # p /\ r # p
    <3>1. MeetInv(s[q], s[r], x)
      BY <1>2, <2>1, <2>3, ZenonT(30) DEF StoreOk, MeetsInv
    <3> QED
      BY <1>2, <2>3, <3>1, ZenonT(30) DEF MeetInv
  <2> QED
    BY <2>2, <2>3
<1>9. WholeInv(d, k, x2)
  BY ZenonT(30) DEF StoreOk, WholeInv
<1>10. PairInv(t, d, k, u2)
  BY <1>3 DEF StoreOk, PairInv
<1>11. GetsInv(t, d, k, u2)
  <2>1. SUFFICES ASSUME NEW q \in Processes PROVE GetInv(t[q], t, d, k, u2)
    BY DEF GetsInv
  <2>2. CASE q = p
    BY <1>1, <2>2, ZenonT(30) DEF GetInv
  <2>3. CASE q # p
    <3>1. /\ t[q].at = s[q].at /\ t[q].entry = s[q].entry
          /\ t[q].key = s[q].key /\ t[q].sig = s[q].sig
      BY <2>3, ZenonT(30) DEF HasBegun
    <3>2. GetInv(s[q], s, d, k, u)
      BY DEF StoreOk, GetsInv
    <3>3. ASSUME t[q].at = "sig", t[q].undisturbed
          PROVE  /\ Calm(t, t[q].entry) /\ t[q].entry \notin u2
                 /\ t[q].entry \in DOMAIN d /\ t[q].key = k[d[t[q].entry]]
      <4>1. s[q].undisturbed /\ ~Share(s[q].entry, e) /\ ~Share(e, s[q].entry)
        BY <2>3, <3>1, <3>3, ShareBoth, ZenonT(30) DEF HasBegun
      <4>2. /\ s[q].entry \in Entries /\ Calm(s, s[q].entry) /\ s[q].entry \notin u
            /\ s[q].entry \in DOMAIN d /\ s[q].key = k[d[s[q].entry]]
        BY <3>1, <3>2, <3>3, <4>1, ZenonT(30) DEF GetInv
      <4>3. Calm(t, s[q].entry)
        BY <1>1, <1>2, <4>1, <4>2, ZenonT(30) DEF Calm
      <4> QED
        BY <3>1, <4>1, <4>2, <4>3, ZenonT(30)
    <3> QED
      BY <1>2, <2>3, <3>1, <3>2, <3>3, ZenonT(30) DEF GetInv
  <2> QED
    BY <2>2, <2>3, ZenonT(30)
<1>12. NamedInv(t, d, u2)
  BY <1>3 DEF StoreOk, NamedInv
<1> QED
  BY <1>6, <1>8, <1>9, <1>10, <1>11, <1>12 DEF StoreOk, HasBegun

(* A directory with one more name. *)
LEMMA Added ==
  ASSUME NEW tmp, NEW fd, NEW d, NEW d2,
         d2 = [n \in DOMAIN d \cup {tmp} |-> IF n = tmp THEN fd ELSE d[n]]
  PROVE  /\ DOMAIN d2 = DOMAIN d \cup {tmp} /\ d2[tmp] = fd
         /\ d2 = [n \in DOMAIN d2 |-> d2[n]]
         /\ \A n \in DOMAIN d : n # tmp => d2[n] = d[n]
OBVIOUS

(* The processes that Putting counts. *)
LEMMA PuttingIs ==
  ASSUME NEW e
  PROVE  Putting(e) = {} <=> Calm(store, e)
BY DEF Putting, Calm, Writes

(* A process without a call. *)
LEMMA IdleCall == NoCall \in Call /\ NoCall.at = "idle" /\ ~Writes(NoCall)
<1>1. <<>> \in Seq(Name)
  OBVIOUS
<1> QED
  BY <1>1 DEF NoCall, Call, Writes

(* What the files of an entry are called. *)
LEMMA PathNames ==
  ASSUME NEW e \in Entries
  PROVE  Paths(e) \in Seq(Name) /\ \A n : n \in Range(Paths(e)) <=> HasFile(e, n)
<1>1. e \in Name /\ e.sub \in {"private", "public"} /\ SigPath(e) \in Name
  BY EntryNames, SigNames, ZenonT(30)
<1>2. PICK g : g = SigPath(e)
  OBVIOUS
<1>3. CASE e.sub = "private"
  <2>1. Paths(e) = <<e>>
    BY <1>3 DEF Paths
  <2> QED
    BY <1>1, <1>3, <2>1 DEF HasFile, Range
<1>4. CASE e.sub = "public"
  <2>1. Paths(e) = <<e, g>>
    BY <1>2, <1>4 DEF Paths
  <2>2. \A n : n \in Range(<<e, g>>) <=> n = e \/ n = g
    BY DEF Range
  <2> QED
    BY <1>1, <1>2, <1>4, <2>1, <2>2 DEF HasFile
<1> QED
  BY <1>1, <1>3, <1>4

-----------------------------------------------------------------------------
(* put_secret and put_public begin. *)
LEMMA PutStep ==
  ASSUME StoreInv, NEW p \in Processes, NEW e \in Entries, Put(p, e)
  PROVE  StoreInv'
<1>1. /\ store \in [Processes -> Call] /\ puts \in Nat
      /\ StoreOk(store, dir, content, unsettled, crossed)
  BY DEF StoreInv, StoreOk
<1>2. ~Writes(store[p]) /\ puts + 1 \in Nat /\ puts + 1 # Torn
  <2>1. Available(p)
    BY ZenonT(30) DEF Put
  <2> QED
    BY <1>1, <2>1 DEF Available, Writes, Torn
<1>3. PICK n \in Nat : n = puts + 1
  BY <1>2
<1>4. PICK b \in BOOLEAN : (b = (Putting(e) = {})) /\ (b <=> Calm(store, e))
  BY PuttingIs, ZenonT(30)
<1>5. PICK c \in Call :
        /\ c = [NoCall EXCEPT !.at = "stage", !.entry = e, !.todo = Paths(e),
                              !.put = n, !.undisturbed = b]
        /\ c.at = "stage" /\ c.entry = e /\ c.todo = Paths(e) /\ c.put = n
        /\ c.undisturbed = b
  <2>1. PICK a : a = Paths(e) /\ a \in Seq(Name)
    BY PathNames
  <2>2. PICK c :
          c = [NoCall EXCEPT !.at = "stage", !.entry = e, !.todo = a,
                             !.put = n, !.undisturbed = b]
    OBVIOUS
  <2>3. PICK z \in Call : z = NoCall
    BY IdleCall
  <2>4. /\ c \in Call /\ c.at = "stage" /\ c.entry = e /\ c.todo = a /\ c.put = n
        /\ c.undisturbed = b
    BY <2>1, <2>2, <2>3, ZenonT(30) DEF Call
  <2> QED
    BY <2>1, <2>2, <2>4, ZenonT(30)
<1>6. \A q \in Processes :
        store'[q] = IF q = p THEN c
                    ELSE IF Available(q) \/ ~Share(store[q].entry, e) THEN store[q]
                    ELSE [store[q] EXCEPT !.undisturbed = FALSE]
  BY <1>3, <1>4, <1>5, ZenonT(30) DEF Put
<1>7. ASSUME NEW q \in Processes, q # p
      PROVE  /\ store'[q] \in Call
             /\ store'[q].at = store[q].at /\ store'[q].entry = store[q].entry
             /\ store'[q].todo = store[q].todo
             /\ store'[q].put = store[q].put /\ store'[q].fd = store[q].fd
             /\ store'[q].key = store[q].key /\ store'[q].sig = store[q].sig
             /\ store'[q].undisturbed <=>
                  store[q].undisturbed
                    /\ (store[q].at \in {"idle", "got"} \/ ~Share(store[q].entry, e))
  <2>1. PICK a \in Call : a = store[q]
    BY <1>1
  <2>2. CASE Available(q) \/ ~Share(store[q].entry, e)
    BY <1>6, <1>7, <2>1, <2>2, ZenonT(30) DEF Available
  <2>3. CASE ~(Available(q) \/ ~Share(store[q].entry, e))
    <3>1. store'[q] = [a EXCEPT !.undisturbed = FALSE]
      BY <1>6, <1>7, <2>1, <2>3
    <3>2. /\ store'[q] \in Call /\ ~store'[q].undisturbed
          /\ store'[q].at = a.at /\ store'[q].entry = a.entry /\ store'[q].todo = a.todo
          /\ store'[q].put = a.put /\ store'[q].fd = a.fd
          /\ store'[q].key = a.key /\ store'[q].sig = a.sig
      BY <3>1, ZenonT(30) DEF Call
    <3> QED
      BY <2>1, <2>3, <3>2 DEF Available
  <2> QED
    BY <2>2, <2>3, ZenonT(30)
<1>8. store' \in [Processes -> Call]
  <2>1. store' = [q \in Processes |-> store'[q]]
    BY ZenonT(30) DEF Put
  <2> QED
    BY <1>5, <1>6, <1>7, <2>1
<1>9. HasBegun(store, p, e, n, store')
  BY <1>4, <1>5, <1>6, <1>7, <1>8, ZenonT(30) DEF HasBegun
<1>10. /\ unsettled \subseteq unsettled' /\ crossed \subseteq crossed'
       /\ \A f \in Entries :
            f \in unsettled' <=>
              f \in unsettled \/ (Share(e, f) /\ (f # e \/ ~Calm(store, e)))
       /\ ~Calm(store, e) => \A f \in Entries : Share(e, f) => f \in crossed'
  <2>1. PICK all : all = {f \in Entries : Share(e, f)}
    BY ZenonT(30)
  <2>2. /\ unsettled' = unsettled \cup (IF b THEN all \ {e} ELSE all)
        /\ crossed' = crossed \cup (IF b THEN {} ELSE all)
    BY <1>4, <2>1, ZenonT(30) DEF Put
  <2> QED
    BY <1>4, <2>1, <2>2
<1>11. PICK t, u2, x2 : t = store' /\ u2 = unsettled' /\ x2 = crossed'
  OBVIOUS
<1>12. StoreOk(t, dir, content, u2, x2)
  BY <1>1, <1>2, <1>3, <1>9, <1>10, <1>11, PutKeeps
<1> QED
  BY <1>1, <1>2, <1>11, <1>12, ZenonT(30) DEF StoreInv, Put

(* fs::write opens the temp file. *)
LEMMA StageStep ==
  ASSUME StoreInv, NEW p \in Processes, Stage(p)
  PROVE  StoreInv'
<1>1. /\ store \in [Processes -> Call] /\ puts \in Nat
      /\ StoreOk(store, dir, content, unsettled, crossed)
      /\ DirOk(dir, content)
  BY DEF StoreInv, StoreOk
<1>2. store[p].at = "stage"
  BY DEF Stage
<1>3. PutType(store[p])
  BY <1>1, <1>2 DEF StoreOk, PutsInv, PutInv, Writes
<1>4. PICK tmp : tmp = Temp(store[p]) /\ tmp = Staged(Head(store[p].todo))
  BY <1>3, PutFiles DEF Temp
<1>5. PICK size \in Nat : size = Len(content)
  BY <1>1, LenProperties DEF DirOk
<1>6. PICK fd \in Nat : fd = IF tmp \in DOMAIN dir THEN dir[tmp] ELSE size + 1
  BY <1>1, <1>5 DEF DirOk
<1>7. PICK d2, k2, t :
        /\ d2 = [n \in DOMAIN dir \cup {tmp} |-> IF n = tmp THEN fd ELSE dir[n]]
        /\ k2 = IF tmp \in DOMAIN dir THEN [content EXCEPT ![fd] = Torn] ELSE Append(content, Torn)
        /\ t = [store EXCEPT ![p] = [store[p] EXCEPT !.at = "fill", !.fd = fd]]
        /\ d2 = dir' /\ k2 = content' /\ t = store'
  <2>1. PICK t : t = store' /\ t = [store EXCEPT ![p].at = "fill", ![p].fd = fd]
    BY <1>4, <1>5, <1>6, ZenonT(30) DEF Stage
  <2>2. t = [store EXCEPT ![p] = [store[p] EXCEPT !.at = "fill", !.fd = fd]]
    BY <1>1, <2>1, ZenonT(30)
  <2>3. dir' = [n \in DOMAIN dir \cup {tmp} |-> IF n = tmp THEN fd ELSE dir[n]]
    BY <1>4, <1>5, <1>6 DEF Stage
  <2>4. content' = IF tmp \in DOMAIN dir THEN [content EXCEPT ![fd] = Torn]
                   ELSE Append(content, Torn)
    BY <1>4, <1>5, <1>6 DEF Stage
  <2> QED
    BY <2>1, <2>2, <2>3, <2>4, Zenon
<1>8. /\ DOMAIN d2 = DOMAIN dir \cup {tmp} /\ d2[tmp] = fd
      /\ d2 = [n \in DOMAIN d2 |-> d2[n]]
      /\ \A n \in DOMAIN dir : n # tmp => d2[n] = dir[n]
  BY <1>7, Added
<1>9. /\ k2 \in Seq(Nat) /\ fd \in 1 .. Len(k2)
      /\ \A i \in 1 .. size : i \in 1 .. Len(k2) /\ (i # fd => k2[i] = content[i])
  <2>1. Torn \in Nat /\ content \in Seq(Nat)
    BY <1>1 DEF Torn, DirOk
  <2>2. CASE tmp \in DOMAIN dir
    <3>1. fd \in 1 .. size
      BY <1>1, <1>5, <1>6, <2>2 DEF DirOk
    <3> QED
      BY <1>5, <1>7, <2>1, <2>2, <3>1
  <2>3. CASE tmp \notin DOMAIN dir
    BY <1>5, <1>6, <1>7, <2>1, <2>3
  <2> QED
    BY <2>2, <2>3
<1>10. \A n \in DOMAIN dir : dir[n] \in 1 .. size /\ (n # tmp => dir[n] # fd)
  BY <1>1, <1>5, <1>6 DEF DirOk
<1>11. DirOk(d2, k2)
  <2>1. \A n \in DOMAIN d2 : d2[n] \in 1 .. Len(k2)
    BY <1>8, <1>9, <1>10
  <2>2. \A m, n \in DOMAIN d2 : d2[m] = d2[n] => m = n
    BY <1>1, <1>8, <1>10 DEF DirOk
  <2> QED
    BY <1>8, <1>9, <2>1, <2>2 DEF DirOk
<1>12. Opened(dir, content, tmp, fd, d2, k2)
  <2>1. \A n \in DOMAIN dir : n # tmp => d2[n] = dir[n] /\ k2[d2[n]] = content[dir[n]] /\ d2[n] # fd
    BY <1>8, <1>9, <1>10
  <2>2. \A i \in 1 .. Len(content) : i \in 1 .. Len(k2) /\ (i = fd => tmp \in DOMAIN dir /\ dir[tmp] = fd)
    BY <1>5, <1>6, <1>9
  <2> QED
    BY <1>8, <1>9, <1>11, <2>1, <2>2 DEF Opened
<1>13. PutGoesOn(store, p, "fill", fd, t)
  <2>1. PICK a \in Call : a = store[p]
    BY <1>1
  <2>2. PICK c : c = [a EXCEPT !.at = "fill", !.fd = fd]
    OBVIOUS
  <2>3. /\ c \in Call /\ c.at = "fill" /\ c.fd = fd /\ c.entry = a.entry /\ c.todo = a.todo
        /\ c.put = a.put /\ c.undisturbed = a.undisturbed
    BY <2>2, ZenonT(30) DEF Call
  <2>4. t = [store EXCEPT ![p] = c]
    BY <1>7, <2>1, <2>2
  <2> QED
    BY <1>1, <2>1, <2>3, <2>4 DEF PutGoesOn
<1>14. StoreOk(t, d2, k2, unsettled, crossed)
  BY <1>1, <1>2, <1>4, <1>12, <1>13, StageKeeps, ZenonT(30)
<1> QED
  BY <1>1, <1>7, <1>14, ZenonT(30) DEF StoreInv, Stage

(* fs::write writes it. *)
LEMMA FillStep ==
  ASSUME StoreInv, NEW p \in Processes, Fill(p)
  PROVE  StoreInv'
<1>1. /\ store \in [Processes -> Call] /\ puts \in Nat
      /\ StoreOk(store, dir, content, unsettled, crossed)
      /\ content \in Seq(Nat)
  BY DEF StoreInv, StoreOk, DirOk
<1>2. store[p].at = "fill"
  BY DEF Fill
<1>3. PICK fd, n : fd = store[p].fd /\ n = store[p].put /\ fd \in 1 .. Len(content) /\ n \in Nat
  BY <1>1, <1>2, ZenonT(30) DEF StoreOk, PutsInv, PutInv, Writes, PutType, OpenIsLinked
<1>4. PICK k2, t :
        /\ k2 = [content EXCEPT ![fd] = n]
        /\ t = [store EXCEPT ![p] = [store[p] EXCEPT !.at = "rename", !.fd = 0]]
        /\ k2 = content' /\ t = store'
  <2>1. PICK t : t = store' /\ t = [store EXCEPT ![p].at = "rename", ![p].fd = 0]
    BY DEF Fill
  <2>2. t = [store EXCEPT ![p] = [store[p] EXCEPT !.at = "rename", !.fd = 0]]
    BY <1>1, <2>1, ZenonT(30)
  <2> QED
    BY <1>3, <2>1, <2>2 DEF Fill
<1>5. /\ k2 \in Seq(Nat) /\ Len(k2) = Len(content) /\ k2[fd] = n
      /\ \A i \in 1 .. Len(content) : i # fd => k2[i] = content[i]
  BY <1>1, <1>3, <1>4
<1>6. PutGoesOn(store, p, "rename", 0, t)
  <2>1. PICK a \in Call : a = store[p]
    BY <1>1
  <2>2. PICK c : c = [a EXCEPT !.at = "rename", !.fd = 0]
    OBVIOUS
  <2>3. /\ c \in Call /\ c.at = "rename" /\ c.fd = 0 /\ c.entry = a.entry /\ c.todo = a.todo
        /\ c.put = a.put /\ c.undisturbed = a.undisturbed
    BY <2>2, ZenonT(30) DEF Call
  <2>4. t = [store EXCEPT ![p] = c]
    BY <1>4, <2>1, <2>2
  <2> QED
    BY <1>1, <2>1, <2>3, <2>4 DEF PutGoesOn
<1>7. StoreOk(t, dir, k2, unsettled, crossed)
  BY <1>1, <1>2, <1>3, <1>5, <1>6, FillKeeps, ZenonT(30)
<1> QED
  BY <1>1, <1>4, <1>7, ZenonT(30) DEF StoreInv, Fill

(* fs::rename, after which the put goes on or ends; or which fails. *)
LEMMA RenameStep ==
  ASSUME StoreInv, NEW p \in Processes, Rename(p)
  PROVE  StoreInv'
<1>1. /\ store \in [Processes -> Call] /\ puts \in Nat
      /\ StoreOk(store, dir, content, unsettled, crossed)
  BY DEF StoreInv, StoreOk
<1>2. store[p].at = "rename" /\ Writes(store[p])
  BY DEF Rename, Writes
<1>3. PutType(store[p]) /\ PutInv(store[p], dir, content, unsettled, crossed)
  BY <1>1, <1>2 DEF StoreOk, PutsInv, PutInv
<1>4. PICK tmp, path :
        /\ tmp = Temp(store[p]) /\ path = Target(store[p])
        /\ path = Head(store[p].todo) /\ tmp = Staged(path)
  BY <1>3, PutFiles DEF Temp
<1>5. CASE tmp \notin DOMAIN dir
  <2>1. PICK t : t = store' /\ t = [store EXCEPT ![p] = NoCall]
    BY <1>4, <1>5 DEF Rename
  <2>2. Left(store, p, t)
    BY <1>1, <2>1, IdleCall DEF Left
  <2>3. ~store[p].undisturbed
    BY <1>2, <1>3, <1>4, <1>5, ZenonT(30) DEF PutInv, FindsItsFiles
  <2>4. \A f \in Entries : Share(store[p].entry, f) => f \in unsettled
    BY <1>3, <2>3 DEF PutInv, SharersUnsettled
  <2>5. StoreOk(t, dir, content, unsettled, crossed)
    BY <1>1, <1>2, <2>2, <2>4, LeaveKeeps
  <2>6. UNCHANGED <<dir, content, unsettled, crossed, puts>>
    BY <1>4, <1>5 DEF Rename
  <2> QED
    BY <1>1, <2>1, <2>5, <2>6 DEF StoreInv
<1>6. CASE tmp \in DOMAIN dir
  <2>1. PICK done : done = Settled(store[p])
    OBVIOUS
  <2>2. PICK d2, t :
          /\ d2 = [n \in (DOMAIN dir \ {tmp}) \cup {path} |->
                     IF n = path THEN dir[tmp] ELSE dir[n]]
          /\ t = [store EXCEPT ![p] =
                    IF Len(store[p].todo) = 1 THEN NoCall
                    ELSE [store[p] EXCEPT !.at = "stage", !.todo = Tail(store[p].todo)]]
          /\ d2 = dir' /\ t = store'
          /\ unsettled' = unsettled \ done /\ crossed' = crossed \ done
          /\ UNCHANGED <<content, puts>>
    <3>1. PICK t : t = store' /\
            t = [store EXCEPT ![p] = IF Len(@.todo) = 1 THEN NoCall
                                     ELSE [store[p] EXCEPT !.at = "stage", !.todo = Tail(@)]]
      BY <1>4, <1>6 DEF Rename
    <3>2. t = [store EXCEPT ![p] =
                    IF Len(store[p].todo) = 1 THEN NoCall
                    ELSE [store[p] EXCEPT !.at = "stage", !.todo = Tail(store[p].todo)]]
      BY <3>1
    <3> QED
      BY <1>4, <1>6, <2>1, <3>1, <3>2 DEF Rename, Settled
  <2>3. Renamed(dir, tmp, path, d2)
    BY <2>2 DEF Renamed
  <2>4. HasRenamed(store, p, t)
    <3>1. PICK a \in Call : a = store[p]
      BY <1>1
    <3>2. CASE Len(a.todo) = 1
      BY <1>1, <2>2, <3>1, <3>2, IdleCall DEF HasRenamed
    <3>3. CASE Len(a.todo) # 1
      <4>1. PICK g \in Name : g = SigPath(a.entry)
        BY <1>3, <3>1, PutFiles, SigNames
      <4>2. PICK e : e = a.entry /\ a.todo = <<e, g>>
        BY <1>3, <3>1, <3>3, <4>1, PutFiles
      <4>3. Tail(a.todo) = <<g>> /\ <<g>> \in Seq(Name)
        BY <4>1, <4>2
      <4>4. PICK l \in Seq(Name) : l = <<g>> /\ l = Tail(a.todo)
        BY <4>3, ZenonT(30)
      <4>5. PICK c : c = [a EXCEPT !.at = "stage", !.todo = l]
        OBVIOUS
      <4>6. /\ c \in Call /\ c.at = "stage" /\ c.todo = l /\ c.entry = a.entry
            /\ c.put = a.put /\ c.undisturbed = a.undisturbed
        BY <4>5, ZenonT(30) DEF Call
      <4>7. t = [store EXCEPT ![p] = c]
        BY <2>2, <3>1, <3>3, <4>4, <4>5
      <4> QED
        BY <1>1, <3>1, <3>3, <4>1, <4>4, <4>6, <4>7 DEF HasRenamed
    <3> QED
      BY <3>2, <3>3
  <2>5. StoreOk(t, d2, content, unsettled \ done, crossed \ done)
    BY <1>1, <1>2, <1>4, <1>6, <2>1, <2>3, <2>4, RenameKeeps, ZenonT(30)
  <2> QED
    BY <1>1, <2>2, <2>5, ZenonT(30) DEF StoreInv
<1> QED
  BY <1>5, <1>6

(* The process dies in a put. *)
LEMMA CrashStep ==
  ASSUME StoreInv, NEW p \in Processes, Crash(p)
  PROVE  StoreInv'
<1>1. /\ store \in [Processes -> Call] /\ puts \in Nat
      /\ StoreOk(store, dir, content, unsettled, crossed)
  BY DEF StoreInv, StoreOk
<1>2. Writes(store[p])
  BY DEF Crash, Writes
<1>3. PutInv(store[p], dir, content, unsettled, crossed)
  BY <1>1, <1>2 DEF StoreOk, PutsInv
<1>4. PICK t, v : /\ t = store' /\ t = [store EXCEPT ![p] = NoCall]
                  /\ v = unsettled' /\ v = unsettled \cup {store[p].entry}
  BY DEF Crash
<1>5. Left(store, p, t)
  BY <1>1, <1>4, IdleCall DEF Left
<1>6. \A f \in Entries : Share(store[p].entry, f) => f \in v
  BY <1>3, <1>4 DEF PutInv, SharersUnsettled
<1>7. unsettled \subseteq v /\ \A f \in v : f \in unsettled \/ f = store[p].entry
  BY <1>4
<1>8. StoreOk(t, dir, content, v, crossed)
  BY <1>1, <1>2, <1>5, <1>6, <1>7, LeaveKeeps
<1> QED
  BY <1>1, <1>4, <1>8 DEF StoreInv, Crash

(* get_public reads the key file. *)
LEMMA GetKeyStep ==
  ASSUME StoreInv, NEW p \in Processes, NEW e \in Entries, e.sub = "public", GetKey(p, e)
  PROVE  StoreInv'
<1>1. /\ store \in [Processes -> Call] /\ puts \in Nat
      /\ StoreOk(store, dir, content, unsettled, crossed)
      /\ DirOk(dir, content)
  BY DEF StoreInv, StoreOk
<1>2. Available(p) /\ e \in DOMAIN dir
  BY DEF GetKey
<1>3. PICK n \in Nat : n = content[dir[e]]
  BY <1>1, <1>2 DEF DirOk
<1>4. PICK b \in BOOLEAN : /\ b = (Putting(e) = {} /\ e \notin unsettled)
                           /\ b <=> Calm(store, e) /\ e \notin unsettled
  BY PuttingIs, ZenonT(30)
<1>5. PICK z \in Call : z = NoCall
  BY IdleCall
<1>6. PICK c : c = [z EXCEPT !.at = "sig", !.entry = e, !.key = n, !.undisturbed = b]
  OBVIOUS
<1>7. c \in Call /\ c.at = "sig" /\ c.entry = e /\ c.key = n /\ c.undisturbed = b
  BY <1>6, ZenonT(30) DEF Call
<1>8. PICK t : t = store' /\ t = [store EXCEPT ![p] = c]
  BY <1>3, <1>4, <1>5, <1>6, ZenonT(30) DEF GetKey
<1>9. /\ t \in [Processes -> Call] /\ t[p] = c
      /\ \A q \in Processes : q # p => t[q] = store[q]
  BY <1>1, <1>7, <1>8
<1>10. ~Writes(store[p]) /\ ~Writes(c)
  BY <1>2, <1>7 DEF Available, Writes
<1>11. GetInv(c, store, dir, content, unsettled)
  BY <1>2, <1>3, <1>4, <1>7 DEF GetInv
<1>12. StoreOk(t, dir, content, unsettled, crossed)
  BY <1>1, <1>9, <1>10, <1>11, ReadKeeps
<1> QED
  BY <1>1, <1>8, <1>12 DEF StoreInv, GetKey

(* get_public reads the signature file. *)
LEMMA GetSigStep ==
  ASSUME StoreInv, NEW p \in Processes, GetSig(p)
  PROVE  StoreInv'
<1>1. /\ store \in [Processes -> Call] /\ puts \in Nat
      /\ StoreOk(store, dir, content, unsettled, crossed)
      /\ DirOk(dir, content)
  BY DEF StoreInv, StoreOk
<1>2. store[p].at = "sig"
  BY DEF GetSig
<1>3. PICK path : path = SigPath(store[p].entry)
  OBVIOUS
<1>4. ~Writes(store[p])
  BY <1>2 DEF Writes
<1>5. CASE path \notin DOMAIN dir
  <2>1. PICK t : t = store' /\ t = [store EXCEPT ![p] = NoCall]
    BY <1>3, <1>5 DEF GetSig
  <2>2. /\ t \in [Processes -> Call] /\ t[p] = NoCall
        /\ \A q \in Processes : q # p => t[q] = store[q]
    BY <1>1, <2>1, IdleCall
  <2>3. ~Writes(NoCall) /\ GetInv(NoCall, store, dir, content, unsettled)
    BY IdleCall DEF GetInv
  <2>4. StoreOk(t, dir, content, unsettled, crossed)
    BY <1>1, <1>4, <2>2, <2>3, ReadKeeps
  <2> QED
    BY <1>1, <2>1, <2>4 DEF StoreInv, GetSig
<1>6. CASE path \in DOMAIN dir
  <2>1. PICK n \in Nat : n = content[dir[path]]
    BY <1>1, <1>6 DEF DirOk
  <2>2. PICK a \in Call : a = store[p]
    BY <1>1
  <2>3. PICK c : c = [a EXCEPT !.at = "got", !.sig = n]
    OBVIOUS
  <2>4. /\ c \in Call /\ c.at = "got" /\ c.sig = n
        /\ c.key = a.key /\ c.undisturbed = a.undisturbed
    BY <2>3, ZenonT(30) DEF Call
  <2>5. PICK t : t = store' /\ t = [store EXCEPT ![p] = c]
    BY <1>3, <1>6, <2>1, <2>2, <2>3 DEF GetSig
  <2>6. /\ t \in [Processes -> Call] /\ t[p] = c
        /\ \A q \in Processes : q # p => t[q] = store[q]
    BY <1>1, <2>4, <2>5
  <2>7. ASSUME a.undisturbed PROVE a.key = n
    <3>1. /\ a.entry \in Entries /\ a.entry.sub = "public"
          /\ Calm(store, a.entry) /\ a.entry \notin unsettled
          /\ a.entry \in DOMAIN dir /\ a.key = content[dir[a.entry]]
      BY <1>1, <1>2, <2>2, <2>7, ZenonT(30) DEF StoreOk, GetsInv, GetInv
    <3>2. Paired(dir, content, a.entry)
      BY <1>1, <3>1, ZenonT(30) DEF StoreOk, PairInv
    <3> QED
      BY <1>3, <1>6, <2>1, <2>2, <3>1, <3>2 DEF Paired
  <2>8. ~Writes(c) /\ GetInv(c, store, dir, content, unsettled)
    BY <2>4, <2>7 DEF Writes, GetInv
  <2>9. StoreOk(t, dir, content, unsettled, crossed)
    BY <1>1, <1>4, <2>6, <2>8, ReadKeeps
  <2> QED
    BY <1>1, <2>5, <2>9 DEF StoreInv, GetSig
<1> QED
  BY <1>5, <1>6

-----------------------------------------------------------------------------
(* An empty root has the invariant. *)
LEMMA StoreStart ==
  ASSUME StoreInit
  PROVE  StoreInv
<1>1. store \in [Processes -> Call] /\ \A p \in Processes : store[p] = NoCall
  BY IdleCall DEF StoreInit
<1>2. DOMAIN dir = {} /\ dir = [n \in DOMAIN dir |-> dir[n]]
  BY DEF StoreInit
<1>3. content \in Seq(Nat)
  BY DEF StoreInit
<1>4. DirOk(dir, content)
  BY <1>2, <1>3 DEF DirOk
<1>5. \A p \in Processes : ~Writes(store[p]) /\ store[p].at = "idle"
  BY <1>1, IdleCall
<1>6. PutsInv(store, dir, content, unsettled, crossed) /\ MeetsInv(store, crossed)
  BY <1>5 DEF PutsInv, MeetsInv
<1>7. WholeInv(dir, content, crossed) /\ NamedInv(store, dir, unsettled)
  BY <1>2 DEF WholeInv, NamedInv
<1>8. PairInv(store, dir, content, unsettled)
  BY <1>2 DEF PairInv, Paired
<1>9. GetsInv(store, dir, content, unsettled)
  BY <1>5 DEF GetsInv, GetInv
<1> QED
  BY <1>1, <1>4, <1>6, <1>7, <1>8, <1>9 DEF StoreInv, StoreOk, StoreInit

(* Every step of a process keeps it. *)
LEMMA StoreStep == StoreInv /\ [StoreNext]_storeVars => StoreInv'
<1> SUFFICES ASSUME StoreInv, [StoreNext]_storeVars PROVE StoreInv'
  OBVIOUS
<1>1. CASE UNCHANGED storeVars
  BY <1>1 DEF storeVars, StoreInv
<1>2. CASE StoreNext
  <2>1. PICK p \in Processes :
          \/ \E e \in Entries : Put(p, e)
          \/ Stage(p) \/ Fill(p) \/ Rename(p) \/ Crash(p)
          \/ \E id \in Identities : GetKey(p, Public(id))
          \/ GetSig(p)
    BY <1>2 DEF StoreNext
  <2>2. CASE \E e \in Entries : Put(p, e)
    BY <2>2, PutStep
  <2>3. CASE Stage(p) \/ Fill(p) \/ Rename(p) \/ Crash(p) \/ GetSig(p)
    BY <2>3, StageStep, FillStep, RenameStep, CrashStep, GetSigStep
  <2>4. ASSUME NEW id \in Identities, GetKey(p, Public(id)) PROVE StoreInv'
    <3>1. PICK e \in Entries : e = Public(id) /\ e.sub = "public"
      <4>1. Public(id) \in Entries
        BY DEF Entries
      <4>2. Public(id).sub = "public"
        BY DEF Public
      <4> QED
        BY <4>1, <4>2
    <3> QED
      BY <2>4, <3>1, GetKeyStep
  <2> QED
    BY <2>1, <2>2, <2>3, <2>4
<1> QED
  BY <1>1, <1>2

(* What is read is what was put. *)
LEMMA StoreReads ==
  ASSUME StoreInv
  PROVE  FilesAreWhole
<1>1. StoreOk(store, dir, content, unsettled, crossed)
  BY DEF StoreInv
<1>2. WholeUnlessCrossed
  BY <1>1, PathNames DEF WholeUnlessCrossed, StoreOk, WholeInv
<1>3. PairUnlessDisturbed
  BY <1>1, ZenonT(30) DEF PairUnlessDisturbed, StoreOk, GetsInv, GetInv
<1>4. ASSUME NEW n \in Listed
      PROVE  \/ n \in Entries
             \/ \E e \in Entries :
                  /\ n \in {Staged(path) : path \in Range(Paths(e))}
                  /\ e \in unsettled \/ Putting(e) # {}
  <2>1. n \in DOMAIN dir /\ (n.sub = "public" => Extension(n.leaf) # "sig")
    BY DEF Listed
  <2>2. CASE \E e \in Entries : HasFile(e, n)
    <3>1. PICK e \in Entries : HasFile(e, n)
      BY <2>2
    <3>2. e.sub = "public" => n # SigPath(e)
      BY <2>1, EntryNames, SigNames, ZenonT(30)
    <3> QED
      BY <3>1, <3>2 DEF HasFile
  <2>3. CASE \E e \in Entries, m \in Name :
               HasFile(e, m) /\ n = Staged(m) /\ (e \in unsettled \/ ~Calm(store, e))
    <3>1. PICK e \in Entries, m \in Name :
            HasFile(e, m) /\ n = Staged(m) /\ (e \in unsettled \/ ~Calm(store, e))
      BY <2>3
    <3>2. m \in Range(Paths(e)) /\ (e \in unsettled \/ Putting(e) # {})
      BY <3>1, PathNames, PuttingIs
    <3> QED
      BY <3>1, <3>2
  <2> QED
    BY <1>1, <2>1, <2>2, <2>3, ZenonT(30) DEF StoreOk, NamedInv
<1>5. ListsEntries
  BY <1>4 DEF ListsEntries, Listed
<1> QED
  BY <1>2, <1>3, <1>5 DEF FilesAreWhole

(* Whatever the processes that share a root put, read and leave undone:   *)
(* no key or signature file is there half-written, get_public returns a   *)
(* key with its own signature, and enumerate yields what was put, with    *)
(* the exceptions that the three parts of the property name.              *)
THEOREM StoreSafety == StoreSpec => []FilesAreWhole
<1>1. StoreInit => StoreInv
  BY StoreStart
<1>2. StoreInv /\ [StoreNext]_storeVars => StoreInv'
  BY StoreStep
<1>3. StoreInv => FilesAreWhole
  BY StoreReads
<1> QED
  BY <1>1, <1>2, <1>3, PTL DEF StoreSpec
================================================================================
