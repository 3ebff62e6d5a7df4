---------------------------- MODULE FdTableProofs ---------------------------
(***************************************************************************)
(* The table of descriptors for every size, every bound on open files and  *)
(* every memory a new table may be found in: descriptors stay valid, and   *)
(* the table implements Descriptors, until halving takes an entry nobody   *)
(* wrote for one in use.                                                   *)
(***************************************************************************)
EXTENDS FdTable, QueueProofs, FunctionTheorems

-----------------------------------------------------------------------------
\* Tables.

Rec == [inode : Inodes \cup {0, JUNK}, this : Pointers \cup {0, JUNK}]
Tables(n) == [0..(n - 1) -> Rec]

\* The descriptors of ix have their entries in t, and an entry that looks
\* used is that of a descriptor or was never written.
Owners(t, ix) ==
  /\ \A f \in DOMAIN ix :
       ix[f] \in DOMAIN t /\ t[ix[f]].this = f /\ t[ix[f]].inode \in Inodes
  /\ \A i \in DOMAIN t : t[i].inode # 0 =>
       t[i].this = JUNK \/ (t[i].this \in DOMAIN ix /\ ix[t[i].this] = i)

\* The size of a table.
LEMMA SizeIs ==
  ASSUME NEW n \in Nat, NEW t \in Tables(n)
  PROVE  fdt_size(t) = n /\ DOMAIN t = 0..(n - 1)
<1>1. DOMAIN t = 0..(n - 1)
  BY DEF Tables
<1>2. Cardinality(0..(n - 1)) = IF 0 > n - 1 THEN 0 ELSE n - 1 - 0 + 1
  BY FS_Interval
<1>3. Cardinality(0..(n - 1)) = n
  BY <1>2
<1> QED BY <1>1, <1>3 DEF fdt_size

\* An entry that is not in use has its type.
LEMMA UnusedIs == UNUSED \in Rec /\ UNUSED.inode = 0
BY DEF UNUSED, Rec

\* r is a table of m entries with those of t in front and i free in it.
Roomy(r, m, t, n, i) ==
  /\ m \in Nat \ {0} /\ r \in Tables(m) /\ n <= m
  /\ i \in 0..(m - 1) /\ r[i].inode = 0
  /\ \A j \in 0..(n - 1) : r[j] = t[j]
  /\ \A j \in n..(m - 1) : r[j].inode = 0

\* openfile finds a free entry, in a table that doubles if there is none.
LEMMA RoomFacts ==
  ASSUME NEW n \in Nat \ {0}, NEW t \in Tables(n)
  PROVE  \E m : Roomy(Room(t), m, t, n, FirstUnused(t))
<1> DEFINE U == {j \in DOMAIN t : t[j].inode = 0} \cup {n}
           i == Min(U)
<1>1. fdt_size(t) = n /\ DOMAIN t = 0..(n - 1)
  BY SizeIs
<1>2. U \subseteq Nat /\ U # {}
  BY <1>1
<1>3. i \in U
  <2> HIDE DEF U
  <2> QED BY <1>2, MinIsLeast
<1>4. FirstUnused(t) = i
  BY <1>1 DEF FirstUnused
<1> HIDE DEF i
<1>5. CASE i = n
  <2> DEFINE r == Doubled(t)
             m == 2 * n
  <2>1. Room(t) = r
    BY <1>1, <1>4, <1>5 DEF Room
  <2>2. r = [j \in 0..(m - 1) |-> IF j \in 0..(n - 1) THEN t[j] ELSE UNUSED]
    BY <1>1 DEF Doubled
  <2>3. m \in Nat \ {0} /\ n <= m /\ i \in 0..(m - 1) /\ i \notin 0..(n - 1)
    BY <1>5
  <2> HIDE DEF r, m
  <2>4. r \in Tables(m)
    BY <2>2, UnusedIs DEF Tables
  <2>5. r[i].inode = 0
    BY <2>2, <2>3, UnusedIs
  <2>6. \A j \in 0..(n - 1) : r[j] = t[j]
    <3>1. \A j \in 0..(n - 1) : j \in 0..(m - 1)
      BY <2>3
    <3> QED BY <2>2, <3>1
  <2>7. \A j \in n..(m - 1) : r[j].inode = 0
    <3>1. \A j \in n..(m - 1) : j \in 0..(m - 1) /\ j \notin 0..(n - 1)
      OBVIOUS
    <3> QED BY <2>2, <3>1, UnusedIs
  <2>8. Roomy(r, m, t, n, i)
    BY <2>3, <2>4, <2>5, <2>6, <2>7 DEF Roomy
  <2> QED BY <1>4, <2>1, <2>8
<1>6. CASE i # n
  <2>1. Room(t) = t
    BY <1>1, <1>4, <1>6 DEF Room
  <2>2. i \in 0..(n - 1) /\ t[i].inode = 0
    BY <1>1, <1>3, <1>6
  <2>3. Roomy(t, n, t, n, i)
    BY <2>2 DEF Roomy
  <2> QED BY <1>4, <2>1, <2>3
<1> QED BY <1>5, <1>6

\* Growing keeps every descriptor.
LEMMA RoomOwners ==
  ASSUME NEW n \in Nat \ {0}, NEW t \in Tables(n), NEW ix, Owners(t, ix),
         NEW r, NEW m, NEW i, Roomy(r, m, t, n, i)
  PROVE  /\ Owners(r, ix)
         /\ \A f \in DOMAIN ix : r[ix[f]] = t[ix[f]]
         /\ i \notin {ix[f] : f \in DOMAIN ix}
<1>1. /\ DOMAIN t = 0..(n - 1) /\ DOMAIN r = 0..(m - 1)
      /\ \A j \in 0..(m - 1) : j \in 0..(n - 1) \/ j \in n..(m - 1)
      /\ \A j \in 0..(n - 1) : j \in 0..(m - 1)
  BY DEF Roomy, Tables
<1>2. \A f \in DOMAIN ix : ix[f] \in 0..(n - 1) /\ r[ix[f]] = t[ix[f]]
  BY <1>1 DEF Owners, Roomy
<1>3. \A f \in DOMAIN ix : ix[f] \in DOMAIN r /\ r[ix[f]].this = f /\ r[ix[f]].inode \in Inodes
  BY <1>1, <1>2 DEF Owners
<1>4. ASSUME NEW j \in DOMAIN r, r[j].inode # 0
      PROVE  r[j].this = JUNK \/ (r[j].this \in DOMAIN ix /\ ix[r[j].this] = j)
  <2>1. j \in 0..(n - 1) /\ r[j] = t[j]
    BY <1>1, <1>4 DEF Roomy
  <2> QED BY <1>1, <1>4, <2>1 DEF Owners
<1>5. \A f \in DOMAIN ix : r[ix[f]].inode # 0
  BY <1>3, SizeAssumption
<1>6. r[i].inode = 0
  BY DEF Roomy
<1> QED BY <1>2, <1>3, <1>4, <1>5, <1>6 DEF Owners

\* u and jx are r and ix with descriptor p at entry i.
Adds(u, jx, r, ix, i, p, ino) ==
  /\ u = [r EXCEPT ![i] = [inode |-> ino, this |-> p]]
  /\ jx = [f \in DOMAIN ix \cup {p} |-> IF f = p THEN i ELSE ix[f]]

\* A descriptor more, for an entry that was free.
LEMMA AddOwner ==
  ASSUME NEW m \in Nat, NEW r \in Tables(m), NEW ix, Owners(r, ix),
         NEW i \in 0..(m - 1), r[i].inode = 0, NEW p \in Pointers, p \notin DOMAIN ix,
         NEW ino \in Inodes,
         NEW u, NEW jx, Adds(u, jx, r, ix, i, p, ino)
  PROVE  /\ u \in Tables(m) /\ Owners(u, jx)
         /\ u[jx[p]].inode = ino
         /\ \A f \in DOMAIN ix : u[jx[f]] = r[ix[f]]
<1> DEFINE e == [inode |-> ino, this |-> p]
<1>1. e \in Rec /\ e.inode = ino /\ e.this = p
  BY DEF Rec
<1>2. /\ u \in Tables(m) /\ DOMAIN u = 0..(m - 1) /\ u[i] = e
      /\ \A j \in 0..(m - 1) : j # i => u[j] = r[j]
  BY <1>1 DEF Tables, Adds
<1>3. /\ DOMAIN jx = DOMAIN ix \cup {p} /\ jx[p] = i
      /\ \A f \in DOMAIN ix : jx[f] = ix[f]
  BY DEF Adds
<1>4. DOMAIN r = 0..(m - 1)
  BY DEF Tables
<1> HIDE DEF e
<1>5. \A f \in DOMAIN ix : ix[f] \in 0..(m - 1) /\ ix[f] # i
  BY <1>4, SizeAssumption DEF Owners
<1>6. \A f \in DOMAIN ix : u[jx[f]] = r[ix[f]]
  BY <1>2, <1>3, <1>5
<1>7. ASSUME NEW f \in DOMAIN jx
      PROVE  jx[f] \in DOMAIN u /\ u[jx[f]].this = f /\ u[jx[f]].inode \in Inodes
  <2>1. CASE f = p
    BY <1>1, <1>2, <1>3, <2>1
  <2>2. CASE f \in DOMAIN ix
    BY <1>2, <1>3, <1>5, <1>6, <2>2 DEF Owners
  <2> QED BY <1>3, <2>1, <2>2
<1>8. ASSUME NEW j \in DOMAIN u, u[j].inode # 0
      PROVE  u[j].this = JUNK \/ (u[j].this \in DOMAIN jx /\ jx[u[j].this] = j)
  <2>1. CASE j = i
    BY <1>1, <1>2, <1>3, <2>1
  <2>2. CASE j # i
    <3>1. u[j] = r[j] /\ j \in DOMAIN r
      BY <1>2, <1>4, <2>2
    <3>2. r[j].this = JUNK \/ (r[j].this \in DOMAIN ix /\ ix[r[j].this] = j)
      BY <1>8, <3>1 DEF Owners
    <3> QED BY <1>3, <3>1, <3>2
  <2> QED BY <2>1, <2>2
<1>9. Owners(u, jx)
  BY <1>7, <1>8 DEF Owners
<1>10. u[jx[p]].inode = ino
  BY <1>1, <1>2, <1>3
<1> QED BY <1>2, <1>6, <1>9, <1>10

\* A descriptor less, with its entry.
LEMMA DropOwner ==
  ASSUME NEW n \in Nat, NEW t \in Tables(n), NEW ix, Owners(t, ix), NEW p \in DOMAIN ix
  PROVE  LET u == [t EXCEPT ![ix[p]] = UNUSED]
             jx == [f \in DOMAIN ix \ {p} |-> ix[f]]
         IN  /\ u \in Tables(n) /\ Owners(u, jx)
             /\ \A f \in DOMAIN ix \ {p} : u[jx[f]] = t[ix[f]]
<1> DEFINE u == [t EXCEPT ![ix[p]] = UNUSED]
           jx == [f \in DOMAIN ix \ {p} |-> ix[f]]
<1>1. DOMAIN t = 0..(n - 1)
  BY DEF Tables
<1>2. ix[p] \in 0..(n - 1) /\ t[ix[p]].this = p
  BY <1>1 DEF Owners
<1>3. /\ u \in Tables(n) /\ DOMAIN u = 0..(n - 1) /\ u[ix[p]] = UNUSED
      /\ \A j \in 0..(n - 1) : j # ix[p] => u[j] = t[j]
  BY <1>2, UnusedIs DEF Tables
<1>4. DOMAIN jx = DOMAIN ix \ {p} /\ \A f \in DOMAIN ix \ {p} : jx[f] = ix[f]
  OBVIOUS
<1> HIDE DEF u, jx
<1>5. \A f \in DOMAIN ix \ {p} : ix[f] \in 0..(n - 1) /\ ix[f] # ix[p]
  BY <1>1, <1>2 DEF Owners
<1>6. \A f \in DOMAIN ix \ {p} : u[jx[f]] = t[ix[f]]
  BY <1>3, <1>4, <1>5
<1>7. ASSUME NEW f \in DOMAIN jx
      PROVE  jx[f] \in DOMAIN u /\ u[jx[f]].this = f /\ u[jx[f]].inode \in Inodes
  BY <1>3, <1>4, <1>5, <1>6 DEF Owners
<1>8. ASSUME NEW j \in DOMAIN u, u[j].inode # 0
      PROVE  u[j].this = JUNK \/ (u[j].this \in DOMAIN jx /\ jx[u[j].this] = j)
  <2>1. j # ix[p]
    BY <1>3, <1>8, UnusedIs
  <2>2. u[j] = t[j] /\ j \in DOMAIN t
    BY <1>1, <1>3, <2>1
  <2>3. t[j].this = JUNK \/ (t[j].this \in DOMAIN ix /\ ix[t[j].this] = j)
    BY <1>8, <2>2 DEF Owners
  <2> QED BY <1>4, <2>1, <2>2, <2>3
<1> QED BY <1>3, <1>6, <1>7, <1>8 DEF Owners, u, jx

-----------------------------------------------------------------------------
\* Halving.

\* The values of the loop: n entries before, m after, descriptors H.
States(n, m, H) ==
  [old : Tables(n), tmp : Tables(m), index : [H -> Nat], fault : BOOLEAN]

\* Before entry i is filled, unless there was a fault.  The descriptors of H
\* that had the entries ix in c are settled or still to be moved ...
Places(s, i, H, c, ix) ==
  \A g \in H :
    \/ s.index[g] < i /\ s.tmp[s.index[g]] = c[ix[g]]
    \/ s.index[g] = ix[g] /\ ix[g] >= i /\ s.old[ix[g]] = c[ix[g]]

\* ... what is left of the old table is owned by those ...
Left(s, i, n, H) ==
  \A j \in i..(n - 1) : s.old[j].inode # 0 =>
    s.old[j].this = JUNK \/ (s.old[j].this \in H /\ s.index[s.old[j].this] = j)

\* ... the new one by the others ...
Made(s, i, m, H) ==
  \A j \in 0..(m - 1) : s.tmp[j].inode # 0 =>
    s.tmp[j].this = JUNK \/ (j < i /\ s.tmp[j].this \in H /\ s.index[s.tmp[j].this] = j)

\* ... and there is no hole in it as long as there are any.
Dense(s, i, n, H) ==
  \/ \A j \in i..(n - 1) : s.old[j].inode = 0
  \/ \A j \in 0..(i - 1) : \E g \in H : s.index[g] = j

Progress(s, i, n, m, H, c, ix) ==
  /\ s \in States(n, m, H)
  /\ ~s.fault => /\ Places(s, i, H, c, ix) /\ Left(s, i, n, H)
                 /\ Made(s, i, m, H) /\ Dense(s, i, n, H)

\* The entry at i stays where it is.
LEMMA StayStep ==
  ASSUME NEW n \in Nat, NEW m \in Nat, NEW H, NEW c, NEW ix,
         NEW i \in Nat, i < n, i < m,
         NEW s, Progress(s, i, n, m, H, c, ix), s.old[i].inode # 0
  PROVE  Progress(Fill(s, i), i + 1, n, m, H, c, ix)
<1> DEFINE f == s.fault \/ s.old[i].this = JUNK
           tmp == [s.tmp EXCEPT ![i] = s.old[i]]
           u == Fill(s, i)
<1> SUFFICES Progress(u, i + 1, n, m, H, c, ix)
  OBVIOUS
<1>1. /\ s \in States(n, m, H)
      /\ s.old \in Tables(n) /\ s.tmp \in Tables(m) /\ s.index \in [H -> Nat] /\ s.fault \in BOOLEAN
  BY DEF Progress, States
<1>2. i \in 0..(n - 1) /\ i \in 0..(m - 1)
  OBVIOUS
<1>3. u = [s EXCEPT !.tmp = tmp, !.fault = f]
  BY <1>1 DEF Fill, States
<1>4. /\ tmp \in Tables(m) /\ tmp[i] = s.old[i]
      /\ \A j \in 0..(m - 1) : j # i => tmp[j] = s.tmp[j]
  BY <1>1, <1>2 DEF Tables
<1>5. f \in BOOLEAN
  BY <1>1
<1> HIDE DEF tmp, f, u
<1>6. /\ u \in States(n, m, H) /\ u.tmp = tmp /\ u.fault = f
      /\ u.old = s.old /\ u.index = s.index
  BY <1>1, <1>3, <1>4, <1>5 DEF States
<1>7. SUFFICES ASSUME ~u.fault
               PROVE  /\ Places(u, i + 1, H, c, ix) /\ Left(u, i + 1, n, H)
                      /\ Made(u, i + 1, m, H) /\ Dense(u, i + 1, n, H)
  BY <1>6 DEF Progress
<1>8. ~s.fault /\ s.old[i].this # JUNK
  BY <1>6, <1>7 DEF f
<1>9. Places(s, i, H, c, ix) /\ Left(s, i, n, H) /\ Made(s, i, m, H) /\ Dense(s, i, n, H)
  BY <1>8 DEF Progress
<1> DEFINE g == s.old[i].this
<1>10. g \in H /\ s.index[g] = i
  <2>1. i \in i..(n - 1)
    OBVIOUS
  <2> QED BY <1>8, <1>9, <2>1 DEF Left
<1>11. ix[g] = i /\ s.old[i] = c[i]
  BY <1>9, <1>10 DEF Places
<1> HIDE DEF g
<1>12. Places(u, i + 1, H, c, ix)
  <2> SUFFICES ASSUME NEW h \in H
               PROVE  \/ s.index[h] < i + 1 /\ tmp[s.index[h]] = c[ix[h]]
                      \/ s.index[h] = ix[h] /\ ix[h] >= i + 1 /\ s.old[ix[h]] = c[ix[h]]
    BY <1>6 DEF Places
  <2>1. s.index[h] \in Nat
    BY <1>1
  <2>2. CASE h = g
    BY <1>4, <1>10, <1>11, <2>2
  <2>3. CASE s.index[h] < i /\ s.tmp[s.index[h]] = c[ix[h]]
    <3>1. s.index[h] \in 0..(m - 1) /\ s.index[h] # i /\ s.index[h] < i + 1
      BY <2>1, <2>3
    <3> QED BY <1>4, <2>3, <3>1
  <2>4. CASE s.index[h] = ix[h] /\ ix[h] >= i /\ s.old[ix[h]] = c[ix[h]]
    <3>1. CASE ix[h] = i
      BY <1>4, <2>4, <3>1
    <3>2. CASE ix[h] # i
      BY <2>1, <2>4, <3>2
    <3> QED BY <3>1, <3>2
  <2> QED BY <1>9, <2>3, <2>4 DEF Places
<1>13. Left(u, i + 1, n, H)
  <2>1. \A j \in (i + 1)..(n - 1) : j \in i..(n - 1)
    OBVIOUS
  <2> QED BY <1>6, <1>9, <2>1 DEF Left
<1>14. Made(u, i + 1, m, H)
  <2> SUFFICES ASSUME NEW j \in 0..(m - 1), tmp[j].inode # 0
               PROVE  \/ tmp[j].this = JUNK
                      \/ j < i + 1 /\ tmp[j].this \in H /\ s.index[tmp[j].this] = j
    BY <1>6 DEF Made
  <2>1. CASE j = i
    BY <1>4, <1>10, <2>1 DEF g
  <2>2. CASE j # i
    <3>1. tmp[j] = s.tmp[j]
      BY <1>4, <2>2
    <3>2. j < i => j < i + 1
      OBVIOUS
    <3> QED BY <1>9, <3>1, <3>2 DEF Made
  <2> QED BY <2>1, <2>2
<1>15. Dense(u, i + 1, n, H)
  <2>1. i \in i..(n - 1)
    OBVIOUS
  <2>2. \A j \in 0..(i - 1) : \E h \in H : s.index[h] = j
    BY <1>9, <2>1 DEF Dense
  <2>3. \A j \in 0..(i + 1 - 1) : j = i \/ j \in 0..(i - 1)
    OBVIOUS
  <2>4. \A j \in 0..(i + 1 - 1) : \E h \in H : s.index[h] = j
    BY <1>10, <2>2, <2>3
  <2> QED BY <1>6, <2>4 DEF Dense
<1> QED BY <1>12, <1>13, <1>14, <1>15

\* There is nothing left to move.
LEMMA DoneStep ==
  ASSUME NEW n \in Nat, NEW m \in Nat, NEW H, NEW c, NEW ix,
         \A g \in H : c[ix[g]].inode # 0,
         NEW i \in Nat, i < n, i < m,
         NEW s, Progress(s, i, n, m, H, c, ix), s.old[i].inode = 0, Behind(s, i) = {}
  PROVE  Progress(Fill(s, i), i + 1, n, m, H, c, ix)
<1>1. Fill(s, i) = s
  BY DEF Fill
<1>2. s \in States(n, m, H) /\ s.index \in [H -> Nat] /\ DOMAIN s.old = 0..(n - 1)
  BY DEF Progress, States, Tables
<1>3. SUFFICES ASSUME ~s.fault
               PROVE  /\ Places(s, i + 1, H, c, ix) /\ Left(s, i + 1, n, H)
                      /\ Made(s, i + 1, m, H) /\ Dense(s, i + 1, n, H)
  BY <1>1, <1>2 DEF Progress
<1>4. Places(s, i, H, c, ix) /\ Left(s, i, n, H) /\ Made(s, i, m, H)
  BY <1>3 DEF Progress
<1>5. Places(s, i + 1, H, c, ix)
  <2> SUFFICES ASSUME NEW h \in H
               PROVE  \/ s.index[h] < i + 1 /\ s.tmp[s.index[h]] = c[ix[h]]
                      \/ s.index[h] = ix[h] /\ ix[h] >= i + 1 /\ s.old[ix[h]] = c[ix[h]]
    BY DEF Places
  <2>1. s.index[h] \in Nat
    BY <1>2
  <2>2. CASE s.index[h] < i /\ s.tmp[s.index[h]] = c[ix[h]]
    BY <2>1, <2>2
  <2>3. CASE s.index[h] = ix[h] /\ ix[h] >= i /\ s.old[ix[h]] = c[ix[h]]
    <3>1. ix[h] # i
      BY <2>3
    <3> QED BY <2>1, <2>3, <3>1
  <2> QED BY <1>4, <2>2, <2>3 DEF Places
<1>6. Left(s, i + 1, n, H)
  <2>1. \A j \in (i + 1)..(n - 1) : j \in i..(n - 1)
    OBVIOUS
  <2> QED BY <1>4, <2>1 DEF Left
<1>7. Made(s, i + 1, m, H)
  <2>1. \A j \in 0..(m - 1) : j < i => j < i + 1
    OBVIOUS
  <2> QED BY <1>4, <2>1 DEF Made
<1>8. Dense(s, i + 1, n, H)
  <2>1. \A j \in (i + 1)..(n - 1) : j \in 0..(n - 1) /\ j > i
    OBVIOUS
  <2>2. \A j \in (i + 1)..(n - 1) : s.old[j].inode = 0
    BY <1>2, <2>1 DEF Behind
  <2> QED BY <2>2 DEF Dense
<1> QED BY <1>5, <1>6, <1>7, <1>8

\* An entry from behind is moved to i.
LEMMA MoveStep ==
  ASSUME NEW n \in Nat, NEW m \in Nat, NEW H, NEW c, NEW ix,
         \A g \in H : ix[g] \in 0..(n - 1) /\ c[ix[g]].inode # 0 /\ c[ix[g]].this = g,
         NEW i \in Nat, i < n, i < m,
         NEW s, Progress(s, i, n, m, H, c, ix), s.old[i].inode = 0,
         NEW k \in Behind(s, i)
  PROVE  Progress(Move(s, i, k), i + 1, n, m, H, c, ix)
<1> DEFINE e == s.old[k]
           g == e.this
           f == s.fault \/ g = JUNK
           tmp == [s.tmp EXCEPT ![i] = e]
           z == [e EXCEPT !.inode = 0]
           old == [s.old EXCEPT ![k] = z]
           redirected == [p \in DOMAIN s.index |-> IF p = g THEN i ELSE s.index[p]]
           u == Move(s, i, k)
<1> SUFFICES Progress(u, i + 1, n, m, H, c, ix)
  OBVIOUS
<1>1. /\ s \in States(n, m, H) /\ DOMAIN s.old = 0..(n - 1)
      /\ s.old \in Tables(n) /\ s.tmp \in Tables(m) /\ s.index \in [H -> Nat] /\ s.fault \in BOOLEAN
  BY DEF Progress, States, Tables
<1>2. i \in 0..(n - 1) /\ i \in 0..(m - 1)
  OBVIOUS
<1>3. k \in 0..(n - 1) /\ k > i /\ e.inode # 0 /\ k \in Nat
  BY <1>1 DEF Behind
<1>4. u = [s EXCEPT !.tmp = tmp, !.old = old, !.fault = f, !.index = redirected]
  <2>1. u = [s EXCEPT !.tmp = tmp, !.old = [s.old EXCEPT ![k].inode = 0],
                      !.fault = f, !.index = redirected]
    BY <1>1 DEF Move, States
  <2>2. [s.old EXCEPT ![k].inode = 0] = old
    OBVIOUS
  <2> QED BY Zenon, <2>1, <2>2
<1>5. e \in Rec /\ z \in Rec /\ z.inode = 0
  BY <1>1, <1>3 DEF Tables, Rec
<1>6. /\ tmp \in Tables(m) /\ tmp[i] = e
      /\ \A j \in 0..(m - 1) : j # i => tmp[j] = s.tmp[j]
  <2> HIDE DEF e
  <2> QED BY <1>1, <1>2, <1>5 DEF Tables
<1>7. /\ old \in Tables(n) /\ old[k] = z
      /\ \A j \in 0..(n - 1) : j # k => old[j] = s.old[j]
  <2> HIDE DEF z
  <2> QED BY <1>1, <1>3, <1>5 DEF Tables
<1>8. redirected \in [H -> Nat] /\ f \in BOOLEAN
  BY <1>1
<1>9. \A p \in H : redirected[p] = IF p = g THEN i ELSE s.index[p]
  BY <1>1
<1> HIDE DEF tmp, f, u, old, redirected, z, e, g
<1>10. /\ u \in States(n, m, H) /\ u.tmp = tmp /\ u.fault = f
       /\ u.old = old /\ u.index = redirected
  BY <1>1, <1>4, <1>6, <1>7, <1>8 DEF States
<1>11. SUFFICES ASSUME ~u.fault
                PROVE  /\ Places(u, i + 1, H, c, ix) /\ Left(u, i + 1, n, H)
                       /\ Made(u, i + 1, m, H) /\ Dense(u, i + 1, n, H)
  BY <1>10 DEF Progress
<1>12. ~s.fault /\ g # JUNK
  BY <1>10, <1>11 DEF f
<1>13. Places(s, i, H, c, ix) /\ Left(s, i, n, H) /\ Made(s, i, m, H) /\ Dense(s, i, n, H)
  BY <1>12 DEF Progress
<1>14. g \in H /\ s.index[g] = k
  <2>1. k \in i..(n - 1)
    BY <1>3
  <2> QED BY <1>3, <1>12, <1>13, <2>1 DEF Left, e, g
<1>15. ix[g] = k /\ e = c[k]
  <2>1. ~(s.index[g] < i)
    BY <1>3, <1>14
  <2> QED BY <1>13, <1>14, <2>1 DEF Places, e
<1>16. redirected[g] = i
  BY <1>9, <1>14
<1>17. Places(u, i + 1, H, c, ix)
  <2> SUFFICES ASSUME NEW h \in H
               PROVE  \/ redirected[h] < i + 1 /\ tmp[redirected[h]] = c[ix[h]]
                      \/ redirected[h] = ix[h] /\ ix[h] >= i + 1 /\ old[ix[h]] = c[ix[h]]
    BY <1>10 DEF Places
  <2>1. s.index[h] \in Nat
    BY <1>1
  <2>2. CASE h = g
    BY <1>6, <1>15, <1>16, <2>2
  <2>3. CASE h # g /\ s.index[h] < i /\ s.tmp[s.index[h]] = c[ix[h]]
    <3>1. s.index[h] \in 0..(m - 1) /\ s.index[h] # i /\ s.index[h] < i + 1
      BY <2>1, <2>3
    <3>2. redirected[h] = s.index[h]
      BY <1>9, <2>3
    <3> QED BY <1>6, <2>3, <3>1, <3>2
  <2>4. CASE h # g /\ s.index[h] = ix[h] /\ ix[h] >= i /\ s.old[ix[h]] = c[ix[h]]
    <3>1. ix[h] # i
      BY <2>4
    <3>2. ix[h] # k
      BY <1>14, <1>15, <2>4
    <3>3. redirected[h] = ix[h] /\ ix[h] >= i + 1
      BY <1>9, <2>1, <2>4, <3>1
    <3>4. ix[h] \in DOMAIN s.old
      BY <1>1
    <3>5. old[ix[h]] = s.old[ix[h]]
      BY <1>1, <1>7, <3>2, <3>4
    <3> QED BY <2>4, <3>3, <3>5
  <2> QED BY <1>13, <2>2, <2>3, <2>4 DEF Places
<1>18. Left(u, i + 1, n, H)
  <2> SUFFICES ASSUME NEW j \in (i + 1)..(n - 1), old[j].inode # 0
               PROVE  old[j].this = JUNK \/ (old[j].this \in H /\ redirected[old[j].this] = j)
    BY <1>10 DEF Left
  <2>1. j # k /\ j \in 0..(n - 1) /\ j \in i..(n - 1) /\ j \in Nat
    BY <1>5, <1>7
  <2>2. old[j] = s.old[j]
    BY <1>7, <2>1
  <2>3. s.old[j].this = JUNK \/ (s.old[j].this \in H /\ s.index[s.old[j].this] = j)
    BY <1>13, <2>1, <2>2 DEF Left
  <2>4. s.index[s.old[j].this] = j => s.old[j].this # g
    BY <1>14, <2>1
  <2> QED BY <1>9, <2>2, <2>3, <2>4
<1>19. Made(u, i + 1, m, H)
  <2> SUFFICES ASSUME NEW j \in 0..(m - 1), tmp[j].inode # 0
               PROVE  \/ tmp[j].this = JUNK
                      \/ j < i + 1 /\ tmp[j].this \in H /\ redirected[tmp[j].this] = j
    BY <1>10 DEF Made
  <2>1. CASE j = i
    BY <1>6, <1>14, <1>16, <2>1 DEF g
  <2>2. CASE j # i
    <3>1. tmp[j] = s.tmp[j]
      BY <1>6, <2>2
    <3>2. \/ s.tmp[j].this = JUNK
          \/ j < i /\ s.tmp[j].this \in H /\ s.index[s.tmp[j].this] = j
      BY <1>13, <3>1 DEF Made
    <3>3. j < i => j < i + 1 /\ j # k
      BY <1>3
    <3>4. s.index[s.tmp[j].this] = j /\ j # k => s.tmp[j].this # g
      BY <1>14
    <3> QED BY <1>9, <3>1, <3>2, <3>3, <3>4
  <2> QED BY <2>1, <2>2
<1>20. Dense(u, i + 1, n, H)
  <2>1. k \in i..(n - 1) /\ s.old[k].inode # 0
    BY <1>3 DEF e
  <2>2. \A j \in 0..(i - 1) : \E h \in H : s.index[h] = j
    BY <1>13, <2>1 DEF Dense
  <2>3. ASSUME NEW j \in 0..(i - 1) PROVE \E h \in H : redirected[h] = j
    <3>1. PICK h \in H : s.index[h] = j
      BY <2>2
    <3>2. h # g
      BY <1>3, <1>14, <3>1
    <3> QED BY <1>9, <3>1, <3>2
  <2>4. \A j \in 0..(i + 1 - 1) : j = i \/ j \in 0..(i - 1)
    OBVIOUS
  <2>5. \A j \in 0..(i + 1 - 1) : \E h \in H : redirected[h] = j
    BY <1>14, <1>16, <2>3, <2>4
  <2> QED BY <1>10, <2>5 DEF Dense
<1> QED BY <1>17, <1>18, <1>19, <1>20

\* What the loop has for the n entries of c and the descriptors of ix.
Sources(n, H, c, ix) ==
  \A g \in H : ix[g] \in 0..(n - 1) /\ c[ix[g]].inode # 0 /\ c[ix[g]].this = g

\* One turn of the loop of close.
LEMMA FillStep ==
  ASSUME NEW n \in Nat, NEW m \in Nat, NEW H, NEW c, NEW ix, Sources(n, H, c, ix),
         NEW i \in Nat, i < n, i < m,
         NEW s, Progress(s, i, n, m, H, c, ix)
  PROVE  Progress(Fill(s, i), i + 1, n, m, H, c, ix)
<1>0. \A g \in H : ix[g] \in 0..(n - 1) /\ c[ix[g]].inode # 0 /\ c[ix[g]].this = g
  BY DEF Sources
<1>1. CASE s.old[i].inode # 0
  BY <1>1, StayStep
<1>2. CASE s.old[i].inode = 0 /\ Behind(s, i) = {}
  BY <1>0, <1>2, DoneStep
<1>3. CASE s.old[i].inode = 0 /\ Behind(s, i) # {}
  <2> DEFINE T == Behind(s, i)
             k == Max(T)
  <2>1. T \subseteq 0..n
    <3>1. DOMAIN s.old = 0..(n - 1)
      BY DEF Progress, States, Tables
    <3> QED BY <3>1 DEF Behind
  <2>2. T # {}
    BY <1>3
  <2> HIDE DEF T
  <2>3. k \in T
    BY <2>1, <2>2, MaxIsGreatest
  <2>4. Fill(s, i) = Move(s, i, k)
    BY <1>3 DEF Fill, T
  <2> HIDE DEF k
  <2>5. Progress(Move(s, i, k), i + 1, n, m, H, c, ix)
    BY <1>0, <1>3, <2>3, MoveStep DEF T
  <2> QED BY <2>4, <2>5
<1> QED BY <1>1, <1>2, <1>3

\* F has the values of the loop after each of its q turns.
Filling(F, q, start) ==
  F = [i \in 0..q |-> IF i = 0 THEN start ELSE Fill(F[i - 1], i - 1)]

\* The loop can make any number of turns.
LEMMA FillingExists ==
  ASSUME NEW q \in Nat, NEW start
  PROVE  \E F : Filling(F, q, start)
<1> DEFINE Bad == {r \in Nat : ~\E F : Filling(F, r, start)}
<1> SUFFICES ASSUME Bad # {} PROVE FALSE
  OBVIOUS
<1>1. PICK r \in Bad : \A y \in Bad : r <= y
  <2>1. Bad \subseteq Nat
    OBVIOUS
  <2> HIDE DEF Bad
  <2> QED BY <2>1, LeastExists
<1>2. CASE r = 0
  <2> DEFINE F == [i \in 0..0 |-> start]
  <2>1. F = [i \in 0..0 |-> IF i = 0 THEN start ELSE Fill(F[i - 1], i - 1)]
    <3>1. \A i \in 0..0 : i = 0
      OBVIOUS
    <3>2. \A i \in 0..0 : start = IF i = 0 THEN start ELSE Fill(F[i - 1], i - 1)
      BY <3>1
    <3> QED BY <3>2
  <2> QED BY <1>2, <2>1 DEF Filling
<1>3. CASE r # 0
  <2> DEFINE p == r - 1
  <2>1. p \in Nat /\ ~(r <= p) /\ r \in Nat /\ p + 1 = r
    BY <1>3
  <2> HIDE DEF p
  <2>2. PICK F : Filling(F, p, start)
    BY <1>1, <2>1
  <2> DEFINE G == [i \in 0..r |-> IF i = 0 THEN start ELSE Fill(F[i - 1], i - 1)]
  <2>3. ASSUME NEW i \in 0..p PROVE G[i] = F[i]
    <3>1. i \in 0..r
      BY <2>1
    <3>2. F = [j \in 0..p |-> IF j = 0 THEN start ELSE Fill(F[j - 1], j - 1)]
      BY <2>2 DEF Filling
    <3>3. F[i] = IF i = 0 THEN start ELSE Fill(F[i - 1], i - 1)
      <4> DEFINE v(j) == IF j = 0 THEN start ELSE Fill(F[j - 1], j - 1)
      <4>1. F = [j \in 0..p |-> v(j)]
        BY <3>2
      <4>2. F[i] = v(i)
        <5> HIDE DEF v
        <5> QED BY <4>1
      <4> QED BY <4>2
    <3> QED BY <3>1, <3>3
  <2>4. \A i \in 0..r : i # 0 => i - 1 \in 0..p
    BY <2>1
  <2> DEFINE w(i) == IF i = 0 THEN start ELSE Fill(F[i - 1], i - 1)
             x(i) == IF i = 0 THEN start ELSE Fill(G[i - 1], i - 1)
  <2>5. \A i \in 0..r : w(i) = x(i)
    <3> SUFFICES ASSUME NEW i \in 0..r PROVE w(i) = x(i)
      OBVIOUS
    <3>1. CASE i = 0
      BY <3>1
    <3>2. CASE i # 0
      <4>1. G[i - 1] = F[i - 1]
        BY <2>3, <2>4, <3>2
      <4> HIDE DEF G
      <4> QED BY <3>2, <4>1
    <3> QED BY <3>1, <3>2
  <2>6. G = [i \in 0..r |-> w(i)]
    OBVIOUS
  <2>7. G = [i \in 0..r |-> x(i)]
    <3> HIDE DEF G, w, x
    <3> QED BY <2>5, <2>6
  <2>8. Filling(G, r, start)
    <3> HIDE DEF G, w
    <3> QED BY <2>7 DEF Filling
  <2> QED BY <2>8
<1> QED BY <1>2, <1>3

\* The table after halving, with fewer descriptors than a quarter of its
\* entries: all of them have come along, or there was a fault.
LEMMA HalvedFacts ==
  ASSUME NEW n \in Nat, NEW c \in Tables(n), NEW ix, NEW H, ix \in [H -> Nat],
         Owners(c, ix), IsFiniteSet(H), Cardinality(H) < n \div 4,
         NEW tmp \in Uninitialized(n \div 2)
  PROVE  LET s == Halved(c, ix, tmp)
         IN  ~s.fault =>
               /\ s.tmp \in Tables(n \div 2) /\ s.index \in [H -> Nat]
               /\ Owners(s.tmp, s.index)
               /\ \A g \in H : s.tmp[s.index[g]] = c[ix[g]]
<1> DEFINE q == n \div 4
           m == n \div 2
           start == [old |-> c, tmp |-> tmp, index |-> ix, fault |-> FALSE]
           F == CHOOSE G : Filling(G, q, start)
           s == Halved(c, ix, tmp)
<1>1. q \in Nat /\ m \in Nat /\ q <= m /\ q <= n /\ q > 0
  <2>1. q \in Nat /\ m \in Nat /\ q <= m /\ q <= n
    OBVIOUS
  <2>2. Cardinality(H) \in Nat
    BY FS_CardinalityType
  <2> QED BY <2>1, <2>2
<1>2. fdt_size(c) = n /\ DOMAIN c = 0..(n - 1)
  BY SizeIs
<1>3. Filling(F, q, start)
  <2> HIDE DEF start, q
  <2> QED BY Zenon, <1>1, FillingExists
<1>4. s = F[q]
  BY <1>2 DEF Halved, Filling
<1> HIDE DEF F, s
<1>5. F[0] = start /\ \A i \in 1..q : F[i] = Fill(F[i - 1], i - 1)
  <2> DEFINE v(i) == IF i = 0 THEN start ELSE Fill(F[i - 1], i - 1)
  <2> HIDE DEF start, q
  <2>1. F = [i \in 0..q |-> v(i)]
    BY <1>3 DEF Filling
  <2>2. \A i \in 0..q : F[i] = v(i)
    <3> HIDE DEF v
    <3> QED BY <2>1
  <2>3. 0 \in 0..q /\ \A i \in 1..q : i \in 0..q /\ i # 0
    BY <1>1
  <2> QED BY <2>2, <2>3
<1> DEFINE P(i) == Progress(F[i], i, n, m, H, c, ix)
<1>6. DOMAIN ix = H
  OBVIOUS
<1>7. Sources(n, H, c, ix)
  BY <1>2, <1>6, SizeAssumption DEF Sources, Owners
<1>8. P(0)
  <2>1. tmp \in [0..(m - 1) -> {UNUSED, [inode |-> JUNK, this |-> JUNK]}]
    BY DEF Uninitialized
  <2>2. [inode |-> JUNK, this |-> JUNK] \in Rec
    BY DEF Rec
  <2> HIDE DEF m, q
  <2>3. tmp \in Tables(m)
    BY <2>1, <2>2, UnusedIs DEF Tables
  <2>4. /\ start \in States(n, m, H) /\ start.old = c /\ start.tmp = tmp
        /\ start.index = ix
    BY <2>3 DEF States
  <2> HIDE DEF start
  <2>5. Places(start, 0, H, c, ix)
    BY <1>7, <2>4 DEF Places, Sources
  <2>6. Left(start, 0, n, H)
    BY <1>2, <1>6, <2>4 DEF Left, Owners
  <2>7. Made(start, 0, m, H)
    <3>1. ASSUME NEW j \in 0..(m - 1), tmp[j].inode # 0 PROVE tmp[j].this = JUNK
      <4>1. tmp[j] = [inode |-> JUNK, this |-> JUNK]
        BY <2>1, <3>1, UnusedIs
      <4> QED BY <4>1
    <3> QED BY <2>4, <3>1 DEF Made
  <2>8. Dense(start, 0, n, H)
    <3>1. 0..(0 - 1) = {}
      OBVIOUS
    <3> QED BY <3>1 DEF Dense
  <2> QED BY <1>5, <2>4, <2>5, <2>6, <2>7, <2>8 DEF Progress
<1>9. ASSUME NEW i \in 1..q, P(i - 1) PROVE P(i)
  <2> DEFINE j == i - 1
  <2>1. j \in Nat /\ j < n /\ j < m /\ j + 1 = i /\ j < q
    BY <1>1
  <2>2. F[i] = Fill(F[j], j)
    BY <1>5
  <2>3. Progress(F[j], j, n, m, H, c, ix)
    BY <1>9
  <2> HIDE DEF j, m, q
  <2>4. Progress(Fill(F[j], j), j + 1, n, m, H, c, ix)
    BY <1>1, <1>7, <2>1, <2>3, FillStep
  <2> QED BY <2>1, <2>2, <2>4
<1>10. P(q)
  <2> DEFINE Bad == {i \in 0..q : ~P(i)}
  <2>0. 0..q \subseteq Nat /\ q \in 0..q
    BY <1>1
  <2> HIDE DEF P, q
  <2> SUFFICES ASSUME Bad # {} PROVE FALSE
    BY <2>0
  <2>1. PICK i \in Bad : \A y \in Bad : i <= y
    <3>1. Bad \subseteq Nat
      BY <2>0
    <3> HIDE DEF Bad
    <3> QED BY <3>1, LeastExists
  <2>2. i # 0 /\ i \in 0..q /\ q \in Nat
    BY <1>1, <1>8
  <2>3. i \in 1..q /\ i - 1 \in 0..q /\ ~(i <= i - 1)
    BY <2>2
  <2>4. P(i - 1)
    BY <2>1, <2>3
  <2>5. P(i)
    BY <1>9, <2>3, <2>4
  <2> QED BY <2>5
<1>11. SUFFICES ASSUME ~s.fault
                PROVE  /\ s.tmp \in Tables(m) /\ s.index \in [H -> Nat]
                       /\ Owners(s.tmp, s.index)
                       /\ \A g \in H : s.tmp[s.index[g]] = c[ix[g]]
  BY DEF s
<1> HIDE DEF q, m
<1>12. /\ Places(s, q, H, c, ix) /\ Made(s, q, m, H) /\ Dense(s, q, n, H)
       /\ s.tmp \in Tables(m) /\ s.index \in [H -> Nat] /\ s.old \in Tables(n)
  BY <1>4, <1>10, <1>11 DEF Progress, States
<1>13. \A j \in q..(n - 1) : s.old[j].inode = 0
  <2> SUFFICES ASSUME \A j \in 0..(q - 1) : \E g \in H : s.index[g] = j
               PROVE  FALSE
    BY <1>12 DEF Dense
  <2> DEFINE T == 0..(q - 1)
             h == [g \in H |-> IF s.index[g] \in T THEN s.index[g] ELSE 0]
  <2>1. h \in Surjection(H, T)
    <3>1. 0 \in T
      BY <1>1
    <3>2. \A j \in T : \E g \in H : s.index[g] = j
      OBVIOUS
    <3> HIDE DEF T
    <3>3. h \in [H -> T]
      BY <3>1
    <3>4. \A j \in T : \E g \in H : h[g] = j
      BY <3>2
    <3> HIDE DEF h
    <3> QED BY <3>3, <3>4 DEF Surjection
  <2>2. Cardinality(T) = q
    <3>1. Cardinality(0..(q - 1)) = IF 0 > q - 1 THEN 0 ELSE q - 1 - 0 + 1
      BY <1>1, FS_Interval
    <3> QED BY <1>1, <3>1
  <2> HIDE DEF T, h
  <2>3. Cardinality(T) <= Cardinality(H)
    BY <2>1, FS_Surjection
  <2>4. Cardinality(H) \in Nat /\ Cardinality(H) < q
    BY FS_CardinalityType DEF q
  <2> QED BY <1>1, <2>2, <2>3, <2>4
<1>14. ASSUME NEW g \in H PROVE s.index[g] < q /\ s.tmp[s.index[g]] = c[ix[g]]
  <2>1. CASE s.index[g] = ix[g] /\ ix[g] >= q /\ s.old[ix[g]] = c[ix[g]]
    <3>1. ix[g] \in 0..(n - 1) /\ c[ix[g]].inode # 0
      BY <1>7 DEF Sources
    <3>2. ix[g] \in q..(n - 1)
      BY <1>1, <2>1, <3>1
    <3> QED BY <1>13, <2>1, <3>1, <3>2
  <2> QED BY <1>12, <2>1 DEF Places
<1>15. DOMAIN s.index = H /\ DOMAIN s.tmp = 0..(m - 1)
  BY <1>12 DEF Tables
<1>16. ASSUME NEW g \in H
       PROVE  /\ s.index[g] \in 0..(m - 1) /\ s.tmp[s.index[g]].this = g
              /\ s.tmp[s.index[g]].inode \in Inodes
  <2>1. s.index[g] \in Nat
    BY <1>12
  <2>2. s.index[g] \in 0..(m - 1)
    BY <1>1, <1>14, <2>1
  <2> QED BY <1>6, <1>14, <2>2 DEF Owners
<1>17. Owners(s.tmp, s.index)
  BY <1>12, <1>15, <1>16 DEF Owners, Made
<1> QED BY <1>12, <1>14, <1>17

-----------------------------------------------------------------------------
\* The specification.

Inv ==
  /\ \E n \in Nat \ {0} : fdt \in Tables(n)
  /\ index \in [held -> Nat] /\ held \subseteq Pointers /\ IsFiniteSet(held)
  /\ lost \subseteq Pointers /\ IsFiniteSet(lost)
  /\ Owners(fdt, index)
  /\ fdt_num = Cardinality(held) + Cardinality(lost)

\* What every step preserves.
IInv == ~fault => Inv

\* fs_inter_install
LEMMA InitInv == Init => IInv
<1> SUFFICES ASSUME Init PROVE Inv
  BY DEF IInv
<1>1. INIT_SIZE \in Nat \ {0} /\ fdt \in Tables(INIT_SIZE)
  BY SizeAssumption, UnusedIs DEF Init, Tables
<1>2. index \in [{} -> Nat] /\ DOMAIN index = {} /\ lost = {} /\ fdt_num = 0
  BY DEF Init
<1>3. Owners(fdt, index)
  <2>1. \A i \in DOMAIN fdt : fdt[i].inode = 0
    BY UnusedIs DEF Init
  <2> QED BY <1>2, <2>1 DEF Owners
<1>4. IsFiniteSet({}) /\ Cardinality({}) = 0
  BY FS_EmptySet
<1> QED BY <1>1, <1>2, <1>3, <1>4 DEF Inv, held

\* mem_alloc gives a pointer that is not in use.
LEMMA PointerIsNew ==
  ASSUME Unallocated # {}
  PROVE  NewPointer \in Pointers /\ NewPointer \notin held /\ NewPointer \notin lost
<1>1. Unallocated \subseteq Nat
  BY SizeAssumption DEF Unallocated
<1>2. NewPointer \in Unallocated
  BY <1>1, MinIsLeast DEF NewPointer
<1> QED BY <1>2 DEF Unallocated

\* What openfile leaves behind when it succeeds.
Opened(p, inode) ==
  /\ p \in Pointers /\ p \notin held
  /\ DOMAIN index' = held \cup {p}
  /\ fdt'[index'[p]].inode = inode
  /\ \A f \in held : fdt'[index'[f]] = fdt[index[f]]

\* openfile on a file that is there.
LEMMA OpenStep ==
  ASSUME IInv, NEW inode \in Inodes, Open(inode)
  PROVE  Inv' /\ Opened(NewPointer, inode)
<1> DEFINE i == FirstUnused(fdt)
           r == Room(fdt)
           p == NewPointer
<1>1. /\ Inv /\ Unallocated # {} /\ index' = Pointed(i) /\ fdt_num' = fdt_num + 1 /\ lost' = lost
      /\ fdt' = [r EXCEPT ![i] = [inode |-> inode, this |-> p]]
  BY DEF Open, IInv
<1>2. p \in Pointers /\ p \notin held
  BY <1>1, PointerIsNew
<1>3. PICK n \in Nat \ {0} : fdt \in Tables(n)
  BY <1>1 DEF Inv
<1>4. PICK m : Roomy(r, m, fdt, n, i)
  BY <1>3, RoomFacts
<1>5. /\ m \in Nat \ {0} /\ m \in Nat /\ r \in Tables(m) /\ i \in 0..(m - 1) /\ r[i].inode = 0
  BY <1>4 DEF Roomy
<1>6. Owners(fdt, index) /\ index \in [held -> Nat] /\ DOMAIN index = held
  BY <1>1 DEF Inv, held
<1>7. Owners(r, index) /\ \A f \in held : r[index[f]] = fdt[index[f]]
  BY <1>3, <1>4, <1>6, RoomOwners
<1> HIDE DEF i, r, p
<1>8. index' = [f \in held \cup {p} |-> IF f = p THEN i ELSE index[f]]
  BY <1>1 DEF Pointed, p
<1>9. /\ fdt' \in Tables(m) /\ Owners(fdt', index')
      /\ fdt'[index'[p]].inode = inode
      /\ \A f \in held : fdt'[index'[f]] = r[index[f]]
  <2>1. p \notin DOMAIN index
    BY <1>2, <1>6
  <2>2. fdt' = [r EXCEPT ![i] = [inode |-> inode, this |-> p]]
    BY <1>1
  <2>3. index' = [f \in DOMAIN index \cup {p} |-> IF f = p THEN i ELSE index[f]]
    BY <1>6, <1>8
  <2>4. /\ fdt' \in Tables(m) /\ Owners(fdt', index')
        /\ fdt'[index'[p]].inode = inode
        /\ \A f \in DOMAIN index : fdt'[index'[f]] = r[index[f]]
    <3>1. Adds(fdt', index', r, index, i, p, inode)
      BY Zenon, <2>2, <2>3 DEF Adds
    <3> QED BY <1>2, <1>5, <1>7, <2>1, <3>1, AddOwner
  <2> QED BY <1>6, <2>4
<1>10. DOMAIN index' = held \cup {p} /\ index' \in [held \cup {p} -> Nat]
  <2>1. i \in Nat
    BY <1>5
  <2> QED BY <1>6, <1>8, <2>1
<1>11. IsFiniteSet(held \cup {p}) /\ Cardinality(held \cup {p}) = Cardinality(held) + 1
  BY <1>1, <1>2, FS_AddElement DEF Inv
<1>12. Cardinality(held) \in Nat /\ Cardinality(lost) \in Nat
  BY <1>1, FS_CardinalityType DEF Inv
<1>13. held' = held \cup {p}
  BY <1>10 DEF held
<1>14. fdt_num' = Cardinality(held') + Cardinality(lost')
  BY <1>1, <1>11, <1>12, <1>13 DEF Inv
<1>15. /\ held' \subseteq Pointers /\ IsFiniteSet(held') /\ index' \in [held' -> Nat]
       /\ lost' \subseteq Pointers /\ IsFiniteSet(lost')
  BY <1>1, <1>2, <1>10, <1>11, <1>13 DEF Inv
<1>16. Inv'
  BY <1>5, <1>9, <1>14, <1>15 DEF Inv
<1>17. Opened(p, inode)
  BY <1>2, <1>7, <1>9, <1>10 DEF Opened
<1> QED BY <1>16, <1>17 DEF p

\* openfile on a file that cannot be made: the table may have grown.
LEMMA OpenFailsStep ==
  ASSUME IInv, OpenFails
  PROVE  /\ Inv' /\ index' = index
         /\ \A f \in held : fdt'[index[f]] = fdt[index[f]]
<1> DEFINE i == FirstUnused(fdt)
           r == Room(fdt)
           p == NewPointer
<1>1. /\ Inv /\ Unallocated # {} /\ index' = index /\ fdt_num' = fdt_num + 1
      /\ lost' = lost \cup {p} /\ fdt' = r
  BY DEF OpenFails, IInv
<1>2. p \in Pointers /\ p \notin lost
  BY <1>1, PointerIsNew
<1>3. PICK n \in Nat \ {0} : fdt \in Tables(n)
  BY <1>1 DEF Inv
<1>4. PICK m : Roomy(r, m, fdt, n, i)
  BY <1>3, RoomFacts
<1>5. m \in Nat \ {0} /\ r \in Tables(m)
  BY <1>4 DEF Roomy
<1>6. Owners(fdt, index) /\ DOMAIN index = held
  BY <1>1 DEF Inv, held
<1>7. Owners(r, index) /\ \A f \in held : r[index[f]] = fdt[index[f]]
  BY <1>3, <1>4, <1>6, RoomOwners
<1> HIDE DEF i, r, p
<1>8. IsFiniteSet(lost \cup {p}) /\ Cardinality(lost \cup {p}) = Cardinality(lost) + 1
  BY <1>1, <1>2, FS_AddElement DEF Inv
<1>9. Cardinality(held) \in Nat /\ Cardinality(lost) \in Nat
  BY <1>1, FS_CardinalityType DEF Inv
<1>10. held' = held
  BY <1>1 DEF held
<1>11. fdt_num' = Cardinality(held') + Cardinality(lost')
  BY <1>1, <1>8, <1>9, <1>10 DEF Inv
<1>12. /\ held' \subseteq Pointers /\ IsFiniteSet(held') /\ index' \in [held' -> Nat]
       /\ lost' \subseteq Pointers /\ IsFiniteSet(lost')
  BY <1>1, <1>2, <1>8, <1>10 DEF Inv
<1>13. Owners(fdt', index')
  BY <1>1, <1>7
<1>14. Inv'
  BY <1>1, <1>5, <1>11, <1>12, <1>13 DEF Inv
<1> QED BY <1>1, <1>7, <1>14

\* What close leaves behind, without a fault.
ClosedFd(f) ==
  /\ DOMAIN index' = held \ {f}
  /\ \A g \in held \ {f} : fdt'[index'[g]] = fdt[index[g]]

\* close, whether the table is halved or not.
LEMMA CloseStep ==
  ASSUME IInv, NEW f \in held, Close(f)
  PROVE  fault' \/ (Inv' /\ ClosedFd(f))
<1> DEFINE c == Cleared(f)
           ix == Freed(f)
           H == held \ {f}
<1>1. Inv /\ fdt_num' = fdt_num - 1 /\ lost' = lost
  BY DEF Close, IInv
<1>2. PICK n \in Nat \ {0} : fdt \in Tables(n)
  BY <1>1 DEF Inv
<1>3. Owners(fdt, index) /\ index \in [held -> Nat] /\ DOMAIN index = held
  BY <1>1 DEF Inv, held
<1>4. /\ c \in Tables(n) /\ Owners(c, ix)
      /\ \A g \in H : c[ix[g]] = fdt[index[g]]
  <2> DEFINE u == [fdt EXCEPT ![index[f]] = UNUSED]
             jx == [g \in DOMAIN index \ {f} |-> index[g]]
  <2>1. /\ u \in Tables(n) /\ Owners(u, jx)
        /\ \A g \in DOMAIN index \ {f} : u[jx[g]] = fdt[index[g]]
    <3>1. f \in DOMAIN index
      BY <1>3
    <3> QED BY <1>2, <1>3, <3>1, DropOwner
  <2>2. c = u /\ ix = jx
    BY <1>3 DEF Cleared, Freed
  <2> HIDE DEF u, jx, c, ix
  <2> QED BY <1>3, <2>1, <2>2
<1>5. ix \in [H -> Nat] /\ DOMAIN ix = H
  BY <1>3 DEF Freed
<1>6. IsFiniteSet(H) /\ Cardinality(H) = Cardinality(held) - 1
  BY <1>1, FS_RemoveElement DEF Inv
<1>7. Cardinality(held) \in Nat /\ Cardinality(lost) \in Nat /\ Cardinality(H) \in Nat
  BY <1>1, <1>6, FS_CardinalityType DEF Inv
<1>8. fdt_num - 1 = Cardinality(H) + Cardinality(lost)
  BY <1>1, <1>6, <1>7 DEF Inv
<1> HIDE DEF c, ix, H
<1>9. ASSUME NEW m \in Nat \ {0}, fdt' \in Tables(m), index' \in [H -> Nat],
             Owners(fdt', index'), \A g \in H : fdt'[index'[g]] = c[ix[g]]
      PROVE  Inv' /\ ClosedFd(f)
  <2>1. DOMAIN index' = H
    BY <1>9
  <2>2. held' = H
    BY <2>1 DEF held
  <2>3. fdt_num' = Cardinality(held') + Cardinality(lost')
    BY <1>1, <1>8, <2>2
  <2>4. /\ held' \subseteq Pointers /\ IsFiniteSet(held') /\ index' \in [held' -> Nat]
        /\ lost' \subseteq Pointers /\ IsFiniteSet(lost')
    BY <1>1, <1>6, <1>9, <2>2 DEF Inv, H
  <2>5. Inv'
    BY <1>9, <2>3, <2>4 DEF Inv
  <2>6. ClosedFd(f)
    BY <1>4, <1>9, <2>1 DEF ClosedFd, H
  <2> QED BY <2>5, <2>6
<1>10. CASE ~Sparse(fdt_num - 1)
  <2>1. fdt' = c /\ index' = ix
    BY <1>10 DEF Close, c, ix
  <2> QED BY <1>2, <1>4, <1>5, <1>9, <2>1
<1>11. CASE Sparse(fdt_num - 1)
  <2>1. fdt_size(fdt) = n
    BY <1>2, SizeIs
  <2>2. PICK tmp \in Uninitialized(n \div 2) :
          LET s == Halved(c, ix, tmp)
          IN  fdt' = s.tmp /\ index' = s.index /\ fault' = s.fault
    BY <1>11, <2>1 DEF Close, c, ix
  <2> DEFINE s == Halved(c, ix, tmp)
  <2>3. fdt' = s.tmp /\ index' = s.index /\ fault' = s.fault
    BY <2>2
  <2>4. Cardinality(H) < n \div 4
    <3>1. fdt_num - 1 < n \div 4
      BY <1>11, <2>1 DEF Sparse
    <3> DEFINE q == n \div 4
    <3>2. q \in Nat
      BY <1>2
    <3>3. fdt_num - 1 < q
      BY <3>1
    <3> HIDE DEF q
    <3>4. Cardinality(H) < q
      BY <1>7, <1>8, <3>2, <3>3
    <3> QED BY <3>4 DEF q
  <2>5. ~s.fault =>
               /\ s.tmp \in Tables(n \div 2) /\ s.index \in [H -> Nat]
               /\ Owners(s.tmp, s.index)
               /\ \A g \in H : s.tmp[s.index[g]] = c[ix[g]]
    BY <1>2, <1>4, <1>5, <1>6, <2>4, HalvedFacts
  <2> HIDE DEF s
  <2>6. n \div 2 \in Nat \ {0}
    BY <1>2, <1>7, <2>4
  <2> QED BY <1>9, <2>3, <2>5, <2>6
<1> QED BY <1>10, <1>11

-----------------------------------------------------------------------------
\* The table of Descriptors.

\* The descriptors that pass the test are those that were given out.
LEMMA OpenFilesAre ==
  ASSUME Inv
  PROVE  OpenFiles = [f \in held |-> fdt[index[f]].inode]
<1>1. \A f \in held : f \in Pointers /\ Valid(f)
  BY SizeAssumption DEF Inv, Owners, Valid, held
<1>2. {p \in Pointers : Valid(p)} = held
  BY <1>1 DEF Valid
<1> QED BY <1>2 DEF OpenFiles

\* The same after a step.
LEMMA OpenFilesAreNext ==
  ASSUME Inv'
  PROVE  OpenFiles' = [f \in held' |-> fdt'[index'[f]].inode]
<1>1. \A f \in held' : f \in Pointers /\ Valid(f)'
  BY SizeAssumption DEF Inv, Owners, Valid, held
<1>2. {p \in Pointers : Valid(p)'} = held'
  BY <1>1 DEF Valid
<1> QED BY <1>2 DEF OpenFiles

\* Every step preserves the invariant and is one of the table of Descriptors.
LEMMA NextKept ==
  ASSUME IInv, [Next]_vars
  PROVE  IInv' /\ (fault' \/ Table!Next \/ UNCHANGED OpenFiles)
<1>1. CASE UNCHANGED vars
  <2>1. IInv'
    BY <1>1 DEF vars, IInv, Inv, held, Owners
  <2>2. UNCHANGED OpenFiles
    BY <1>1 DEF vars, OpenFiles, Valid, held
  <2> QED BY <2>1, <2>2
<1>2. ASSUME NEW inode \in Inodes, Open(inode) PROVE IInv' /\ Table!Next
  <2> DEFINE p == NewPointer
  <2>1. Inv /\ Inv' /\ Opened(p, inode)
    BY <1>2, OpenStep DEF Open, IInv
  <2> HIDE DEF p
  <2>2. OpenFiles = [f \in held |-> fdt[index[f]].inode]
    BY <2>1, OpenFilesAre
  <2>3. OpenFiles' = [f \in held' |-> fdt'[index'[f]].inode]
    BY <2>1, OpenFilesAreNext
  <2>4. /\ p \in Pointers /\ p \notin held /\ held' = held \cup {p}
        /\ fdt'[index'[p]].inode = inode
        /\ \A f \in held : fdt'[index'[f]] = fdt[index[f]]
    BY <2>1 DEF Opened, held
  <2>5. DOMAIN OpenFiles = held
    BY <2>2
  <2>6. OpenFiles' = [q \in DOMAIN OpenFiles \cup {p} |-> IF q = p THEN inode ELSE OpenFiles[q]]
    BY <2>2, <2>3, <2>4, <2>5
  <2>7. Table!Open(p, inode)
    BY <2>4, <2>5, <2>6 DEF Table!Open
  <2> QED BY <2>1, <2>4, <2>7 DEF Table!Next, IInv
<1>3. CASE OpenFails
  <2>1. /\ Inv /\ Inv' /\ index' = index
        /\ \A f \in held : fdt'[index[f]] = fdt[index[f]]
    BY <1>3, OpenFailsStep DEF OpenFails, IInv
  <2>2. OpenFiles = [f \in held |-> fdt[index[f]].inode]
    BY <2>1, OpenFilesAre
  <2>3. OpenFiles' = [f \in held' |-> fdt'[index'[f]].inode]
    BY <2>1, OpenFilesAreNext
  <2>4. held' = held
    BY <2>1 DEF held
  <2>5. OpenFiles' = OpenFiles
    BY <2>1, <2>2, <2>3, <2>4
  <2> QED BY <2>1, <2>5 DEF IInv
<1>4. ASSUME NEW f \in held, Close(f) PROVE IInv' /\ (fault' \/ Table!Next)
  <2>1. CASE fault'
    BY <2>1 DEF IInv
  <2>2. CASE ~fault'
    <3>1. Inv /\ Inv' /\ ClosedFd(f)
      BY <1>4, <2>2, CloseStep DEF Close, IInv
    <3>2. OpenFiles = [g \in held |-> fdt[index[g]].inode]
      BY <3>1, OpenFilesAre
    <3>3. OpenFiles' = [g \in held' |-> fdt'[index'[g]].inode]
      BY <3>1, OpenFilesAreNext
    <3>4. held' = held \ {f} /\ \A g \in held \ {f} : fdt'[index'[g]] = fdt[index[g]]
      BY <3>1 DEF ClosedFd, held
    <3>5. DOMAIN OpenFiles = held
      BY <3>2
    <3>6. OpenFiles' = [q \in DOMAIN OpenFiles \ {f} |-> OpenFiles[q]]
      BY <3>2, <3>3, <3>4, <3>5
    <3>7. Table!Close(f)
      BY <3>6 DEF Table!Close
    <3> QED BY <3>1, <3>5, <3>7 DEF Table!Next, IInv
  <2> QED BY <2>1, <2>2
<1> QED BY <1>1, <1>2, <1>3, <1>4 DEF Next

\* The invariant says what HeldValid does.
LEMMA InvValid ==
  ASSUME IInv
  PROVE  HeldValid
<1> SUFFICES ASSUME ~fault
             PROVE  /\ \A f \in held : Valid(f) /\ fdt[index[f]].inode \in Inodes
                    /\ \A f, g \in held : index[f] = index[g] => f = g
                    /\ fdt_num = Cardinality(held) + Cardinality(lost)
  BY DEF HeldValid
<1>1. Inv
  BY DEF IInv
<1>2. \A f \in held : index[f] \in DOMAIN fdt /\ fdt[index[f]].this = f /\ fdt[index[f]].inode \in Inodes
  BY <1>1 DEF Inv, Owners, held
<1>3. \A f \in held : Valid(f)
  BY <1>2, SizeAssumption DEF Valid
<1> QED BY <1>1, <1>2, <1>3 DEF Inv

-----------------------------------------------------------------------------
\* Theorems.

\* Each descriptor and its entry name each other in every reachable state, and
\* every entry that looks used belongs to a descriptor or was never written
\* (openfile and close of fs_inter.c).
THEOREM Invariance == Spec => []IInv
<1>1. IInv /\ [Next]_vars => IInv'
  BY NextKept
<1> QED BY <1>1, InitInv, PTL DEF Spec

\* read and write accept every descriptor that is open, and no two share an
\* entry, however often the table doubled and was halved and whatever memory
\* it was halved into, until close takes an entry it never wrote for used.
THEOREM AlwaysValid == Spec => []HeldValid
<1>1. IInv => HeldValid
  BY InvValid
<1> QED BY <1>1, Invariance, PTL

\* The table implements Descriptors: openfile adds one descriptor for its
\* file, close takes one away, and neither touches the others.
THEOREM Refinement == Spec => TableKept
<1>1. Init => Table!Init
  <2> SUFFICES ASSUME Init PROVE Table!Init
    OBVIOUS
  <2>1. Inv
    BY InitInv DEF IInv, Init
  <2>2. OpenFiles = [f \in held |-> fdt[index[f]].inode] /\ held = {}
    BY <2>1, OpenFilesAre DEF Init, held
  <2>3. OpenFiles = [p \in {} |-> 0]
    BY <2>2
  <2> QED BY <2>3 DEF Table!Init
<1>2. IInv /\ [Next]_vars => [fault' \/ Table!Next \/ UNCHANGED OpenFiles]_vars
  BY NextKept
<1> QED BY <1>1, <1>2, Invariance, PTL DEF Spec, TableKept

============================================================================
