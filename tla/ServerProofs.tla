----------------------------- MODULE ServerProofs -----------------------------
(***************************************************************************)
(* Proofs about the handlers over PinataBackend, for any number of CIDs,   *)
(* requests and late arrivals and any page size: what a 200 is worth, what *)
(* papers and status report, and what the pages of PinnedCIDs add up to.   *)
(***************************************************************************)
EXTENDS Server, Integers, SequenceTheorems, TLAPS

-----------------------------------------------------------------------------
(* The inductive invariant *)

\* s has nothing twice.
Once(s) == \A i, j \in 1..Len(s) : s[i] = s[j] => i = j

\* A caller without a request has no call and no report, and a request has its
\* CID.
Call(h) == /\ op[h] # "IsPinned" => Busy(h)
           /\ Busy(h) /\ op[h] # "PinnedCIDs" => arg[h] \in CIDs
           /\ ~Reading(h) => yes[h] = {} /\ no[h] = {}

\* The service has answered with 200, and what it has done is done.
Served(h) == \/ at[h] = "answered" /\ ok[h]
             \/ at[h] = "done" /\ ~err[h]

\* No request that an undisturbed answer depends on is underway ...
Undisturbed(h) == Busy(h) /\ ~disturbed[h] => \A r \in Underway : ~Conflict(op[h], arg[h], r)

\* ... so that its effect stays.
Effect(h) == op[h] \in Changes /\ Served(h) /\ ~disturbed[h] =>
                 (arg[h] \in ToSet(remote) <=> op[h] = "Pin")

\* A lookup that was answered tells what was so at some time of the request.
Lookup(h) == op[h] = "IsPinned" /\ Served(h) =>
                 IF rows[h] = <<>> THEN arg[h] \in missed[h] ELSE arg[h] \in seen[h]

\* What a caller reports, a failed lookup counting as not pinned.
Reported(h) == yes[h] \subseteq seen[h] /\ no[h] \subseteq missed[h] \cup failed[h]

\* What a page lists was pinned at some time of the request.
Pages(h) == op[h] = "PinnedCIDs" => ToSet(got[h]) \subseteq seen[h] /\ ToSet(rows[h]) \subseteq seen[h]

\* x is still to come: behind the offset, in the page that has just been
\* answered, or behind it.
Ahead(h, x) ==
    \/ at[h] = "sent" /\ \E i \in 1..Len(remote) : i > offset[h] /\ remote[i] = x
    \/ at[h] = "answered" /\ x \in ToSet(rows[h])
    \/ /\ at[h] = "answered" /\ Len(rows[h]) >= PageSize
       /\ \E i \in 1..Len(remote) : i > offset[h] + PageSize /\ remote[i] = x

\* Every CID that has been pinned all the time is in the pages read, or ahead.
NothingSkipped(h) ==
    op[h] = "PinnedCIDs" /\ ~err[h] /\ ~disturbed[h] =>
        \A x \in CIDs : x \in missed[h] \/ x \in ToSet(got[h]) \/ Ahead(h, x)

Caller(h) == /\ Call(h) /\ Undisturbed(h) /\ Effect(h) /\ Lookup(h)
             /\ Reported(h) /\ Pages(h) /\ NothingSkipped(h)

\* Nothing underway can change what is known.
Settled ==
    \A x \in CIDs : /\ known[x] = "pinned" => <<"Unpin", x>> \notin Underway
                    /\ known[x] = "unpinned" => <<"Pin", x>> \notin Underway

Inv == /\ TypeOK /\ Once(remote) /\ Settled /\ KnownStatus
       /\ \A h \in Callers : Caller(h)

-----------------------------------------------------------------------------
(* Sequences *)

LEMMA Elements ==
    ASSUME NEW S, NEW s \in Seq(S)
    PROVE  /\ ToSet(s) \subseteq S
           /\ \A x : x \in ToSet(s) <=> \E i \in 1..Len(s) : s[i] = x
  BY DEF ToSet

LEMMA ConcatElements ==
    ASSUME NEW S, NEW s \in Seq(S), NEW t \in Seq(S)
    PROVE  ToSet(s \o t) = ToSet(s) \cup ToSet(t)
  <1>1. s \o t \in Seq(S) /\ Len(s \o t) = Len(s) + Len(t)
    OBVIOUS
  <1>2. \A i \in 1..(Len(s) + Len(t)) : (s \o t)[i] = IF i <= Len(s) THEN s[i] ELSE t[i - Len(s)]
    BY ConcatProperties
  <1>3. \A i \in 1..Len(s) : i \in 1..(Len(s) + Len(t)) /\ (s \o t)[i] = s[i]
    BY <1>2
  <1>4. \A i \in 1..Len(t) : Len(s) + i \in 1..(Len(s) + Len(t)) /\ (s \o t)[Len(s) + i] = t[i]
    BY <1>2
  <1>5. \A x : x \in ToSet(s \o t) <=> \E i \in 1..(Len(s) + Len(t)) : (s \o t)[i] = x
    BY <1>1, Elements
  <1>6. ASSUME NEW x \in ToSet(s \o t) PROVE x \in ToSet(s) \cup ToSet(t)
    <2>1. PICK i \in 1..(Len(s) + Len(t)) : (s \o t)[i] = x
      BY <1>5, <1>6
    <2>2. CASE i <= Len(s)
      BY <1>2, <2>1, <2>2, Elements
    <2>3. CASE ~(i <= Len(s))
      <3>1. i - Len(s) \in 1..Len(t) /\ t[i - Len(s)] = x
        BY <1>2, <2>1, <2>3
      <3> QED BY <3>1, Elements
    <2> QED BY <2>2, <2>3
  <1>7. ASSUME NEW x \in ToSet(s) \cup ToSet(t) PROVE x \in ToSet(s \o t)
    BY <1>3, <1>4, <1>5, <1>7, Elements
  <1> QED BY <1>6, <1>7

\* t has x at the place i, and the rest in the order of s.
Inserted(t, s, i, x) ==
    /\ Len(t) = Len(s) + 1
    /\ \A j \in 1..Len(t) : t[j] = IF j < i THEN s[j] ELSE IF j = i THEN x ELSE s[j - 1]

\* t has the elements of s but for the one at i.
Removed(t, s, i) ==
    /\ Len(t) = Len(s) - 1
    /\ \A j \in 1..Len(t) : t[j] = IF j < i THEN s[j] ELSE s[j + 1]

LEMMA InsertInserts ==
    ASSUME NEW S, NEW s \in Seq(S), NEW x \in S, NEW i \in 1..(Len(s) + 1)
    PROVE  InsertAt(s, i, x) \in Seq(S) /\ Inserted(InsertAt(s, i, x), s, i, x)
  <1> DEFINE a == SubSeq(s, 1, i - 1)
             b == SubSeq(s, i, Len(s))
             ax == a \o <<x>>
  <1>1. a \in Seq(S) /\ Len(a) = i - 1 /\ \A j \in 1..(i - 1) : a[j] = s[j]
    <2>1. \A j \in 1..(i - 1) : s[j] \in S
      OBVIOUS
    <2> QED BY <2>1, SubSeqProperties
  <1>2. b \in Seq(S) /\ Len(b) = Len(s) - i + 1 /\ \A j \in 1..(Len(s) - i + 1) : b[j] = s[i + j - 1]
    <2>1. \A j \in i..Len(s) : s[j] \in S
      OBVIOUS
    <2> QED BY <2>1, SubSeqProperties
  <1> HIDE DEF a, b
  <1>3. ax \in Seq(S) /\ Len(ax) = i /\ \A j \in 1..i : ax[j] = IF j < i THEN a[j] ELSE x
    <2>1. <<x>> \in Seq(S) /\ Len(<<x>>) = 1 /\ <<x>>[1] = x
      OBVIOUS
    <2> QED BY <1>1, <2>1, ConcatProperties
  <1> HIDE DEF ax
  <1>4. /\ ax \o b \in Seq(S) /\ Len(ax \o b) = Len(s) + 1
        /\ \A j \in 1..(Len(s) + 1) : (ax \o b)[j] = IF j <= i THEN ax[j] ELSE b[j - i]
    BY <1>2, <1>3, ConcatProperties
  <1>5. InsertAt(s, i, x) = ax \o b
    BY DEF InsertAt, ax, a, b
  <1>6. \A j \in 1..(Len(s) + 1) :
          (ax \o b)[j] = IF j < i THEN s[j] ELSE IF j = i THEN x ELSE s[j - 1]
    BY <1>1, <1>2, <1>3, <1>4
  <1> QED BY <1>4, <1>5, <1>6 DEF Inserted

LEMMA RemoveRemoves ==
    ASSUME NEW S, NEW s \in Seq(S), NEW i \in 1..Len(s)
    PROVE  RemoveAt(s, i) \in Seq(S) /\ Removed(RemoveAt(s, i), s, i)
  <1> DEFINE a == SubSeq(s, 1, i - 1)
             b == SubSeq(s, i + 1, Len(s))
  <1>1. a \in Seq(S) /\ Len(a) = i - 1 /\ \A j \in 1..(i - 1) : a[j] = s[j]
    <2>1. \A j \in 1..(i - 1) : s[j] \in S
      OBVIOUS
    <2> QED BY <2>1, SubSeqProperties
  <1>2. b \in Seq(S) /\ Len(b) = Len(s) - i /\ \A j \in 1..(Len(s) - i) : b[j] = s[i + j]
    <2>1. \A j \in (i + 1)..Len(s) : s[j] \in S
      OBVIOUS
    <2> QED BY <2>1, SubSeqProperties
  <1> HIDE DEF a, b
  <1>3. /\ a \o b \in Seq(S) /\ Len(a \o b) = Len(s) - 1
        /\ \A j \in 1..(Len(s) - 1) : (a \o b)[j] = IF j <= i - 1 THEN a[j] ELSE b[j - (i - 1)]
    <2>1. Len(a) + Len(b) = Len(s) - 1
      BY <1>1, <1>2
    <2>2. /\ a \o b \in Seq(S) /\ Len(a \o b) = Len(a) + Len(b)
          /\ \A j \in 1..(Len(a) + Len(b)) : (a \o b)[j] = IF j <= Len(a) THEN a[j] ELSE b[j - Len(a)]
      BY <1>1, <1>2, ConcatProperties
    <2> QED BY <1>1, <2>1, <2>2
  <1>4. RemoveAt(s, i) = a \o b
    BY DEF RemoveAt, a, b
  <1>5. \A j \in 1..(Len(s) - 1) : (a \o b)[j] = IF j < i THEN s[j] ELSE s[j + 1]
    BY <1>1, <1>2, <1>3
  <1> QED BY <1>3, <1>4, <1>5 DEF Removed

-----------------------------------------------------------------------------
(* What the service does *)

\* t is what the service has after it has done o to x: what is asked for, with
\* nothing twice, and nothing moves to an earlier place but by an unpin.
Done(o, x, t) ==
    /\ t \in Seq(CIDs) /\ Once(t)
    /\ o = "Pin" => ToSet(t) = ToSet(remote) \cup {x}
    /\ o = "Unpin" => ToSet(t) = ToSet(remote) \ {x}
    /\ o \notin Changes => t = remote
    /\ o # "Unpin" => \A i \in 1..Len(remote) : \E j \in 1..Len(t) : j >= i /\ t[j] = remote[i]

LEMMA PinDone ==
    ASSUME remote \in Seq(CIDs), Once(remote), NEW x \in CIDs, NEW i \in 1..(Len(remote) + 1),
           x \notin ToSet(remote), NEW t \in Seq(CIDs), Inserted(t, remote, i, x)
    PROVE  Done("Pin", x, t)
  <1>1. \A j \in 1..Len(remote) : remote[j] \in CIDs /\ remote[j] # x
    BY Elements
  <1>2. Once(t)
    <2> SUFFICES ASSUME NEW j \in 1..Len(t), NEW k \in 1..Len(t), t[j] = t[k] PROVE j = k
      BY DEF Once
    <2> DEFINE old(n) == IF n < i THEN n ELSE n - 1
    <2>1. \A n \in 1..Len(t) : n # i => old(n) \in 1..Len(remote) /\ t[n] = remote[old(n)]
      BY DEF Inserted
    <2>2. t[i] = x
      BY DEF Inserted
    <2>3. j # i /\ k # i => old(j) = old(k)
      BY <2>1 DEF Once
    <2> QED BY <1>1, <2>1, <2>2, <2>3
  <1>3. \A j \in 1..Len(remote) : \E k \in 1..Len(t) : k >= j /\ t[k] = remote[j]
    <2> SUFFICES ASSUME NEW j \in 1..Len(remote)
                 PROVE  \E k \in 1..Len(t) : k >= j /\ t[k] = remote[j]
      OBVIOUS
    <2>1. CASE j < i
      BY <2>1 DEF Inserted
    <2>2. CASE ~(j < i)
      <3>1. j + 1 \in 1..Len(t) /\ t[j + 1] = remote[j]
        BY <2>2 DEF Inserted
      <3> QED BY <3>1
    <2> QED BY <2>1, <2>2
  <1>4. i \in 1..Len(t) /\ t[i] = x
    BY DEF Inserted
  <1>5. \A k \in 1..Len(t) : t[k] = x \/ \E j \in 1..Len(remote) : t[k] = remote[j]
    <2> SUFFICES ASSUME NEW k \in 1..Len(t), k # i
                 PROVE  \E j \in 1..Len(remote) : t[k] = remote[j]
      BY <1>4
    <2>1. CASE k < i
      BY <2>1 DEF Inserted
    <2>2. CASE ~(k < i)
      <3>1. k - 1 \in 1..Len(remote) /\ t[k] = remote[k - 1]
        BY <2>2 DEF Inserted
      <3> QED BY <3>1
    <2> QED BY <2>1, <2>2
  <1>6. ToSet(t) = ToSet(remote) \cup {x}
    <2>1. ASSUME NEW y \in ToSet(t) PROVE y \in ToSet(remote) \cup {x}
      <3>1. PICK k \in 1..Len(t) : t[k] = y
        BY Elements
      <3> QED BY <1>5, <3>1, Elements
    <2>2. ASSUME NEW y \in ToSet(remote) PROVE y \in ToSet(t)
      <3>1. PICK j \in 1..Len(remote) : remote[j] = y
        BY Elements
      <3> QED BY <1>3, <3>1, Elements
    <2>3. x \in ToSet(t)
      BY <1>4, Elements
    <2> QED BY <2>1, <2>2, <2>3
  <1> QED BY <1>2, <1>3, <1>6 DEF Done, Changes

LEMMA UnpinDone ==
    ASSUME remote \in Seq(CIDs), Once(remote), NEW i \in 1..Len(remote),
           NEW t \in Seq(CIDs), Removed(t, remote, i)
    PROVE  Done("Unpin", remote[i], t)
  <1> DEFINE old(n) == IF n < i THEN n ELSE n + 1
             new(n) == IF n < i THEN n ELSE n - 1
  <1>1. \A n \in 1..Len(t) : /\ old(n) \in 1..Len(remote) /\ old(n) # i
                             /\ t[n] = remote[old(n)]
    BY DEF Removed
  <1>2. \A n \in 1..Len(remote) : n # i => new(n) \in 1..Len(t) /\ t[new(n)] = remote[n]
    BY DEF Removed
  <1>3. Once(t)
    <2> SUFFICES ASSUME NEW j \in 1..Len(t), NEW k \in 1..Len(t), t[j] = t[k] PROVE j = k
      BY DEF Once
    <2>1. old(j) = old(k)
      BY <1>1 DEF Once
    <2> QED BY <2>1
  <1> HIDE DEF old, new
  <1>4. ASSUME NEW x \in ToSet(t) PROVE x \in ToSet(remote) \ {remote[i]}
    <2>1. PICK n \in 1..Len(t) : t[n] = x
      BY Elements
    <2>2. old(n) \in 1..Len(remote) /\ old(n) # i /\ x = remote[old(n)]
      BY <1>1, <2>1
    <2> QED BY <2>2, Elements DEF Once
  <1>5. ASSUME NEW x \in ToSet(remote) \ {remote[i]} PROVE x \in ToSet(t)
    <2>1. PICK n \in 1..Len(remote) : remote[n] = x
      BY Elements
    <2>2. n # i
      BY <2>1
    <2> QED BY <1>2, <2>1, <2>2, Elements
  <1>6. ToSet(t) = ToSet(remote) \ {remote[i]}
    BY <1>4, <1>5
  <1> QED BY <1>3, <1>6 DEF Done, Changes

LEMMA AfterDone ==
    ASSUME remote \in Seq(CIDs), Once(remote), NEW o \in Ops, NEW x,
           o \in Changes => x \in CIDs, NEW t \in After(o, x)
    PROVE  Done(o, x, t)
  <1>1. Contains(remote, x) <=> x \in ToSet(remote)
    BY Elements DEF Contains
  <1>2. CASE o = "Pin" /\ ~Contains(remote, x)
    <2>1. PICK i \in 1..(Len(remote) + 1) : t = InsertAt(remote, i, x)
      BY <1>2 DEF After
    <2>2. x \in CIDs
      BY <1>2 DEF Changes
    <2>3. t \in Seq(CIDs) /\ Inserted(t, remote, i, x)
      BY <2>1, <2>2, InsertInserts
    <2> QED BY <1>1, <1>2, <2>2, <2>3, PinDone
  <1>3. CASE o = "Unpin" /\ Contains(remote, x)
    <2>1. PICK i \in 1..Len(remote) : remote[i] = x /\ t = RemoveAt(remote, i)
      BY <1>3 DEF After
    <2>2. t \in Seq(CIDs) /\ Removed(t, remote, i)
      BY <2>1, RemoveRemoves
    <2>3. Done("Unpin", remote[i], t)
      BY <2>2, UnpinDone
    <2> QED BY <1>3, <2>1, <2>3
  <1>4. CASE ~(o = "Pin" /\ ~Contains(remote, x)) /\ ~(o = "Unpin" /\ Contains(remote, x))
    <2>1. t = remote
      BY <1>4 DEF After
    <2>2. o = "Pin" => ToSet(remote) = ToSet(remote) \cup {x}
      BY <1>1, <1>4
    <2>3. o = "Unpin" => ToSet(remote) = ToSet(remote) \ {x}
      BY <1>1, <1>4
    <2>4. \A i \in 1..Len(remote) : \E j \in 1..Len(remote) : j >= i /\ remote[j] = remote[i]
      OBVIOUS
    <2> QED BY <2>1, <2>2, <2>3, <2>4 DEF Done
  <1> QED BY <1>2, <1>3, <1>4

-----------------------------------------------------------------------------
(* What is underway *)

LEMMA InUnderway ==
    /\ \A r \in late : r \in Underway
    /\ \A h \in Callers : at[h] = "sent" /\ op[h] \in Changes => <<op[h], arg[h]>> \in Underway
    /\ \A r \in Underway : r \in late \/ \E h \in Callers : /\ at[h] = "sent" /\ op[h] \in Changes
                                                            /\ r = <<op[h], arg[h]>>
  BY DEF Underway

\* A caller that has nothing underway begins a call.
LEMMA BeginsUnderway ==
    ASSUME TypeOK, NEW h \in Callers, at[h] # "sent", NEW o, NEW x, Begins(h, o, x)
    PROVE  \A r \in Underway' : r \in Underway \/ (o \in Changes /\ r = <<o, x>>)
  <1> SUFFICES ASSUME NEW r \in Underway', r \notin late
               PROVE  r \in Underway \/ (o \in Changes /\ r = <<o, x>>)
    BY InUnderway
  <1>1. PICK g \in Callers : at'[g] = "sent" /\ op'[g] \in Changes /\ r = <<op'[g], arg'[g]>>
    BY DEF Underway, Begins
  <1>2. CASE g = h
    BY <1>1, <1>2 DEF Begins, TypeOK, PinataTypeOK
  <1>3. CASE g # h
    BY <1>1, <1>3, InUnderway DEF Begins, TypeOK, PinataTypeOK
  <1> QED BY <1>2, <1>3

\* Nothing else adds to what is underway.
LEMMA NothingAdded ==
    ASSUME TypeOK, NEW h \in Callers,
           \A g \in Callers \ {h} : at'[g] = at[g] /\ op'[g] = op[g] /\ arg'[g] = arg[g],
           at'[h] = "sent" => op'[h] \notin Changes,
           \A r \in late' : r \in Underway
    PROVE  \A r \in Underway' : r \in Underway
  <1> SUFFICES ASSUME NEW r \in Underway', r \notin late' PROVE r \in Underway
    OBVIOUS
  <1>1. PICK g \in Callers : at'[g] = "sent" /\ op'[g] \in Changes /\ r = <<op'[g], arg'[g]>>
    BY DEF Underway
  <1>2. g # h
    BY <1>1
  <1> QED BY <1>1, <1>2, InUnderway

-----------------------------------------------------------------------------
(* The callers that do not take the step *)

\* The call and the report of g stay as they are.
Same(g) == /\ at'[g] = at[g] /\ op'[g] = op[g] /\ arg'[g] = arg[g] /\ ok'[g] = ok[g]
           /\ rows'[g] = rows[g] /\ offset'[g] = offset[g] /\ got'[g] = got[g] /\ err'[g] = err[g]
           /\ yes'[g] = yes[g] /\ no'[g] = no[g] /\ failed'[g] = failed[g]

\* The service is not concerned.
LEMMA Aside ==
    ASSUME NEW g \in Callers, Caller(g), Same(g), remote' = remote,
           seen'[g] = seen[g], missed'[g] = missed[g],
           disturbed[g] => disturbed'[g], Undisturbed(g)'
    PROVE  Caller(g)'
  <1> USE DEF Caller, Same, Busy
  <1>1. Call(g)' /\ Reported(g)'
    BY DEF Call, Reading, Reported
  <1>2. Effect(g)' /\ Lookup(g)' /\ Pages(g)'
    BY DEF Effect, Lookup, Served, Pages
  <1>3. NothingSkipped(g)'
    BY DEF NothingSkipped, Ahead
  <1> QED BY <1>1, <1>2, <1>3

\* Nothing but a request that is underway changes the service's list.
Moves == \/ remote' = remote
         \/ \E r \in Underway : Done(r[1], r[2], remote')

LEMMA UnderwayTypes ==
    ASSUME TypeOK, \A h \in Callers : Call(h)
    PROVE  \A r \in Underway : /\ r[1] \in Changes /\ r[2] \in CIDs /\ r = <<r[1], r[2]>>
  <1> SUFFICES ASSUME NEW r \in Underway
               PROVE  r[1] \in Changes /\ r[2] \in CIDs /\ r = <<r[1], r[2]>>
    OBVIOUS
  <1>1. CASE r \in late
    BY <1>1 DEF TypeOK, PinataTypeOK
  <1>2. CASE r \notin late
    <2>1. PICK h \in Callers : at[h] = "sent" /\ op[h] \in Changes /\ r = <<op[h], arg[h]>>
      BY <1>2, InUnderway
    <2>2. arg[h] \in CIDs
      BY <2>1 DEF Call, Busy, Changes
    <2> QED BY <2>1, <2>2
  <1> QED BY <1>1, <1>2

\* The list changes while g has a request.
LEMMA Watched ==
    ASSUME Inv, NEW g \in Callers, Same(g), Moves, Watch, disturbed'[g] = disturbed[g],
           \A r \in Underway' : r \in Underway
    PROVE  Caller(g)'
  <1> USE DEF Inv, Caller, Same, Busy
  <1>1. Call(g)' /\ Undisturbed(g)'
    BY DEF Call, Reading, Undisturbed
  <1>2. /\ Reading(g) => seen[g] \subseteq seen'[g] /\ missed[g] \subseteq missed'[g]
        /\ Reading(g) => \A x \in CIDs : x \in missed'[g] => x \in missed[g] \/ x \notin ToSet(remote')
        /\ Reading(g) => \A x \in CIDs : x \notin ToSet(remote') => x \in missed'[g]
    BY DEF Watch
  <1>3. op[g] = "PinnedCIDs" => Reading(g)
    BY DEF Call, Reading, Changes
  <1>4. Reported(g)' /\ Lookup(g)' /\ Pages(g)'
    <2>1. Reported(g)'
      BY <1>2 DEF Reported, Call
    <2>2. op[g] = "IsPinned" /\ Served(g) => Reading(g)
      BY DEF Reading, Served, Changes
    <2>3. Lookup(g)'
      BY <1>2, <2>2 DEF Lookup, Served
    <2>4. Pages(g)'
      BY <1>2, <1>3 DEF Pages
    <2> QED BY <2>1, <2>3, <2>4
  <1>5. Effect(g)'
    <2> SUFFICES ASSUME op[g] \in Changes, Served(g), ~disturbed[g]
                 PROVE  arg[g] \in ToSet(remote') <=> op[g] = "Pin"
      BY DEF Effect, Served
    <2>1. arg[g] \in ToSet(remote) <=> op[g] = "Pin"
      BY DEF Effect
    <2>2. CASE remote' = remote
      BY <2>1, <2>2
    <2>3. ASSUME NEW r \in Underway, Done(r[1], r[2], remote')
          PROVE  arg[g] \in ToSet(remote') <=> op[g] = "Pin"
      <3>1. r[1] \in Changes /\ r[2] \in CIDs /\ r = <<r[1], r[2]>>
        BY UnderwayTypes
      <3>2. ~Conflict(op[g], arg[g], r)
        BY DEF Undisturbed, Served
      <3> QED BY <2>1, <2>3, <3>1, <3>2 DEF Done, Conflict, Changes
    <2> QED BY <2>2, <2>3 DEF Moves
  <1>6. NothingSkipped(g)'
    <2> SUFFICES ASSUME op[g] = "PinnedCIDs", ~err[g], ~disturbed[g], NEW x \in CIDs,
                        x \notin missed'[g], x \notin ToSet(got[g])
                 PROVE  Ahead(g, x)'
      BY DEF NothingSkipped
    <2>1. Ahead(g, x)
      BY <1>2, <1>3 DEF NothingSkipped
    <2>2. CASE remote' = remote
      BY <2>1, <2>2 DEF Ahead
    <2>3. ASSUME NEW r \in Underway, Done(r[1], r[2], remote')
          PROVE  Ahead(g, x)'
      <3>1. Busy(g)
        BY DEF Call
      <3>2. r[1] = "Pin"
        BY <3>1, UnderwayTypes DEF Undisturbed, Conflict, Changes
      <3>3. \A i \in 1..Len(remote) : \E j \in 1..Len(remote') : j >= i /\ remote'[j] = remote[i]
        BY <2>3, <3>2 DEF Done
      <3>4. Len(remote) \in Nat /\ Len(remote') \in Nat /\ offset[g] \in Nat /\ PageSize \in Nat
        BY <2>3, PinataConstants DEF Done, TypeOK, PinataTypeOK
      <3>5. \A n \in Nat : (\E i \in 1..Len(remote) : i > n /\ remote[i] = x)
                            => \E i \in 1..Len(remote') : i > n /\ remote'[i] = x
        BY <3>3, <3>4
      <3>6. offset[g] + PageSize \in Nat
        BY <3>4
      <3> QED BY <2>1, <3>4, <3>5, <3>6 DEF Ahead
    <2> QED BY <2>2, <2>3 DEF Moves
  <1> QED BY <1>1, <1>4, <1>5, <1>6

\* What is known stays true of the service's list.
LEMMA KnownStays ==
    ASSUME Inv, Moves, known' = known, \A r \in Underway' : r \in Underway
    PROVE  Settled' /\ KnownStatus'
  <1>1. Settled'
    BY DEF Inv, Settled
  <1>2. KnownStatus'
    <2>1. CASE remote' = remote
      BY <2>1 DEF Inv, KnownStatus
    <2>2. ASSUME NEW r \in Underway, Done(r[1], r[2], remote')
          PROVE  KnownStatus'
      <3>1. r[1] \in Changes /\ r[2] \in CIDs /\ r = <<r[1], r[2]>>
        BY UnderwayTypes DEF Inv, Caller
      <3> SUFFICES ASSUME NEW x \in CIDs
                   PROVE  /\ known[x] = "pinned" => x \in ToSet(remote')
                          /\ known[x] = "unpinned" => x \notin ToSet(remote')
        BY DEF KnownStatus
      <3>2. /\ known[x] = "pinned" => x \in ToSet(remote) /\ r # <<"Unpin", x>>
            /\ known[x] = "unpinned" => x \notin ToSet(remote) /\ r # <<"Pin", x>>
        BY DEF Inv, KnownStatus, Settled
      <3>3. CASE r[1] = "Pin"
        <4>1. ToSet(remote') = ToSet(remote) \cup {r[2]}
          BY <2>2, <3>3 DEF Done
        <4> QED BY <3>1, <3>2, <3>3, <4>1
      <3>4. CASE r[1] = "Unpin"
        <4>1. ToSet(remote') = ToSet(remote) \ {r[2]}
          BY <2>2, <3>4 DEF Done
        <4> QED BY <3>1, <3>2, <3>4, <4>1
      <3> QED BY <3>1, <3>3, <3>4 DEF Changes
    <2> QED BY <2>1, <2>2 DEF Moves
  <1> QED BY <1>1, <1>2

-----------------------------------------------------------------------------
(* Every step keeps the invariant *)

LEMMA Start == Init => Inv
  <1> SUFFICES ASSUME Init PROVE Inv
    OBVIOUS
  <1> USE DEF Init, PinataInit
  <1>1. TypeOK
    BY DEF TypeOK, PinataTypeOK, Ops
  <1>2. Once(remote) /\ Underway = {}
    BY DEF Once, Underway
  <1>3. Settled /\ KnownStatus
    BY <1>2 DEF Settled, KnownStatus
  <1>4. ASSUME NEW h \in Callers PROVE Caller(h)
    <2>1. /\ at[h] = "idle" /\ op[h] = "IsPinned" /\ yes[h] = {} /\ no[h] = {}
      OBVIOUS
    <2>2. ~Busy(h) /\ ~Reading(h) /\ ~Served(h)
      BY <2>1 DEF Busy, Reading, Served
    <2> QED BY <1>2, <2>1, <2>2 DEF Caller, Call, Undisturbed, Effect, Lookup, Reported, Pages,
                                     NothingSkipped, Changes
  <1> QED BY <1>1, <1>2, <1>3, <1>4 DEF Inv

\* A request for a change.
LEMMA AskStep ==
    ASSUME Inv, NEW h \in Callers, NEW o \in Changes, NEW x \in CIDs, ~Busy(h),
           Begins(h, o, x), Asks(h, o, x), UNCHANGED reportVars
    PROVE  Inv'
  <1> USE DEF Inv, reportVars
  <1>1. TypeOK'
    <2>1. PinataTypeOK'
      BY DEF TypeOK, PinataTypeOK, Begins, Forget, Changes, Ops
    <2>2. disturbed' \in [Callers -> BOOLEAN]
      BY DEF Asks, Conflict, Busy, TypeOK
    <2>3. known' \in [CIDs -> {"pinned", "unpinned", "unknown"}]
      BY DEF Asks, TypeOK
    <2>4. seen' = seen /\ missed' = missed
      BY DEF Asks
    <2> QED BY <2>1, <2>2, <2>3, <2>4 DEF TypeOK
  <1>2. remote' = remote /\ late' = late /\ seen' = seen /\ missed' = missed
    BY DEF Begins, Asks
  <1>3. \A r \in Underway' : r \in Underway \/ r = <<o, x>>
    BY BeginsUnderway DEF Busy
  <1>4. Settled' /\ KnownStatus'
    <2>1. \A y \in CIDs : /\ known'[y] = "pinned" => known[y] = "pinned" /\ ~(o = "Unpin" /\ y = x)
                          /\ known'[y] = "unpinned" => known[y] = "unpinned" /\ ~(o = "Pin" /\ y = x)
      BY DEF Asks, TypeOK, Changes
    <2>2. KnownStatus'
      <3> SUFFICES ASSUME NEW y \in CIDs
                   PROVE  /\ known'[y] = "pinned" => y \in ToSet(remote')
                          /\ known'[y] = "unpinned" => y \notin ToSet(remote')
        BY DEF KnownStatus
      <3>1. /\ known[y] = "pinned" => y \in ToSet(remote)
            /\ known[y] = "unpinned" => y \notin ToSet(remote)
        BY DEF KnownStatus
      <3>2. /\ known'[y] = "pinned" => known[y] = "pinned"
            /\ known'[y] = "unpinned" => known[y] = "unpinned"
        BY <2>1
      <3> QED BY ONLY <1>2, <3>1, <3>2
    <2>3. \A y \in CIDs : /\ <<o, x>> = <<"Unpin", y>> => o = "Unpin" /\ y = x
                          /\ <<o, x>> = <<"Pin", y>> => o = "Pin" /\ y = x
      OBVIOUS
    <2>4. Settled'
      <3> SUFFICES ASSUME NEW y \in CIDs
                   PROVE  /\ known'[y] = "pinned" => <<"Unpin", y>> \notin Underway'
                          /\ known'[y] = "unpinned" => <<"Pin", y>> \notin Underway'
        BY DEF Settled
      <3>1. /\ known[y] = "pinned" => <<"Unpin", y>> \notin Underway
            /\ known[y] = "unpinned" => <<"Pin", y>> \notin Underway
        BY DEF Settled
      <3>2. /\ known'[y] = "pinned" => known[y] = "pinned" /\ ~(o = "Unpin" /\ y = x)
            /\ known'[y] = "unpinned" => known[y] = "unpinned" /\ ~(o = "Pin" /\ y = x)
        BY <2>1
      <3> QED BY ONLY <1>3, <2>3, <3>1, <3>2, y \in CIDs
    <2> QED BY <2>2, <2>4
  <1>5. ASSUME NEW g \in Callers, g # h PROVE Caller(g)'
    <2>1. Same(g)
      BY <1>5 DEF Same, Begins, Forget, TypeOK, PinataTypeOK
    <2>2. disturbed'[g] = (disturbed[g] \/ (Busy(g) /\ Conflict(op[g], arg[g], <<o, x>>)))
      BY <1>5 DEF Asks
    <2>3. Undisturbed(g)'
      BY <1>3, <2>1, <2>2 DEF Caller, Undisturbed, Same, Busy
    <2> QED BY <1>2, <2>1, <2>2, <2>3, Aside
  <1>6. Caller(h)'
    <2>1. /\ at'[h] = "sent" /\ op'[h] = o /\ arg'[h] = x /\ yes'[h] = yes[h] /\ no'[h] = no[h]
      BY DEF Begins, TypeOK, PinataTypeOK
    <2>2. yes[h] = {} /\ no[h] = {}
      BY DEF Caller, Call, Reading
    <2>3. disturbed'[h] = \E r \in Underway : Conflict(o, x, r)
      BY DEF Asks
    <2>4. ~Conflict(o, x, <<o, x>>)
      BY DEF Conflict, Changes
    <2>5. Undisturbed(h)'
      BY <1>3, <2>1, <2>3, <2>4 DEF Undisturbed
    <2>6. Call(h)' /\ Reported(h)'
      BY <2>1, <2>2 DEF Call, Busy, Reported
    <2>7. ~Served(h)' /\ op'[h] # "PinnedCIDs"
      BY <2>1 DEF Served, Changes
    <2> QED BY <2>5, <2>6, <2>7 DEF Caller, Effect, Lookup, Pages, NothingSkipped
  <1>7. Once(remote')
    BY <1>2
  <1> QED BY <1>1, <1>4, <1>5, <1>6, <1>7

\* The first lookup of a report, and the first page of a list.
LEMMA ReadStep ==
    ASSUME Inv, NEW h \in Callers, NEW o \in {"IsPinned", "PinnedCIDs"}, NEW x \in CIDs \cup {NoCID},
           o = "IsPinned" => x \in CIDs, ~Busy(h), Begins(h, o, x), Reads(h, o),
           todo' \in [Callers -> Seq(CIDs)], UNCHANGED <<yes, no, failed, known>>
    PROVE  Inv'
  <1> USE DEF Inv
  <1>1. TypeOK'
    <2>1. ToSet(remote) \in SUBSET CIDs
      BY Elements DEF TypeOK, PinataTypeOK
    <2>2. PinataTypeOK'
      BY DEF TypeOK, PinataTypeOK, Begins, Forget, Changes, Ops
    <2>3. /\ seen' \in [Callers -> SUBSET CIDs] /\ missed' \in [Callers -> SUBSET CIDs]
          /\ disturbed' \in [Callers -> BOOLEAN]
      BY <2>1 DEF Reads, TypeOK
    <2> QED BY <2>2, <2>3 DEF TypeOK
  <1>2. remote' = remote /\ late' = late
    BY DEF Begins
  <1>3. \A r \in Underway' : r \in Underway
    BY BeginsUnderway DEF Busy, Changes
  <1>4. Settled' /\ KnownStatus'
    <2>1. Moves
      BY <1>2 DEF Moves
    <2>2. known' = known
      OBVIOUS
    <2> QED BY ONLY <1>3, <2>1, <2>2, Inv, KnownStays
  <1>5. ASSUME NEW g \in Callers, g # h PROVE Caller(g)'
    <2>1. Same(g)
      BY <1>5 DEF Same, Begins, Forget, TypeOK, PinataTypeOK
    <2>2. disturbed'[g] = disturbed[g] /\ seen'[g] = seen[g] /\ missed'[g] = missed[g]
      BY <1>5 DEF Reads, TypeOK
    <2>3. Undisturbed(g)'
      BY <1>3, <2>1, <2>2 DEF Caller, Undisturbed, Same, Busy
    <2> QED BY <1>2, <2>1, <2>2, <2>3, Aside
  <1>6. Caller(h)'
    <2>1. /\ at'[h] = "sent" /\ op'[h] = o /\ arg'[h] = x /\ yes'[h] = yes[h] /\ no'[h] = no[h]
          /\ got'[h] = <<>> /\ rows'[h] = <<>> /\ offset'[h] = 0
      BY DEF Begins, Forget, TypeOK, PinataTypeOK
    <2>2. yes[h] = {} /\ no[h] = {}
      BY DEF Caller, Call, Reading
    <2>3. /\ disturbed'[h] = \E r \in Underway : Conflict(o, NoCID, r)
          /\ missed'[h] = CIDs \ ToSet(remote)
      BY DEF Reads, TypeOK
    <2>4. Undisturbed(h)'
      BY <1>3, <2>1, <2>3 DEF Undisturbed, Conflict
    <2>5. Call(h)' /\ Reported(h)'
      BY <2>1, <2>2 DEF Call, Busy, Reported
    <2>6. ~Served(h)' /\ op'[h] \notin Changes
      BY <2>1 DEF Served, Changes
    <2>7. Pages(h)'
      BY <2>1 DEF Pages, ToSet
    <2>8. NothingSkipped(h)'
      <3> SUFFICES ASSUME NEW y \in CIDs, y \notin missed'[h] PROVE Ahead(h, y)'
        BY DEF NothingSkipped
      <3>1. remote \in Seq(CIDs) /\ y \in ToSet(remote)
        BY <2>3 DEF TypeOK, PinataTypeOK
      <3>2. PICK i \in 1..Len(remote) : remote[i] = y
        BY <3>1, Elements
      <3>3. i > 0
        BY <3>1, <3>2
      <3> QED BY <1>2, <2>1, <3>2, <3>3 DEF Ahead
    <2> QED BY <2>4, <2>5, <2>6, <2>7, <2>8 DEF Caller, Effect, Lookup
  <1>7. Once(remote')
    BY <1>2
  <1> QED BY <1>1, <1>4, <1>5, <1>6, <1>7

\* An answer ends the request.
LEMMA EndStep ==
    ASSUME Inv, NEW h \in Callers, at[h] = "done", Clear(h), Closes(h),
           \/ known' = known
           \/ op[h] \in Changes /\ ChangeAnswered(h)
    PROVE  Inv'
  <1> USE DEF Inv
  <1>1. TypeOK'
    <2>1. op[h] \in Changes => arg[h] \in CIDs
      BY DEF Caller, Call, Busy, Changes
    <2>2. known' \in [CIDs -> {"pinned", "unpinned", "unknown"}]
      BY <2>1 DEF ChangeAnswered, TypeOK
    <2>3. PinataTypeOK'
      BY DEF TypeOK, PinataTypeOK, Clear, Forget, Changes, Ops
    <2>4. /\ todo' \in [Callers -> Seq(CIDs)] /\ disturbed' \in [Callers -> BOOLEAN]
          /\ yes' \in [Callers -> SUBSET CIDs] /\ no' \in [Callers -> SUBSET CIDs]
          /\ failed' \in [Callers -> SUBSET CIDs]
          /\ seen' \in [Callers -> SUBSET CIDs] /\ missed' \in [Callers -> SUBSET CIDs]
      BY DEF Closes, TypeOK
    <2> QED BY <2>2, <2>3, <2>4 DEF TypeOK
  <1>2. remote' = remote /\ late' = late
    BY DEF Clear
  <1>3. \A r \in Underway' : r \in Underway
    BY <1>2, NothingAdded, InUnderway DEF Clear, TypeOK, PinataTypeOK
  <1>4. Settled' /\ KnownStatus'
    <2>1. CASE known' = known
      BY <1>2, <1>3, <2>1, KnownStays DEF Moves
    <2>2. CASE op[h] \in Changes /\ ChangeAnswered(h) /\ known' # known
      <3>1. ~err[h] /\ ~disturbed[h] /\ Served(h) /\ arg[h] \in CIDs
        BY <2>2 DEF ChangeAnswered, Served, Caller, Call, Busy, Changes
      <3>2. known' = [known EXCEPT ![arg[h]] = IF op[h] = "Pin" THEN "pinned" ELSE "unpinned"]
        BY <2>2, <3>1 DEF ChangeAnswered
      <3>3. arg[h] \in ToSet(remote) <=> op[h] = "Pin"
        BY <2>2, <3>1 DEF Caller, Effect
      <3>4. \A r \in Underway : ~Conflict(op[h], arg[h], r)
        BY <3>1 DEF Caller, Undisturbed, Busy
      <3>5. /\ op[h] = "Pin" => <<"Unpin", arg[h]>> \notin Underway
            /\ op[h] = "Unpin" => <<"Pin", arg[h]>> \notin Underway
        BY <3>4 DEF Conflict
      <3> QED BY <1>2, <1>3, <2>2, <3>1, <3>2, <3>3, <3>5
               DEF Settled, KnownStatus, TypeOK, Changes
    <2> QED BY <2>1, <2>2
  <1>5. ASSUME NEW g \in Callers, g # h PROVE Caller(g)'
    <2>1. Same(g)
      BY <1>5 DEF Same, Clear, Forget, Closes, TypeOK, PinataTypeOK
    <2>2. disturbed'[g] = disturbed[g] /\ seen'[g] = seen[g] /\ missed'[g] = missed[g]
      BY <1>5 DEF Closes, TypeOK
    <2>3. Undisturbed(g)'
      BY <1>3, <2>1, <2>2 DEF Caller, Undisturbed, Same, Busy
    <2> QED BY <1>2, <2>1, <2>2, <2>3, Aside
  <1>6. Caller(h)'
    <2>1. at'[h] = "idle" /\ op'[h] = "IsPinned" /\ yes'[h] = {} /\ no'[h] = {}
      BY DEF Clear, Closes, TypeOK, PinataTypeOK
    <2>2. ~Busy(h)' /\ ~Served(h)'
      BY <2>1 DEF Busy, Served
    <2> QED BY <2>1, <2>2 DEF Caller, Call, Undisturbed, Effect, Lookup, Reported, Pages,
                               NothingSkipped, Changes
  <1>7. Once(remote')
    BY <1>2
  <1> QED BY <1>1, <1>4, <1>5, <1>6, <1>7

\* The next lookup of a report, or its end.
LEMMA ItemStep ==
    ASSUME Inv, NEW h \in Callers, NextItem(h)
    PROVE  Inv'
  <1> USE DEF Inv
  <1>1. /\ at[h] = "done" /\ op[h] = "IsPinned" /\ arg[h] \in CIDs
        /\ UNCHANGED <<seen, missed, disturbed, known>>
    BY DEF NextItem, Caller, Call, Busy
  <1>2. \/ UNCHANGED <<pinataVars, todo>>
        \/ /\ todo[h] # <<>> /\ Begins(h, "IsPinned", Head(todo[h]))
           /\ todo' = [todo EXCEPT ![h] = Tail(@)]
    BY DEF NextItem, IsPinned
  <1>3. todo[h] # <<>> => Head(todo[h]) \in CIDs /\ Tail(todo[h]) \in Seq(CIDs)
    BY HeadTailProperties DEF TypeOK
  <1>4. TypeOK'
    <2>1. /\ yes' \in [Callers -> SUBSET CIDs] /\ no' \in [Callers -> SUBSET CIDs]
          /\ failed' \in [Callers -> SUBSET CIDs]
      BY <1>1 DEF NextItem, TypeOK
    <2>2. PinataTypeOK' /\ todo' \in [Callers -> Seq(CIDs)]
      <3>1. CASE UNCHANGED <<pinataVars, todo>>
        BY <3>1 DEF pinataVars, callVars, TypeOK, PinataTypeOK
      <3>2. CASE /\ todo[h] # <<>> /\ Begins(h, "IsPinned", Head(todo[h]))
                 /\ todo' = [todo EXCEPT ![h] = Tail(@)]
        <4> DEFINE x == Head(todo[h])
        <4>1. x \in CIDs /\ Begins(h, "IsPinned", x)
          BY <1>3, <3>2
        <4>2. todo' \in [Callers -> Seq(CIDs)]
          BY <1>3, <3>2 DEF TypeOK
        <4> HIDE DEF x
        <4>3. PinataTypeOK'
          BY <4>1 DEF TypeOK, PinataTypeOK, Begins, Forget, Changes, Ops
        <4> QED BY <4>2, <4>3
      <3> QED BY <1>2, <3>1, <3>2
    <2> QED BY <1>1, <2>1, <2>2 DEF TypeOK
  <1>5. remote' = remote /\ late' = late
    BY <1>2 DEF Begins, pinataVars
  <1>6. /\ op' = op /\ at'[h] \in {"sent", "done"} /\ arg'[h] \in CIDs
        /\ \A g \in Callers \ {h} : Same(g)
        /\ at'[h] = "done" => err'[h] = err[h] /\ rows'[h] = rows[h] /\ arg'[h] = arg[h]
    BY <1>1, <1>2, <1>3
       DEF NextItem, Begins, Forget, pinataVars, callVars, Same, TypeOK, PinataTypeOK
  <1>7. \A r \in Underway' : r \in Underway
    BY <1>1, <1>5, <1>6, NothingAdded, InUnderway DEF Same, Changes
  <1>8. Settled' /\ KnownStatus'
    BY <1>1, <1>5, <1>7, KnownStays DEF Moves
  <1>9. ASSUME NEW g \in Callers, g # h PROVE Caller(g)'
    <2>1. Same(g)
      BY <1>6, <1>9
    <2>2. Undisturbed(g)'
      BY <1>1, <1>7, <2>1 DEF Caller, Undisturbed, Same, Busy
    <2> QED BY <1>1, <1>5, <2>1, <2>2, Aside
  <1>10. Caller(h)'
    <2>1. Reported(h)'
      <3>1. ~err[h] => Served(h)
        BY <1>1 DEF Served
      <3>2. /\ ~err[h] /\ rows[h] = <<>> => arg[h] \in missed[h]
            /\ ~err[h] /\ rows[h] # <<>> => arg[h] \in seen[h]
        BY <1>1, <3>1 DEF Caller, Lookup
      <3>3. /\ yes'[h] = IF Pinned(h) THEN yes[h] \cup {arg[h]} ELSE yes[h]
            /\ no'[h] = IF Pinned(h) THEN no[h] ELSE no[h] \cup {arg[h]}
            /\ failed'[h] = IF err[h] THEN failed[h] \cup {arg[h]} ELSE failed[h]
        BY DEF NextItem, TypeOK
      <3> QED BY <1>1, <3>2, <3>3 DEF Reported, Caller, Pinned
    <2>2. Call(h)'
      BY <1>1, <1>6 DEF Call, Busy, Reading, Changes
    <2>3. Undisturbed(h)'
      BY <1>1, <1>6 DEF Undisturbed, Conflict
    <2>4. Lookup(h)'
      BY <1>1, <1>6 DEF Lookup, Served, Caller
    <2>5. op'[h] \notin Changes /\ op'[h] # "PinnedCIDs"
      BY <1>1, <1>6 DEF Changes
    <2> QED BY <2>1, <2>2, <2>3, <2>4, <2>5 DEF Caller, Effect, Pages, NothingSkipped
  <1>11. Once(remote')
    BY <1>5
  <1> QED BY <1>4, <1>8, <1>9, <1>10, <1>11

\* A call returns, or goes on with the next page.
LEMMA ClientStep ==
    ASSUME Inv, NEW h \in Callers, Client(h)
    PROVE  Inv'
  <1> USE DEF Inv
  <1>1. UNCHANGED <<todo, yes, no, failed, seen, missed, disturbed, known>>
    BY DEF Client, reportVars
  <1>2. CASE GivesUp(h)
    <2>1. /\ TypeOK' /\ remote' = remote
          /\ at[h] \in {"sent", "answered"} /\ at'[h] = "done" /\ err'[h] = TRUE
          /\ op' = op /\ arg' = arg /\ rows'[h] = <<>> /\ got'[h] = <<>>
      <3>1. late' \subseteq Changes \X CIDs
        <4>1. op[h] \in Changes => <<op[h], arg[h]>> \in Changes \X CIDs
          BY <1>2 DEF GivesUp, Caller, Call, Busy, Changes
        <4>2. late' = late \/ (op[h] \in Changes /\ late' = late \cup {<<op[h], arg[h]>>})
          BY <1>2 DEF GivesUp
        <4>3. late \subseteq Changes \X CIDs
          BY DEF TypeOK, PinataTypeOK
        <4> QED BY <4>1, <4>2, <4>3
      <3> QED BY <1>1, <1>2, <3>1 DEF GivesUp, Forget, TypeOK, PinataTypeOK
    <2>2. \A g \in Callers \ {h} : Same(g)
      BY <1>1, <1>2 DEF GivesUp, Forget, Same, TypeOK, PinataTypeOK
    <2>3. \A r \in late' : r \in Underway
      BY <1>2, InUnderway DEF GivesUp
    <2>4. \A r \in Underway' : r \in Underway
      BY <2>1, <2>2, <2>3, NothingAdded DEF Same
    <2>5. Settled' /\ KnownStatus'
      BY <1>1, <2>1, <2>4, KnownStays DEF Moves
    <2>6. ASSUME NEW g \in Callers, g # h PROVE Caller(g)'
      <3>1. Undisturbed(g)'
        BY <1>1, <2>2, <2>4, <2>6 DEF Caller, Undisturbed, Same, Busy
      <3> QED BY <1>1, <2>1, <2>2, <2>6, <3>1, Aside
    <2>7. Caller(h)'
      <3>1. Call(h)' /\ Reported(h)' /\ Undisturbed(h)'
        BY <1>1, <2>1, <2>4 DEF Caller, Call, Reported, Undisturbed, Busy, Reading
      <3>2. ~Served(h)'
        BY <2>1 DEF Served
      <3>3. Pages(h)'
        BY <2>1 DEF Pages, ToSet
      <3> QED BY <2>1, <3>1, <3>2, <3>3 DEF Caller, Effect, Lookup, NothingSkipped
    <2> QED BY <2>1, <2>5, <2>6, <2>7
  <1>3. CASE Returns(h)
    <2>1. /\ at[h] = "answered" /\ op[h] # "PinnedCIDs" /\ at'[h] = "done" /\ err'[h] = ~ok[h]
          /\ UNCHANGED <<remote, late, op, arg, ok, rows, offset, got>>
      BY <1>3 DEF Returns, TypeOK, PinataTypeOK
    <2>2. TypeOK' /\ \A g \in Callers \ {h} : Same(g)
      BY <1>1, <1>3 DEF Returns, Same, TypeOK, PinataTypeOK
    <2>3. \A r \in Underway' : r \in Underway
      BY <2>1, <2>2, NothingAdded, InUnderway DEF Same
    <2>4. Settled' /\ KnownStatus'
      BY <1>1, <2>1, <2>3, KnownStays DEF Moves
    <2>5. ASSUME NEW g \in Callers, g # h PROVE Caller(g)'
      <3>1. Undisturbed(g)'
        BY <1>1, <2>2, <2>3, <2>5 DEF Caller, Undisturbed, Same, Busy
      <3> QED BY <1>1, <2>1, <2>2, <2>5, <3>1, Aside
    <2>6. Caller(h)'
      <3>1. Call(h)' /\ Reported(h)' /\ Undisturbed(h)'
        BY <1>1, <2>1, <2>3 DEF Caller, Call, Reported, Undisturbed, Busy, Reading
      <3>2. Served(h)' => Served(h)
        BY <2>1 DEF Served, TypeOK, PinataTypeOK
      <3>3. Effect(h)' /\ Lookup(h)'
        BY <1>1, <2>1, <3>2 DEF Caller, Effect, Lookup
      <3> QED BY <2>1, <3>1, <3>3 DEF Caller, Pages, NothingSkipped
    <2> QED BY <2>1, <2>2, <2>4, <2>5, <2>6
  <1>4. CASE NextPage(h)
    <2>1. /\ at[h] = "answered" /\ op[h] = "PinnedCIDs"
          /\ got'[h] = got[h] \o rows[h]
          /\ \/ at'[h] = "done" /\ Len(rows[h]) < PageSize
             \/ /\ at'[h] = "sent" /\ ~(Len(rows[h]) < PageSize)
                /\ offset'[h] = offset[h] + PageSize
          /\ UNCHANGED <<remote, late, op, arg, ok, rows, err>>
      BY <1>4 DEF NextPage, TypeOK, PinataTypeOK
    <2>2. /\ got[h] \in Seq(CIDs) /\ rows[h] \in Seq(CIDs) /\ got[h] \o rows[h] \in Seq(CIDs)
          /\ offset[h] \in Nat /\ PageSize \in Nat /\ Len(rows[h]) \in Nat
      BY PinataConstants DEF TypeOK, PinataTypeOK
    <2>3. TypeOK' /\ \A g \in Callers \ {h} : Same(g)
      <3>1. at' \in [Callers -> {"idle", "sent", "answered", "done"}] /\ offset' \in [Callers -> Nat]
        <4>1. CASE Len(rows[h]) < PageSize
          BY <1>4, <4>1 DEF NextPage, TypeOK, PinataTypeOK
        <4>2. CASE ~(Len(rows[h]) < PageSize)
          <5>1. offset[h] + PageSize \in Nat
            BY <2>2
          <5> QED BY <1>4, <4>2, <5>1 DEF NextPage, TypeOK, PinataTypeOK
        <4> QED BY <4>1, <4>2
      <3>2. got' \in [Callers -> Seq(CIDs)]
        BY <1>4, <2>2 DEF NextPage, TypeOK, PinataTypeOK
      <3>3. TypeOK'
        BY <1>1, <2>1, <3>1, <3>2 DEF TypeOK, PinataTypeOK
      <3>4. \A g \in Callers \ {h} : Same(g)
        BY <1>1, <1>4 DEF NextPage, Same, TypeOK, PinataTypeOK
      <3> QED BY <3>3, <3>4
    <2>4. \A r \in Underway' : r \in Underway
      BY <2>1, <2>3, NothingAdded, InUnderway DEF Same, Changes
    <2>5. Settled' /\ KnownStatus'
      BY <1>1, <2>1, <2>4, KnownStays DEF Moves
    <2>6. ASSUME NEW g \in Callers, g # h PROVE Caller(g)'
      <3>1. Undisturbed(g)'
        BY <1>1, <2>3, <2>4, <2>6 DEF Caller, Undisturbed, Same, Busy
      <3> QED BY <1>1, <2>1, <2>3, <2>6, <3>1, Aside
    <2>7. Caller(h)'
      <3>1. Call(h)' /\ Reported(h)' /\ Undisturbed(h)'
        BY <1>1, <2>1, <2>4 DEF Caller, Call, Reported, Undisturbed, Busy, Reading
      <3>2. ToSet(got'[h]) = ToSet(got[h]) \cup ToSet(rows[h])
        BY <2>1, <2>2, ConcatElements
      <3>3. Pages(h)'
        BY <1>1, <2>1, <3>2 DEF Caller, Pages
      <3>4. NothingSkipped(h)'
        <4> SUFFICES ASSUME ~err[h], ~disturbed[h], NEW x \in CIDs, x \notin missed[h],
                            x \notin ToSet(got[h]), x \notin ToSet(rows[h])
                     PROVE  Ahead(h, x)'
          BY <1>1, <2>1, <3>2 DEF NothingSkipped
        <4>1. Ahead(h, x)
          BY <2>1 DEF Caller, NothingSkipped
        <4>2. /\ Len(rows[h]) >= PageSize
              /\ \E i \in 1..Len(remote) : i > offset[h] + PageSize /\ remote[i] = x
          BY <2>1, <4>1 DEF Ahead
        <4>3. at'[h] = "sent" /\ offset'[h] = offset[h] + PageSize
          BY <2>1, <2>2, <4>2
        <4> QED BY <2>1, <4>2, <4>3 DEF Ahead
      <3> QED BY <2>1, <3>1, <3>3, <3>4 DEF Caller, Effect, Lookup, Changes
    <2> QED BY <2>1, <2>3, <2>5, <2>6, <2>7
  <1> QED BY <1>2, <1>3, <1>4 DEF Client

\* A request has become a change of the service's list.
LEMMA MovesSafely ==
    ASSUME Inv, NEW o \in Ops, NEW x, o \in Changes => <<o, x>> \in Underway,
           remote' \in {remote} \cup After(o, x)
    PROVE  Moves /\ remote' \in Seq(CIDs) /\ Once(remote')
  <1>1. remote \in Seq(CIDs) /\ Once(remote)
    BY DEF Inv, TypeOK, PinataTypeOK
  <1>2. CASE remote' = remote
    BY <1>1, <1>2 DEF Moves
  <1>3. CASE remote' \in After(o, x)
    <2>1. o \in Changes => x \in CIDs
      BY UnderwayTypes DEF Inv, Caller
    <2>2. Done(o, x, remote')
      BY <1>1, <1>3, <2>1, AfterDone
    <2>3. CASE o \in Changes
      <3> DEFINE r == <<o, x>>
      <3>1. r \in Underway /\ Done(r[1], r[2], remote')
        BY <2>2, <2>3
      <3> HIDE DEF r
      <3>2. Moves
        BY <3>1 DEF Moves
      <3> QED BY <2>2, <3>2 DEF Done
    <2>4. CASE o \notin Changes
      BY <2>2, <2>4 DEF Done, Moves
    <2> QED BY <2>3, <2>4
  <1> QED BY <1>2, <1>3

\* The list a request for a page gets.
LEMMA PageRead ==
    ASSUME TypeOK, NEW h \in Callers, op[h] = "PinnedCIDs"
    PROVE  /\ Listing(h) \in Seq(CIDs) /\ ToSet(Listing(h)) \subseteq ToSet(remote)
           /\ \A i \in 1..Len(remote) : i > offset[h] =>
                \/ remote[i] \in ToSet(Listing(h))
                \/ i > offset[h] + PageSize /\ Len(Listing(h)) >= PageSize
  <1> DEFINE from == offset[h]
             to == IF from + PageSize < Len(remote) THEN from + PageSize ELSE Len(remote)
             page == SubSeq(remote, from + 1, to)
  <1>1. remote \in Seq(CIDs) /\ from \in Nat /\ PageSize \in Nat \ {0} /\ Len(remote) \in Nat
    BY PinataConstants DEF TypeOK, PinataTypeOK
  <1>2. Listing(h) = page
    BY DEF Listing
  <1>3. /\ to \in Int /\ from + 1 \in Int /\ to <= Len(remote)
        /\ \A i \in (from + 1)..to : i \in 1..Len(remote) /\ remote[i] \in CIDs
    BY <1>1
  <1>4. /\ from + PageSize < Len(remote) => to = from + PageSize
        /\ ~(from + PageSize < Len(remote)) => to = Len(remote)
    OBVIOUS
  <1> HIDE DEF from, to
  <1>5. /\ page \in Seq(CIDs) /\ Len(page) = IF from + 1 <= to THEN to - (from + 1) + 1 ELSE 0
        /\ \A i \in 1..(to - (from + 1) + 1) : page[i] = remote[from + 1 + i - 1]
    BY <1>3, SubSeqProperties
  <1> HIDE DEF page
  <1>6. \A i \in (from + 1)..to : i - from \in 1..Len(page) /\ page[i - from] = remote[i]
    <2> SUFFICES ASSUME NEW i \in (from + 1)..to
                 PROVE  i - from \in 1..Len(page) /\ page[i - from] = remote[i]
      OBVIOUS
    <2>1. Len(page) = to - from /\ i - from \in 1..(to - (from + 1) + 1)
      BY <1>1, <1>3, <1>5
    <2>2. from + 1 + (i - from) - 1 = i
      BY <1>1, <1>3
    <2> QED BY <1>1, <1>3, <1>5, <2>1, <2>2
  <1>7. \A i \in 1..Len(page) : \E j \in 1..Len(remote) : page[i] = remote[j]
    <2> SUFFICES ASSUME NEW i \in 1..Len(page)
                 PROVE  from + i \in 1..Len(remote) /\ page[i] = remote[from + i]
      OBVIOUS
    <2>1. Len(page) = to - from /\ from + i \in (from + 1)..to
      BY <1>1, <1>3, <1>5
    <2>2. (from + i) - from = i
      BY <1>1, <1>5
    <2> QED BY <1>3, <1>6, <2>1, <2>2
  <1>8. ToSet(page) \subseteq ToSet(remote)
    BY <1>1, <1>5, <1>7, Elements
  <1>9. ASSUME NEW i \in 1..Len(remote), i > from
        PROVE  \/ remote[i] \in ToSet(page)
               \/ i > from + PageSize /\ Len(page) >= PageSize
    <2>1. CASE i \in (from + 1)..to
      BY <1>5, <1>6, <2>1, Elements
    <2>2. CASE i \notin (from + 1)..to
      <3>1. i > to
        BY <1>1, <1>3, <1>9, <2>2
      <3>2. from + PageSize < Len(remote) /\ to = from + PageSize
        BY <1>1, <1>4, <3>1
      <3> QED BY <1>1, <1>5, <3>1, <3>2
    <2> QED BY <2>1, <2>2
  <1> QED BY <1>2, <1>5, <1>8, <1>9 DEF from

\* The service does what it is asked for.
LEMMA ServeStep ==
    ASSUME Inv, NEW h \in Callers, Serves(h), Watch, UNCHANGED <<reportVars, disturbed, known>>
    PROVE  Inv'
  <1> USE DEF Inv
  <1>1. /\ at[h] = "sent" /\ at'[h] = "answered" /\ ok'[h] = TRUE /\ rows'[h] = Listing(h)
        /\ remote' \in After(op[h], arg[h])
        /\ UNCHANGED <<late, op, arg, offset, got, err, todo, yes, no, failed, disturbed, known>>
    BY DEF Serves, reportVars, TypeOK, PinataTypeOK
  <1>2. /\ op[h] \in Ops /\ (op[h] \in Changes => <<op[h], arg[h]>> \in Underway)
        /\ op[h] # "PinnedCIDs" => arg[h] \in CIDs
    BY <1>1, InUnderway DEF TypeOK, PinataTypeOK, Caller, Call, Busy
  <1>3. Moves /\ remote' \in Seq(CIDs) /\ Once(remote')
    BY <1>1, <1>2, MovesSafely
  <1>4. Done(op[h], arg[h], remote')
    BY <1>1, <1>2, AfterDone DEF TypeOK, PinataTypeOK, Changes
  <1>5. Listing(h) \in Seq(CIDs)
    <2>1. CASE op[h] = "PinnedCIDs"
      BY <2>1, PageRead
    <2>2. CASE op[h] # "PinnedCIDs"
      BY <1>2, <2>2 DEF Listing
    <2> QED BY <2>1, <2>2
  <1>6. ToSet(remote') \subseteq CIDs
    BY <1>3, Elements
  <1>7. TypeOK'
    <2>1. PinataTypeOK'
      <3>1. rows' \in [Callers -> Seq(CIDs)]
        BY <1>5 DEF Serves, TypeOK, PinataTypeOK
      <3>2. at' \in [Callers -> {"idle", "sent", "answered", "done"}] /\ ok' \in [Callers -> BOOLEAN]
        BY DEF Serves, TypeOK, PinataTypeOK
      <3> QED BY <1>1, <1>3, <3>1, <3>2 DEF TypeOK, PinataTypeOK
    <2>2. seen' \in [Callers -> SUBSET CIDs] /\ missed' \in [Callers -> SUBSET CIDs]
      BY <1>6 DEF Watch, TypeOK
    <2> QED BY <1>1, <2>1, <2>2 DEF TypeOK
  <1>8. \A g \in Callers \ {h} : Same(g)
    BY <1>1 DEF Serves, Same, TypeOK, PinataTypeOK
  <1>9. \A r \in Underway' : r \in Underway
    BY <1>1, <1>8, NothingAdded, InUnderway DEF Same
  <1>10. Settled' /\ KnownStatus'
    BY <1>1, <1>3, <1>9, KnownStays
  <1>11. ASSUME NEW g \in Callers, g # h PROVE Caller(g)'
    BY <1>1, <1>3, <1>8, <1>9, <1>11, Watched
  <1>12. Caller(h)'
    <2>1. Call(h)' /\ Undisturbed(h)'
      BY <1>1, <1>9 DEF Caller, Call, Undisturbed, Busy, Reading
    <2>2. Reading(h) => /\ seen'[h] = seen[h] \cup ToSet(remote')
                        /\ missed'[h] = missed[h] \cup (CIDs \ ToSet(remote'))
      BY DEF Watch
    <2>3. Reported(h)'
      BY <1>1, <2>2 DEF Caller, Reported, Call
    <2>4. Effect(h)'
      BY <1>1, <1>4 DEF Effect, Done, Changes
    <2>5. op[h] \notin Changes => Reading(h) /\ remote' = remote
      BY <1>1, <1>4 DEF Reading, Busy, Done
    <2>6. Lookup(h)'
      <3> SUFFICES ASSUME op[h] = "IsPinned"
                   PROVE  IF rows'[h] = <<>> THEN arg[h] \in missed'[h] ELSE arg[h] \in seen'[h]
        BY <1>1 DEF Lookup
      <3>1. Contains(remote, arg[h]) <=> arg[h] \in ToSet(remote)
        BY Elements DEF Contains, TypeOK, PinataTypeOK
      <3>2. rows'[h] = IF Contains(remote, arg[h]) THEN <<arg[h]>> ELSE <<>>
        BY <1>1 DEF Listing
      <3> QED BY <1>2, <2>2, <2>5, <3>1, <3>2 DEF Changes
    <2>7. Pages(h)'
      <3> SUFFICES ASSUME op[h] = "PinnedCIDs"
                   PROVE  ToSet(got[h]) \subseteq seen'[h] /\ ToSet(rows'[h]) \subseteq seen'[h]
        BY <1>1 DEF Pages
      <3>1. ToSet(rows'[h]) \subseteq ToSet(remote)
        BY <1>1, PageRead
      <3> QED BY <2>2, <2>5, <3>1 DEF Caller, Pages, Changes
    <2>8. NothingSkipped(h)'
      <3> SUFFICES ASSUME op[h] = "PinnedCIDs", ~err[h], ~disturbed[h], NEW x \in CIDs,
                          x \notin missed'[h], x \notin ToSet(got[h])
                   PROVE  Ahead(h, x)'
        BY <1>1 DEF NothingSkipped
      <3>1. Ahead(h, x)
        BY <2>2, <2>5 DEF Caller, NothingSkipped, Changes
      <3>2. PICK i \in 1..Len(remote) : i > offset[h] /\ remote[i] = x
        BY <1>1, <3>1 DEF Ahead
      <3>3. \/ x \in ToSet(rows'[h])
            \/ i > offset[h] + PageSize /\ Len(rows'[h]) >= PageSize
        BY <1>1, <3>2, PageRead
      <3>4. remote' = remote
        BY <2>5 DEF Changes
      <3> QED BY <1>1, <3>2, <3>3, <3>4 DEF Ahead
    <2> QED BY <2>1, <2>3, <2>4, <2>6, <2>7, <2>8 DEF Caller
  <1> QED BY <1>3, <1>7, <1>10, <1>11, <1>12

\* The service answers with an error.
LEMMA RefuseStep ==
    ASSUME Inv, NEW h \in Callers, Refuses(h), Watch,
           disturbed' = [disturbed EXCEPT ![h] = @ \/ op[h] = "PinnedCIDs"],
           UNCHANGED <<reportVars, known>>
    PROVE  Inv'
  <1> USE DEF Inv
  <1>1. /\ at[h] = "sent" /\ at'[h] = "answered" /\ ok'[h] = FALSE /\ rows'[h] = <<>>
        /\ remote' \in {remote} \cup After(op[h], arg[h])
        /\ UNCHANGED <<late, op, arg, offset, got, err, todo, yes, no, failed, known>>
    BY DEF Refuses, reportVars, TypeOK, PinataTypeOK
  <1>2. op[h] \in Ops /\ (op[h] \in Changes => <<op[h], arg[h]>> \in Underway)
    BY <1>1, InUnderway DEF TypeOK, PinataTypeOK
  <1>3. Moves /\ remote' \in Seq(CIDs) /\ Once(remote')
    BY <1>1, <1>2, MovesSafely
  <1>4. ToSet(remote') \subseteq CIDs
    BY <1>3, Elements
  <1>5. disturbed'[h] = (disturbed[h] \/ op[h] = "PinnedCIDs")
    BY DEF TypeOK
  <1>6. TypeOK'
    <2>1. PinataTypeOK'
      <3>1. /\ at' \in [Callers -> {"idle", "sent", "answered", "done"}] /\ ok' \in [Callers -> BOOLEAN]
            /\ rows' \in [Callers -> Seq(CIDs)]
        BY DEF Refuses, TypeOK, PinataTypeOK
      <3> QED BY <1>1, <1>3, <3>1 DEF TypeOK, PinataTypeOK
    <2>2. seen' \in [Callers -> SUBSET CIDs] /\ missed' \in [Callers -> SUBSET CIDs]
      BY <1>4 DEF Watch, TypeOK
    <2>3. disturbed' \in [Callers -> BOOLEAN]
      BY DEF TypeOK
    <2> QED BY <1>1, <2>1, <2>2, <2>3 DEF TypeOK
  <1>7. \A g \in Callers \ {h} : Same(g)
    BY <1>1 DEF Refuses, Same, TypeOK, PinataTypeOK
  <1>8. \A r \in Underway' : r \in Underway
    BY <1>1, <1>7, NothingAdded, InUnderway DEF Same
  <1>9. Settled' /\ KnownStatus'
    BY <1>1, <1>3, <1>8, KnownStays
  <1>10. ASSUME NEW g \in Callers, g # h PROVE Caller(g)'
    <2>1. disturbed'[g] = disturbed[g]
      BY <1>10 DEF TypeOK
    <2> QED BY <1>3, <1>7, <1>8, <1>10, <2>1, Watched
  <1>11. Caller(h)'
    <2>1. Call(h)' /\ Undisturbed(h)'
      BY <1>1, <1>5, <1>8 DEF Caller, Call, Undisturbed, Busy, Reading
    <2>2. Reading(h) => seen[h] \subseteq seen'[h] /\ missed[h] \subseteq missed'[h]
      BY DEF Watch
    <2>3. Reported(h)'
      BY <1>1, <2>2 DEF Caller, Reported, Call
    <2>4. ~Served(h)'
      BY <1>1 DEF Served
    <2>5. op[h] = "PinnedCIDs" => Reading(h)
      BY <1>1 DEF Reading, Busy, Changes
    <2>6. Pages(h)'
      BY <1>1, <2>2, <2>5 DEF Caller, Pages, ToSet
    <2>7. NothingSkipped(h)'
      BY <1>1, <1>5 DEF NothingSkipped
    <2> QED BY <2>1, <2>3, <2>4, <2>6, <2>7 DEF Caller, Effect, Lookup
  <1> QED BY <1>3, <1>6, <1>9, <1>10, <1>11

\* A request that was given up arrives.
LEMMA LateStep ==
    ASSUME Inv, NEW r \in late, LateArrives(r), Watch, UNCHANGED <<reportVars, disturbed, known>>
    PROVE  Inv'
  <1> USE DEF Inv
  <1>1. /\ remote' \in {remote} \cup After(r[1], r[2]) /\ late' \subseteq late
        /\ UNCHANGED <<at, op, arg, ok, rows, offset, got, err>>
        /\ UNCHANGED <<todo, yes, no, failed, disturbed, known>>
    BY DEF LateArrives, callVars, reportVars
  <1>2. r[1] \in Ops /\ <<r[1], r[2]>> \in Underway
    <2>1. r \in Underway
      BY InUnderway
    <2>2. r[1] \in Changes /\ r = <<r[1], r[2]>>
      BY <2>1, UnderwayTypes DEF Caller
    <2> QED BY <2>1, <2>2 DEF Ops
  <1>3. Moves /\ remote' \in Seq(CIDs) /\ Once(remote')
    BY <1>1, <1>2, MovesSafely
  <1>4. ToSet(remote') \subseteq CIDs
    BY <1>3, Elements
  <1>5. TypeOK'
    <2>1. PinataTypeOK'
      BY <1>1, <1>3 DEF TypeOK, PinataTypeOK
    <2>2. seen' \in [Callers -> SUBSET CIDs] /\ missed' \in [Callers -> SUBSET CIDs]
      BY <1>4 DEF Watch, TypeOK
    <2> QED BY <1>1, <2>1, <2>2 DEF TypeOK
  <1>6. \A q \in Underway' : q \in Underway
    BY <1>1 DEF Underway
  <1>7. Settled' /\ KnownStatus'
    BY <1>1, <1>3, <1>6, KnownStays
  <1>8. ASSUME NEW g \in Callers PROVE Caller(g)'
    <2>1. Same(g)
      BY <1>1 DEF Same
    <2> QED BY <1>1, <1>3, <1>6, <2>1, Watched
  <1> QED BY <1>3, <1>5, <1>7, <1>8

\* The process dies.
LEMMA DieStep ==
    ASSUME Inv, Dies
    PROVE  Inv'
  <1> USE DEF Inv
  <1>1. /\ remote' = remote /\ known' = known
        /\ \A r \in late' : r \in Underway
        /\ \A h \in Callers : /\ at'[h] = "idle" /\ op'[h] = "IsPinned"
                              /\ yes'[h] = {} /\ no'[h] = {}
    BY DEF Dies
  <1>2. TypeOK'
    <2>1. late' \subseteq Changes \X CIDs
      <3>1. \A r \in Underway : r \in Changes \X CIDs
        BY UnderwayTypes DEF Caller
      <3> QED BY <1>1, <3>1
    <2>2. PinataTypeOK'
      BY <2>1 DEF Dies, TypeOK, PinataTypeOK, Ops
    <2>3. /\ todo' \in [Callers -> Seq(CIDs)] /\ disturbed' \in [Callers -> BOOLEAN]
          /\ yes' \in [Callers -> SUBSET CIDs] /\ no' \in [Callers -> SUBSET CIDs]
          /\ failed' \in [Callers -> SUBSET CIDs]
          /\ seen' \in [Callers -> SUBSET CIDs] /\ missed' \in [Callers -> SUBSET CIDs]
      BY DEF Dies
    <2> QED BY <1>1, <2>2, <2>3 DEF TypeOK
  <1>3. \A r \in Underway' : r \in Underway
    BY <1>1 DEF Underway
  <1>4. Settled' /\ KnownStatus'
    BY <1>1, <1>3, KnownStays DEF Moves
  <1>5. ASSUME NEW h \in Callers PROVE Caller(h)'
    <2>1. ~Busy(h)' /\ ~Served(h)'
      BY <1>1 DEF Busy, Served
    <2> QED BY <1>1, <2>1 DEF Caller, Call, Undisturbed, Effect, Lookup, Reported, Pages,
                               NothingSkipped, Changes
  <1> QED BY <1>1, <1>2, <1>4, <1>5

LEMMA Invariance == Spec => []Inv
  <1>1. ASSUME Inv, Next PROVE Inv'
    <2>1. ASSUME NEW h \in Callers, NEW x \in CIDs, handlePin(h, x) \/ handleUnpin(h, x) PROVE Inv'
      BY <1>1, <2>1, AskStep DEF handlePin, handleUnpin, Pin, Unpin, Changes
    <2>2. ASSUME NEW h \in Callers, ChangeAnswered(h) \/ ReportAnswered(h) \/ ListReturned(h)
          PROVE  Inv'
      BY <1>1, <2>2, EndStep DEF ChangeAnswered, ReportAnswered, ListReturned
    <2>3. ASSUME NEW h \in Readers, Report(h) PROVE Inv'
      <3>1. h \in Callers /\ Items[1] \in CIDs /\ Tail(Items) \in Seq(CIDs)
        BY ServerConstants, HeadTailProperties
      <3>2. todo' \in [Callers -> Seq(CIDs)]
        BY <1>1, <2>3, <3>1 DEF Report, Inv, TypeOK
      <3>3. /\ ~Busy(h) /\ Begins(h, "IsPinned", Items[1]) /\ Reads(h, "IsPinned")
            /\ UNCHANGED <<yes, no, failed, known>>
        BY <2>3 DEF Report, IsPinned
      <3> QED BY <1>1, <3>1, <3>2, <3>3, ReadStep
    <2>4. ASSUME NEW h \in Readers, List(h) PROVE Inv'
      <3>1. h \in Callers
        BY ServerConstants
      <3>2. todo' \in [Callers -> Seq(CIDs)]
        BY <1>1, <2>4 DEF List, reportVars, Inv, TypeOK
      <3>3. /\ ~Busy(h) /\ Begins(h, "PinnedCIDs", NoCID) /\ Reads(h, "PinnedCIDs")
            /\ UNCHANGED <<yes, no, failed, known>>
        BY <2>4 DEF List, PinnedCIDs, reportVars
      <3> QED BY <1>1, <3>1, <3>2, <3>3, ReadStep
    <2>5. CASE Service
      BY <1>1, <2>5, ServeStep, LateStep DEF Service
    <2>6. CASE ServiceRefuses
      BY <1>1, <2>6, RefuseStep DEF ServiceRefuses
    <2> QED BY <1>1, <2>1, <2>2, <2>3, <2>4, <2>5, <2>6, ItemStep, ClientStep, DieStep
             DEF Next, HandlerStep
  <1>2. ASSUME Inv, UNCHANGED vars PROVE Inv'
    <2> USE <1>2 DEF Inv, vars, pinataVars, callVars, reportVars
    <2>1. TypeOK' /\ Once(remote')
      BY DEF TypeOK, PinataTypeOK
    <2>2. Underway' = Underway
      BY DEF Underway
    <2>3. Settled' /\ KnownStatus'
      BY <2>2 DEF Settled, KnownStatus
    <2>4. ASSUME NEW h \in Callers PROVE Caller(h)'
      <3>1. Same(h) /\ Undisturbed(h)'
        BY <2>2 DEF Same, Caller, Undisturbed, Busy
      <3> QED BY <3>1, Aside
    <2> QED BY <2>1, <2>3, <2>4
  <1> QED BY <1>1, <1>2, Start, PTL DEF Spec

-----------------------------------------------------------------------------
(* The theorems *)

\* A 200 for a pin or an unpin (src/server.go handlePin, handleUnpin over
\* src/pinata.go) is true of the service from then on, through errors, requests
\* that arrive late or twice and restarts, until the opposite is asked for - for
\* any number of requests, provided that no opposite one was underway.
THEOREM AnswersHold == Spec => []KnownStatus
  <1>1. Inv => KnownStatus
    BY DEF Inv
  <1> QED BY <1>1, Invariance, PTL

\* handlePapers and handleStatus report nothing as pinned that was not pinned at
\* some time of the request and, unless a lookup fails, nothing as not pinned
\* that was pinned all the time.
THEOREM ReportsAreSound == Spec => []ReportsSound
  <1>1. Inv => ReportsSound
    BY DEF Inv, Caller, Reported, ReportsSound
  <1> QED BY <1>1, Invariance, PTL

\* The pages of PinnedCIDs, of any size, add up: nothing that was never pinned,
\* and everything that was pinned all the time, whatever is pinned in between.
THEOREM ListIsComplete == Spec => []ListMeaning
  <1>1. Inv => ListMeaning
    <2> SUFFICES ASSUME Inv, NEW h \in Callers, op[h] = "PinnedCIDs"
                 PROVE  /\ ToSet(got[h]) \subseteq seen[h]
                        /\ at[h] = "done" /\ ~err[h] /\ ~disturbed[h]
                             => CIDs \ missed[h] \subseteq ToSet(got[h])
      BY DEF ListMeaning
    <2>1. Pages(h) /\ NothingSkipped(h)
      BY DEF Inv, Caller
    <2> QED BY <2>1 DEF Pages, NothingSkipped, Ahead
  <1> QED BY <1>1, Invariance, PTL
=============================================================================
