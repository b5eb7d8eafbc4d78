------------------------- MODULE MediaQueuesProofs -------------------------
(***************************************************************************)
(* Both queue classes, on each of their storages, implement the bounded     *)
(* FIFO queue, for every capacity and any number of threads.                *)
(***************************************************************************)
EXTENDS MediaQueues, TLAPS

USE QueuesAssumption

Cell == Frames \cup {NoFrame}
Places == 0 .. Slots - 1
Cells == [Places -> Cell]
StorageType == [deque : Seq(Cell), cells : Cells, lo : Places, hi : Nat]

(* What the storage is between two critical sections.                          *)
Storage(s) ==
    /\ s \in StorageType
    /\ Kind = "deque" => Len(s.deque) <= Capacity
    /\ Kind = "prepared" => s.hi <= Capacity
    /\ Kind = "spsc" => s.hi < Slots

Chosen == Kind \in Kinds

-----------------------------------------------------------------------------
(* The ring's arithmetic.                                                  *)

(* A ring has a slot.                                                          *)
LEMMA SlotsNat == /\ Slots \in Nat \ {0}
                  /\ Kind = "spsc" => Slots = Capacity + 1
                  /\ Kind # "spsc" => Slots = Capacity
BY DEF Slots

(* An index that leaves the ring at the end comes in again at the start.         *)
LEMMA Wrap ==
    ASSUME NEW i \in 0 .. Slots - 1, NEW o \in 0 .. Slots
    PROVE  /\ Index(i, o) = IF i + o < Slots THEN i + o ELSE i + o - Slots
           /\ Index(i, o) \in 0 .. Slots - 1
<1>1. PICK n \in Nat \ {0} : n = Slots
  BY SlotsNat
<1>2. i \in 0 .. n - 1 /\ o \in 0 .. n
  BY <1>1
<1>3. (i + o) % n = IF i + o < n THEN i + o ELSE i + o - n
  BY <1>2
<1>4. QED
  BY <1>1, <1>2, <1>3 DEF Index

(* The number of frames, and what the two tests of it say.                       *)
LEMMA Sizes ==
    ASSUME Chosen, NEW s, Storage(s)
    PROVE  /\ Size(s) \in 0 .. Capacity
           /\ Full(s) <=> Size(s) = Capacity
           /\ Empty(s) <=> Size(s) = 0
<1>1. PICK n \in Nat \ {0} : n = Slots
  BY SlotsNat
<1>2. s.hi \in Nat /\ s.lo \in 0 .. n - 1 /\ s.deque \in Seq(Cell)
  BY <1>1 DEF Storage, StorageType, Places, Cells
<1>3. CASE Kind = "deque"
  BY <1>2, <1>3 DEF Size, Full, Empty, Storage
<1>4. CASE Kind = "prepared"
  BY <1>2, <1>4 DEF Size, Full, Empty, Storage
<1>5. CASE Kind = "spsc"
  <2>1. n = Capacity + 1 /\ s.hi \in 0 .. n - 1
    BY <1>1, <1>2, <1>5, SlotsNat DEF Storage
  <2>2. Index(s.hi, 1) = IF s.hi + 1 < n THEN s.hi + 1 ELSE s.hi + 1 - n
    <3>1. s.hi \in 0 .. Slots - 1 /\ 1 \in 0 .. Slots
      BY <1>1, <2>1
    <3>2. QED
      BY <1>1, <3>1, Wrap, Zenon
  <2>3. Size(s) = IF s.hi >= s.lo THEN s.hi - s.lo ELSE n - s.lo + s.hi
    BY <1>1, <1>5 DEF Size
  <2>4. QED
    BY <1>2, <1>5, <2>1, <2>2, <2>3, SMTT(30) DEF Full, Empty
<1>6. QED
  BY <1>3, <1>4, <1>5 DEF Chosen, Kinds

(* Distinct offsets within the ring are distinct slots.                          *)
LEMMA Apart ==
    ASSUME NEW i \in 0 .. Slots - 1, NEW o \in 0 .. Slots - 1, NEW e \in 0 .. Slots - 1,
           o # e
    PROVE  Index(i, o) # Index(i, e)
<1>1. PICK n \in Nat \ {0} : n = Slots
  BY SlotsNat
<1>2. /\ Index(i, o) = IF i + o < n THEN i + o ELSE i + o - n
      /\ Index(i, e) = IF i + e < n THEN i + e ELSE i + e - n
  <2>1. o \in 0 .. Slots /\ e \in 0 .. Slots
    BY <1>1
  <2>2. QED
    BY <1>1, <2>1, Wrap
<1>3. QED
  BY <1>1, <1>2

(* An offset from the next slot is the next offset.                              *)
LEMMA Shift ==
    ASSUME NEW i \in Places, NEW o \in 0 .. Slots - 2
    PROVE  Index(Index(i, 1), o) = Index(i, o + 1)
<1>1. PICK n \in Nat \ {0} : n = Slots
  BY SlotsNat
<1>2. i \in 0 .. n - 1 /\ o \in 0 .. n - 2 /\ n > 1
  BY <1>1 DEF Places
<1>3. PICK j \in Places : j = Index(i, 1) /\ j = IF i + 1 < n THEN i + 1 ELSE i + 1 - n
  <2>1. i \in 0 .. Slots - 1 /\ 1 \in 0 .. Slots
    BY <1>1, <1>2
  <2>2. QED
    BY <1>1, <2>1, Wrap, Zenon DEF Places
<1>4. Index(j, o) = IF j + o < n THEN j + o ELSE j + o - n
  <2>1. j \in 0 .. Slots - 1 /\ o \in 0 .. Slots
    BY <1>1, <1>2 DEF Places
  <2>2. QED
    BY <1>1, <2>1, Wrap, Zenon
<1>5. Index(i, o + 1) = IF i + (o + 1) < n THEN i + (o + 1) ELSE i + (o + 1) - n
  <2>1. i \in 0 .. Slots - 1 /\ o + 1 \in 0 .. Slots
    BY <1>1, <1>2
  <2>2. QED
    BY <1>1, <2>1, Wrap, Zenon
<1>6. QED
  <2>1. CASE i + 1 < n
    BY <1>2, <1>3, <1>4, <1>5, <2>1
  <2>2. CASE i + 1 = n
    BY <1>2, <1>3, <1>4, <1>5, <2>2
  <2>3. QED
    BY <1>2, <2>1, <2>2

(* The slot after the one at an offset is at the next offset.                     *)
LEMMA NextSlot ==
    ASSUME NEW i \in Places, NEW o \in 0 .. Slots - 2
    PROVE  Index(Index(i, o), 1) = Index(i, o + 1)
<1>1. PICK n \in Nat \ {0} : n = Slots
  BY SlotsNat
<1>2. i \in 0 .. n - 1 /\ o \in 0 .. n - 2 /\ n > 1
  BY <1>1 DEF Places
<1>3. PICK j \in Places : j = Index(i, o) /\ j = IF i + o < n THEN i + o ELSE i + o - n
  <2>1. i \in 0 .. Slots - 1 /\ o \in 0 .. Slots
    BY <1>1, <1>2
  <2>2. QED
    BY <1>1, <2>1, Wrap, Zenon DEF Places
<1>4. Index(j, 1) = IF j + 1 < n THEN j + 1 ELSE j + 1 - n
  <2>1. j \in 0 .. Slots - 1 /\ 1 \in 0 .. Slots
    BY <1>1, <1>2 DEF Places
  <2>2. QED
    BY <1>1, <2>1, Wrap, Zenon
<1>5. Index(i, o + 1) = IF i + (o + 1) < n THEN i + (o + 1) ELSE i + (o + 1) - n
  <2>1. i \in 0 .. Slots - 1 /\ o + 1 \in 0 .. Slots
    BY <1>1, <1>2
  <2>2. QED
    BY <1>1, <2>1, Wrap, Zenon
<1>6. QED
  <2>1. CASE i + o < n
    BY <1>2, <1>3, <1>4, <1>5, <2>1
  <2>2. CASE i + o >= n
    BY <1>2, <1>3, <1>4, <1>5, <2>2
  <2>3. QED
    BY <1>2, <2>1, <2>2

(* Offset 0 is the slot itself.                                                  *)
LEMMA Here ==
    ASSUME NEW i \in Places
    PROVE  Index(i, 0) = i
<1>1. i \in 0 .. Slots - 1 /\ 0 \in 0 .. Slots /\ i + 0 = i /\ i < Slots
  BY SlotsNat DEF Places
<1>2. QED
  BY <1>1, Wrap

(* The offset of a slot is found by going on to the end of the ring.              *)
LEMMA Back ==
    ASSUME NEW i \in Places, NEW o \in Places
    PROVE  Index(Index(i, o), Slots - i) = o
<1>1. PICK n \in Nat \ {0} : n = Slots
  BY SlotsNat
<1>2. i \in 0 .. n - 1 /\ o \in 0 .. n - 1
  BY <1>1 DEF Places
<1>3. PICK j \in Places : j = Index(i, o) /\ j = IF i + o < n THEN i + o ELSE i + o - n
  <2>1. i \in 0 .. Slots - 1 /\ o \in 0 .. Slots
    BY <1>1, <1>2
  <2>2. QED
    BY <1>1, <2>1, Wrap, Zenon DEF Places
<1>4. Index(j, n - i) = IF j + (n - i) < n THEN j + (n - i) ELSE j + (n - i) - n
  <2>1. j \in 0 .. Slots - 1 /\ n - i \in 0 .. Slots
    BY <1>1, <1>2 DEF Places
  <2>2. QED
    BY <1>1, <2>1, Wrap, Zenon
<1>5. QED
  BY <1>1, <1>2, <1>3, <1>4

(* In the SPSC ring the write index is the slot behind the last frame.            *)
LEMMA WriteSlot ==
    ASSUME Kind = "spsc", NEW s, Storage(s)
    PROVE  s.hi = Index(s.lo, Size(s))
<1>1. PICK n \in Nat \ {0} : n = Slots
  BY SlotsNat
<1>2. s.hi \in 0 .. n - 1 /\ s.lo \in 0 .. n - 1
  BY <1>1 DEF Storage, StorageType, Places, Cells
<1>3. Size(s) = IF s.hi >= s.lo THEN s.hi - s.lo ELSE n - s.lo + s.hi
  BY <1>1 DEF Size
<1>4. Size(s) \in 0 .. n - 1
  BY <1>2, <1>3
<1>5. Index(s.lo, Size(s)) = IF s.lo + Size(s) < n THEN s.lo + Size(s)
                                                   ELSE s.lo + Size(s) - n
  <2>1. s.lo \in 0 .. Slots - 1 /\ Size(s) \in 0 .. Slots
    BY <1>1, <1>2, <1>4
  <2>2. QED
    BY <1>1, <2>1, Wrap, Zenon
<1>6. QED
  BY <1>2, <1>3, <1>5

-----------------------------------------------------------------------------
(* The operations of the storage.                                          *)

NewDeque(s, d) == [s EXCEPT !.deque = d]

(* Assigning the deque.                                                        *)
LEMMA NewDequeType ==
    ASSUME NEW s \in StorageType, NEW d \in Seq(Cell)
    PROVE  LET t == NewDeque(s, d) IN
           t \in StorageType /\ t.deque = d
  BY DEF StorageType, NewDeque

NewEnd(s, c, h) == [s EXCEPT !.cells = c, !.hi = h]

(* Assigning the cells and the end, as a push into a ring does.                *)
LEMMA NewEndType ==
    ASSUME NEW s \in StorageType, NEW c \in Cells, NEW h \in Nat
    PROVE  LET t == NewEnd(s, c, h) IN
           t \in StorageType /\ t.cells = c /\ t.lo = s.lo /\ t.hi = h
  BY Zenon DEF StorageType, NewEnd

NewStart(s, c, l) == [s EXCEPT !.cells = c, !.lo = l]

(* Assigning the cells and the start, as a pop from the SPSC ring does.        *)
LEMMA NewStartType ==
    ASSUME NEW s \in StorageType, NEW c \in Cells, NEW l \in Places
    PROVE  LET t == NewStart(s, c, l) IN
           t \in StorageType /\ t.cells = c /\ t.lo = l /\ t.hi = s.hi
  BY Zenon DEF StorageType, NewStart

NewEnds(s, c, l, h) == [s EXCEPT !.cells = c, !.lo = l, !.hi = h]

(* Assigning the cells and both ends.                                          *)
LEMMA NewEndsType ==
    ASSUME NEW s \in StorageType, NEW c \in Cells,
           NEW l \in Places, NEW h \in Nat
    PROVE  LET t == NewEnds(s, c, l, h) IN
           t \in StorageType /\ t.cells = c /\ t.lo = l /\ t.hi = h
  BY Zenon DEF StorageType, NewEnds

(* A frame pushed goes behind the last one and leaves the others alone.          *)
LEMMA PushBackLemma ==
    ASSUME Chosen, NEW s, Storage(s), ~Full(s), NEW f \in Frames
    PROVE  LET t == PushBack(s, f) IN
           /\ Storage(t) /\ Size(t) = Size(s) + 1
           /\ \A o \in 0 .. Size(s) - 1 : At(t, o) = At(s, o)
           /\ At(t, Size(s)) = f
<1>1. PICK n \in Nat \ {0} : n = Slots
  BY SlotsNat
<1>2. /\ s.hi \in Nat /\ s.lo \in 0 .. n - 1 /\ s.deque \in Seq(Cell)
      /\ s.cells \in [0 .. n - 1 -> Cell] /\ f \in Cell /\ s \in StorageType
  BY <1>1 DEF Storage, StorageType, Places, Cells, Cell
<1>3. Size(s) \in 0 .. Capacity - 1
  BY Sizes
<1>4. CASE Kind = "deque"
  <2>1. PICK t : t = PushBack(s, f) /\ t = [s EXCEPT !.deque = Append(s.deque, f)]
    BY <1>4, Zenon DEF PushBack
  <2>2. /\ t \in StorageType /\ t.deque = Append(s.deque, f)
    <3>1. Append(s.deque, f) \in Seq(Cell)
      BY <1>2
    <3>2. QED
      BY <1>2, <2>1, <3>1, NewDequeType, Zenon DEF NewDeque
  <2>3. Size(s) = Len(s.deque) /\ Size(t) = Len(s.deque) + 1
    BY <1>2, <1>4, <2>2 DEF Size
  <2>4. Storage(t)
    BY <1>3, <1>4, <2>2, <2>3 DEF Storage, Size
  <2>5. /\ \A o \in 0 .. Size(s) - 1 : At(t, o) = At(s, o)
        /\ At(t, Size(s)) = f
    BY <1>2, <1>4, <2>2, <2>3 DEF At
  <2>6. QED
    BY <2>1, <2>3, <2>4, <2>5, Zenon
<1>5. CASE Kind = "prepared"
  <2>1. n = Capacity /\ Size(s) = s.hi /\ s.hi \in 0 .. n - 1
    BY <1>1, <1>2, <1>3, <1>5, SlotsNat DEF Size
  <2>2. PICK w \in 0 .. n - 1 : w = Index(s.lo, s.hi)
    <3>1. s.lo \in 0 .. Slots - 1 /\ s.hi \in 0 .. Slots
      BY <1>1, <1>2, <2>1
    <3>2. QED
      BY <1>1, <3>1, Wrap, Zenon
  <2>3. PICK t : t = PushBack(s, f) /\ t = [s EXCEPT !.cells[w] = f, !.hi = s.hi + 1]
    BY <1>5, <2>2 DEF PushBack
  <2>4. /\ t \in StorageType /\ t.cells = [s.cells EXCEPT ![w] = f]
        /\ t.hi = s.hi + 1 /\ t.lo = s.lo
    <3>1. PICK c, h : c = [s.cells EXCEPT ![w] = f] /\ h = s.hi + 1
      BY Zenon
    <3>2. c \in Cells /\ h \in Nat
      BY <1>1, <1>2, <3>1 DEF Cells, Places
    <3>3. t = NewEnd(s, c, h)
      BY <1>2, <2>3, <3>1 DEF StorageType, NewEnd
    <3>4. QED
      <4>1. LET u == NewEnd(s, c, h) IN
            u \in StorageType /\ u.cells = c /\ u.lo = s.lo /\ u.hi = h
        <5>1. s \in StorageType
          BY <1>2
        <5>2. QED
          BY <3>2, <5>1, NewEndType
      <4>2. QED
        BY <3>1, <3>3, <4>1
  <2>5. Storage(t) /\ Size(t) = Size(s) + 1
    BY <1>5, <2>1, <2>4 DEF Storage, Size
  <2>6. ASSUME NEW o \in 0 .. Size(s) - 1 PROVE At(t, o) = At(s, o)
    <3>1. Index(s.lo, o) # w /\ Index(s.lo, o) \in 0 .. n - 1
      <4>1. /\ s.lo \in 0 .. Slots - 1 /\ s.hi \in 0 .. Slots - 1 /\ o \in 0 .. Slots
            /\ o \in 0 .. Slots - 1 /\ o # s.hi
        BY <1>1, <1>2, <2>1
      <4>2. QED
        BY <1>1, <2>2, <4>1, Apart, Wrap, Zenon
    <3>2. QED
      BY <1>2, <1>5, <2>4, <3>1 DEF At
  <2>7. At(t, Size(s)) = f
    BY <1>2, <1>5, <2>1, <2>2, <2>4 DEF At
  <2>8. QED
    BY <2>3, <2>5, <2>6, <2>7
<1>6. CASE Kind = "spsc"
  <2>1. n = Capacity + 1 /\ s.hi \in 0 .. n - 1
    BY <1>1, <1>2, <1>6, SlotsNat DEF Storage
  <2>2. PICK w \in 0 .. n - 1 :
           w = Index(s.hi, 1) /\ w = IF s.hi + 1 < n THEN s.hi + 1 ELSE s.hi + 1 - n
    <3>1. s.hi \in 0 .. Slots - 1 /\ 1 \in 0 .. Slots
      BY <1>1, <2>1
    <3>2. QED
      BY <1>1, <3>1, Wrap, Zenon
  <2>3. PICK t : t = PushBack(s, f) /\ t = [s EXCEPT !.cells[s.hi] = f, !.hi = w]
    BY <1>6, <2>2 DEF PushBack
  <2>4. /\ t \in StorageType /\ t.cells = [s.cells EXCEPT ![s.hi] = f]
        /\ t.hi = w /\ t.lo = s.lo
    <3>1. PICK c : c = [s.cells EXCEPT ![s.hi] = f]
      BY Zenon
    <3>2. c \in Cells /\ w \in Nat
      BY <1>1, <1>2, <2>1, <3>1 DEF Cells, Places
    <3>3. t = NewEnd(s, c, w)
      BY <1>2, <2>3, <3>1 DEF StorageType, NewEnd
    <3>4. QED
      <4>1. LET u == NewEnd(s, c, w) IN
            u \in StorageType /\ u.cells = c /\ u.lo = s.lo /\ u.hi = w
        <5>1. s \in StorageType
          BY <1>2
        <5>2. QED
          BY <3>2, <5>1, NewEndType
      <4>2. QED
        BY <3>1, <3>3, <4>1
  <2>5. Size(t) = Size(s) + 1
    <3>1. Size(s) = IF s.hi >= s.lo THEN s.hi - s.lo ELSE n - s.lo + s.hi
      BY <1>1, <1>6 DEF Size
    <3>2. Size(t) = IF w >= s.lo THEN w - s.lo ELSE n - s.lo + w
      BY <1>1, <1>6, <2>4 DEF Size
    <3>3. w # s.lo
      BY <1>6, <2>2 DEF Full
    <3>4. QED
      <4>1. s.lo \in 0 .. n - 1 /\ s.hi \in 0 .. n - 1
        BY <1>2, <2>1
      <4>2. CASE s.hi + 1 < n
        BY <2>2, <3>1, <3>2, <3>3, <4>1, <4>2
      <4>3. CASE s.hi + 1 = n
        BY <2>2, <3>1, <3>2, <3>3, <4>1, <4>3
      <4>4. QED
        BY <4>1, <4>2, <4>3
  <2>6. Storage(t)
    BY <1>1, <1>6, <2>2, <2>4 DEF Storage
  <2>7. s.hi = Index(s.lo, Size(s))
    BY <1>6, WriteSlot
  <2>8. ASSUME NEW o \in 0 .. Size(s) - 1 PROVE At(t, o) = At(s, o)
    <3>1. Index(s.lo, o) # s.hi /\ Index(s.lo, o) \in 0 .. n - 1
      <4>1. /\ s.lo \in 0 .. Slots - 1 /\ Size(s) \in 0 .. Slots - 1 /\ o \in 0 .. Slots
            /\ o \in 0 .. Slots - 1 /\ o # Size(s)
        BY <1>1, <1>2, <1>3, <2>1
      <4>2. QED
        <5>1. Index(s.lo, o) # Index(s.lo, Size(s))
          BY <4>1, Apart
        <5>2. QED
          BY <1>1, <2>7, <4>1, <5>1, Wrap, Zenon
    <3>2. QED
      BY <1>2, <1>6, <2>1, <2>4, <3>1 DEF At
  <2>9. At(t, Size(s)) = f
    BY <1>2, <1>6, <2>1, <2>4, <2>7 DEF At
  <2>10. QED
    BY <2>3, <2>5, <2>6, <2>8, <2>9
<1>7. QED
  BY <1>4, <1>5, <1>6 DEF Chosen, Kinds

(* A frame taken was the first; the others move up.                              *)
LEMMA PopFrontLemma ==
    ASSUME Chosen, NEW s, Storage(s), ~Empty(s)
    PROVE  LET t == PopFront(s) IN
           /\ Storage(t) /\ Size(t) = Size(s) - 1
           /\ \A o \in 0 .. Size(s) - 2 : At(t, o) = At(s, o + 1)
<1>1. PICK n \in Nat \ {0} : n = Slots
  BY SlotsNat
<1>2. /\ s.hi \in Nat /\ s.lo \in 0 .. n - 1 /\ s.deque \in Seq(Cell)
      /\ s.cells \in [0 .. n - 1 -> Cell] /\ NoFrame \in Cell /\ s \in StorageType
  BY <1>1 DEF Storage, StorageType, Places, Cells, Cell
<1>3. Size(s) \in 1 .. Capacity
  BY Sizes
<1>4. PICK c \in Cells : c = [s.cells EXCEPT ![s.lo] = NoFrame]
  <2>1. [s.cells EXCEPT ![s.lo] = NoFrame] \in Cells
    BY <1>1, <1>2 DEF Cells, Places
  <2>2. QED
    BY <2>1
<1>5. PICK l \in 0 .. n - 1 : l = Index(s.lo, 1) /\ l \in Places
                           /\ l = IF s.lo + 1 < n THEN s.lo + 1 ELSE s.lo + 1 - n
  <2>1. s.lo \in 0 .. Slots - 1 /\ 1 \in 0 .. Slots
    BY <1>1, <1>2
  <2>2. QED
    BY <1>1, <2>1, Wrap, Zenon DEF Places
<1>6. ASSUME NEW o \in 0 .. Size(s) - 2, Size(s) <= n
      PROVE  /\ Index(l, o) = Index(s.lo, o + 1)
             /\ c[Index(l, o)] = s.cells[Index(s.lo, o + 1)]
  <2>1. /\ s.lo \in Places /\ o \in 0 .. Slots - 2 /\ o + 1 \in 0 .. Slots - 1
        /\ o + 1 \in 0 .. Slots /\ 0 \in 0 .. Slots - 1 /\ o + 1 # 0
        /\ s.lo \in 0 .. Slots - 1
    <3>1. o \in 0 .. n - 2 /\ s.lo \in 0 .. n - 1
      BY <1>2, <1>3, <1>6
    <3>2. QED
      BY <1>1, <3>1 DEF Places
  <2>2. Index(l, o) = Index(s.lo, o + 1)
    BY <1>5, <2>1, Shift
  <2>3. Index(s.lo, o + 1) # s.lo
    <3>1. Index(s.lo, o + 1) # Index(s.lo, 0)
      BY <2>1, Apart
    <3>2. QED
      BY <2>1, <3>1, Here
  <2>4. Index(s.lo, o + 1) \in 0 .. n - 1
    BY <1>1, <2>1, Wrap, Zenon
  <2>5. QED
    BY <1>2, <1>4, <2>2, <2>3, <2>4
<1>7. CASE Kind = "deque"
  <2>1. Size(s) = Len(s.deque) /\ Len(s.deque) \in 1 .. Capacity
    BY <1>3, <1>7 DEF Size
  <2>2. PICK d \in Seq(Cell) : /\ d = Tail(s.deque) /\ Len(d) = Len(s.deque) - 1
                               /\ \A i \in 1 .. Len(d) : d[i] = s.deque[i + 1]
    <3>1. s.deque \in Seq(Cell) /\ s.deque # << >>
      BY <1>2, <2>1
    <3>2. Tail(s.deque) \in Seq(Cell) /\ Len(Tail(s.deque)) = Len(s.deque) - 1
      BY <3>1
    <3>3. \A i \in 1 .. Len(Tail(s.deque)) : Tail(s.deque)[i] = s.deque[i + 1]
      BY <3>1
    <3>4. QED
      BY <3>2, <3>3, Zenon
  <2>3. PICK t : t = PopFront(s) /\ t \in StorageType /\ t.deque = d
    BY <1>2, <1>7, <2>2, NewDequeType, Zenon DEF PopFront, NewDeque
  <2>4. Size(t) = Len(d) /\ Storage(t)
    BY <1>7, <2>1, <2>2, <2>3 DEF Size, Storage
  <2>5. \A o \in 0 .. Size(s) - 2 : At(t, o) = At(s, o + 1)
    BY <1>7, <2>1, <2>2, <2>3 DEF At
  <2>6. QED
    BY <2>1, <2>2, <2>3, <2>4, <2>5
<1>8. CASE Kind = "prepared"
  <2>1. n = Capacity /\ Size(s) = s.hi /\ s.hi \in 1 .. n
    BY <1>1, <1>2, <1>3, <1>8, SlotsNat DEF Size
  <2>2. PICK h, m : /\ h = s.hi - 1 /\ h \in Nat
                    /\ m = IF s.hi = 1 THEN 0 ELSE l
                    /\ m \in Places
    BY <1>1, <1>5, <2>1 DEF Places
  <2>3. PICK t : t = PopFront(s) /\ t = NewEnds(s, c, m, h)
    BY <1>2, <1>4, <1>5, <1>8, <2>2, Zenon DEF PopFront, NewEnds, StorageType
  <2>4. t \in StorageType /\ t.cells = c /\ t.lo = m /\ t.hi = h
    BY <1>2, <1>4, <2>2, <2>3, NewEndsType
  <2>5. Storage(t) /\ Size(t) = Size(s) - 1
    BY <1>8, <2>1, <2>2, <2>4 DEF Storage, Size
  <2>6. ASSUME NEW o \in 0 .. Size(s) - 2 PROVE At(t, o) = At(s, o + 1)
    <3>1. m = l /\ Size(s) <= n
      BY <2>1, <2>2
    <3>2. QED
      BY <1>6, <1>8, <2>4, <3>1 DEF At
  <2>7. QED
    BY <2>3, <2>5, <2>6
<1>9. CASE Kind = "spsc"
  <2>1. n = Capacity + 1 /\ s.hi \in 0 .. n - 1 /\ Size(s) <= n
    BY <1>1, <1>2, <1>3, <1>9, SlotsNat DEF Storage
  <2>2. PICK t : t = PopFront(s) /\ t = NewStart(s, c, l)
    BY <1>2, <1>4, <1>5, <1>9 DEF PopFront, NewStart, StorageType
  <2>3. t \in StorageType /\ t.cells = c /\ t.lo = l /\ t.hi = s.hi
    BY <1>2, <1>4, <1>5, <2>2, NewStartType
  <2>4. Size(t) = Size(s) - 1
    <3>1. Size(s) = IF s.hi >= s.lo THEN s.hi - s.lo ELSE n - s.lo + s.hi
      BY <1>1, <1>9 DEF Size
    <3>2. Size(t) = IF s.hi >= l THEN s.hi - l ELSE n - l + s.hi
      BY <1>1, <1>9, <2>3 DEF Size
    <3>3. s.lo \in 0 .. n - 1 /\ s.hi \in 0 .. n - 1 /\ Size(s) >= 1
      BY <1>2, <1>3, <2>1
    <3>4. CASE s.lo + 1 < n
      BY <1>5, <3>1, <3>2, <3>3, <3>4
    <3>5. CASE s.lo + 1 = n
      BY <1>5, <3>1, <3>2, <3>3, <3>5
    <3>6. QED
      BY <3>3, <3>4, <3>5
  <2>5. Storage(t)
    BY <1>1, <1>9, <2>1, <2>3 DEF Storage
  <2>6. ASSUME NEW o \in 0 .. Size(s) - 2 PROVE At(t, o) = At(s, o + 1)
    BY <1>6, <1>9, <2>1, <2>3 DEF At
  <2>7. QED
    BY <2>2, <2>4, <2>5, <2>6
<1>10. QED
  BY <1>7, <1>8, <1>9 DEF Chosen, Kinds

(* A frame dropped from the middle: the others keep their order.                  *)
LEMMA EraseLemma ==
    ASSUME Chosen, NEW s, Storage(s), NEW k \in 0 .. Size(s) - 1
    PROVE  LET t == Erase(s, k) IN
           /\ Storage(t) /\ Size(t) = Size(s) - 1
           /\ \A o \in 0 .. Size(s) - 2 : At(t, o) = At(s, IF o < k THEN o ELSE o + 1)
<1>1. PICK n \in Nat \ {0} : n = Slots
  BY SlotsNat
<1>2. /\ s.hi \in Nat /\ s.lo \in 0 .. n - 1 /\ s.deque \in Seq(Cell)
      /\ s.cells \in [0 .. n - 1 -> Cell] /\ NoFrame \in Cell /\ s \in StorageType
  BY <1>1 DEF Storage, StorageType, Places, Cells, Cell
<1>3. Size(s) \in 1 .. Capacity /\ k \in 0 .. Size(s) - 1
  BY Sizes
<1>4. ASSUME NEW o \in 0 .. n - 1
      PROVE  /\ Index(s.lo, o) \in 0 .. n - 1
             /\ \A e \in 0 .. n - 1 : e # o => Index(s.lo, e) # Index(s.lo, o)
  <2>1. s.lo \in 0 .. Slots - 1 /\ o \in 0 .. Slots - 1 /\ o \in 0 .. Slots
    BY <1>1, <1>2
  <2>2. Index(s.lo, o) \in 0 .. n - 1
    BY <1>1, <2>1, Wrap, Zenon
  <2>3. ASSUME NEW e \in 0 .. n - 1, e # o PROVE Index(s.lo, e) # Index(s.lo, o)
    <3>1. e \in 0 .. Slots - 1
      BY <1>1
    <3>2. QED
      BY <2>1, <2>3, <3>1, Apart
  <2>4. QED
    BY <2>2, <2>3
<1>5. PICK l \in 0 .. n - 1 : l = Index(s.lo, 1) /\ l \in Places
                           /\ l = IF s.lo + 1 < n THEN s.lo + 1 ELSE s.lo + 1 - n
  <2>1. s.lo \in 0 .. Slots - 1 /\ 1 \in 0 .. Slots
    BY <1>1, <1>2
  <2>2. QED
    BY <1>1, <2>1, Wrap, Zenon DEF Places
<1>7. CASE Kind = "deque"
  <2>1. Size(s) = Len(s.deque) /\ Len(s.deque) \in 1 .. Capacity /\ k \in 0 .. Len(s.deque) - 1
    BY <1>3, <1>7 DEF Size
  <2>2. PICK q, a, b : /\ q \in Seq(Cell) /\ q = s.deque
                       /\ a = SubSeq(q, 1, k) /\ b = SubSeq(q, k + 2, Len(q))
    BY <1>2
  <2>3. k \in 0 .. Len(q) - 1 /\ Len(q) \in 1 .. Capacity
    BY <2>1, <2>2
  <2>4. /\ a \in Seq(Cell) /\ Len(a) = k
        /\ b \in Seq(Cell) /\ Len(b) = Len(q) - k - 1
    BY <2>2, <2>3
  <2>5. /\ \A i \in 1 .. k : a[i] = q[i]
        /\ \A i \in 1 .. Len(q) - k - 1 : b[i] = q[i + k + 1]
    <3>1. \A i \in 1 .. k : a[i] = q[i]
      BY <2>2, <2>3
    <3>2. \A i \in 1 .. Len(q) - k - 1 : b[i] = q[i + k + 1]
      BY <2>2, <2>3
    <3>3. QED
      BY <3>1, <3>2
  <2>6. PICK d \in Seq(Cell) : d = a \o b /\ Len(d) = Len(q) - 1
    <3>1. a \o b \in Seq(Cell) /\ Len(a \o b) = Len(a) + Len(b)
      BY <2>4
    <3>2. Len(a) + Len(b) = Len(q) - 1
      BY <2>3, <2>4
    <3>3. QED
      BY <3>1, <3>2, Zenon
  <2>7. ASSUME NEW i \in 1 .. Len(q) - 1 PROVE d[i] = q[IF i <= k THEN i ELSE i + 1]
    <3>1. CASE i <= k
      <4>1. d[i] = a[i] /\ i \in 1 .. k
        BY <2>3, <2>4, <2>6, <3>1
      <4>2. QED
        BY <2>5, <3>1, <4>1
    <3>2. CASE i > k
      <4>1. d[i] = b[i - k] /\ i - k \in 1 .. Len(q) - k - 1 /\ (i - k) + k + 1 = i + 1
        BY <2>3, <2>4, <2>6, <3>2
      <4>2. d[i] = q[i + 1]
        BY <2>5, <4>1
      <4>3. QED
        BY <2>3, <3>2, <4>2
    <3>3. QED
      BY <2>3, <3>1, <3>2
  <2>8. PICK t : t = Erase(s, k) /\ t = NewDeque(s, d)
    BY <1>7, <2>2, <2>6, Zenon DEF Erase, NewDeque
  <2>9. t \in StorageType /\ t.deque = d
    BY <1>2, <2>8, NewDequeType
  <2>10. Size(t) = Len(d) /\ Storage(t)
    BY <1>7, <2>3, <2>6, <2>9 DEF Size, Storage
  <2>11. ASSUME NEW o \in 0 .. Size(s) - 2
         PROVE  At(t, o) = At(s, IF o < k THEN o ELSE o + 1)
    <3>1. o + 1 \in 1 .. Len(q) - 1
      BY <2>1, <2>2
    <3>2. d[o + 1] = q[IF o + 1 <= k THEN o + 1 ELSE o + 1 + 1]
      BY <2>7, <3>1
    <3>3. (IF o + 1 <= k THEN o + 1 ELSE o + 1 + 1) = (IF o < k THEN o ELSE o + 1) + 1
      BY <2>3, <3>1
    <3>4. QED
      BY <1>7, <2>2, <2>9, <3>2, <3>3 DEF At
  <2>12. QED
    BY <2>1, <2>2, <2>6, <2>8, <2>10, <2>11, Zenon
<1>8. CASE Kind = "prepared"
  <2>1. n = Capacity /\ Size(s) = s.hi /\ s.hi \in 1 .. n /\ k \in 0 .. s.hi - 1
    BY <1>1, <1>2, <1>3, <1>8, SlotsNat DEF Size
  <2>2. PICK h, m, c : /\ h = s.hi - 1
                       /\ m = IF s.hi = 1 THEN 0 ELSE s.lo
                       /\ c = [i \in 0 .. n - 1 |->
                                 IF i = Index(s.lo, s.hi - 1) THEN NoFrame
                                 ELSE IF i \in Window(s, k, s.hi - 1)
                                      THEN s.cells[Index(i, 1)] ELSE s.cells[i]]
    BY Zenon
  <2>3. h \in Nat /\ m \in Places
    BY <1>1, <1>2, <2>1, <2>2 DEF Places
  <2>4. c \in Cells
    <3>1. ASSUME NEW i \in 0 .. n - 1 PROVE Index(i, 1) \in 0 .. n - 1
      <4>1. i \in 0 .. Slots - 1 /\ 1 \in 0 .. Slots
        BY <1>1
      <4>2. QED
        BY <1>1, <4>1, Wrap
    <3>2. QED
      BY <1>1, <1>2, <2>2, <3>1, Zenon DEF Cells, Places
  <2>5. PICK t : t = Erase(s, k) /\ t = NewEnds(s, c, m, h)
    <3>1. DOMAIN s.cells = 0 .. n - 1
      BY <1>2
    <3>2. QED
      BY <1>2, <1>8, <2>2, <3>1, Zenon DEF Erase, NewEnds, StorageType
  <2>6. t \in StorageType /\ t.cells = c /\ t.lo = m /\ t.hi = h
    BY <1>2, <2>3, <2>4, <2>5, NewEndsType
  <2>7. Storage(t) /\ Size(t) = Size(s) - 1
    BY <1>8, <2>1, <2>2, <2>6 DEF Storage, Size
  <2>8. ASSUME NEW o \in 0 .. Size(s) - 2
        PROVE  At(t, o) = At(s, IF o < k THEN o ELSE o + 1)
    <3>1. /\ m = s.lo /\ o \in 0 .. n - 2 /\ o \in 0 .. n - 1 /\ s.hi - 1 \in 0 .. n - 1
          /\ o # s.hi - 1 /\ o \in 0 .. Slots - 2 /\ s.lo \in Places
      BY <1>1, <1>2, <2>1, <2>2, SMTT(30) DEF Places
    <3>2. PICK i \in 0 .. n - 1 : i = Index(s.lo, o)
      BY <1>4, <3>1
    <3>3. i # Index(s.lo, s.hi - 1)
      BY <1>4, <3>1, <3>2
    <3>4. CASE o < k
      <4>1. i \notin Window(s, k, s.hi - 1)
        <5>1. ASSUME NEW e \in k .. s.hi - 1 PROVE Index(s.lo, e) # i
          <6>1. e \in 0 .. n - 1 /\ e # o
            BY <2>1, <3>1, <3>4
          <6>2. QED
            BY <1>4, <3>1, <3>2, <6>1
        <5>2. QED
          BY <5>1 DEF Window
      <4>2. c[i] = s.cells[i]
        BY <2>2, <3>3, <4>1
      <4>3. QED
        BY <1>8, <2>6, <3>1, <3>2, <3>4, <4>2 DEF At
    <3>5. CASE ~(o < k)
      <4>1. i \in Window(s, k, s.hi - 1)
        <5>1. o \in k .. s.hi - 1
          BY <2>1, <3>1, <3>5
        <5>2. QED
          BY <3>2, <5>1 DEF Window
      <4>2. Index(i, 1) = Index(s.lo, o + 1)
        BY <1>1, <1>2, <3>1, <3>2, NextSlot
      <4>3. c[i] = s.cells[Index(s.lo, o + 1)]
        BY <2>2, <3>3, <4>1, <4>2
      <4>4. QED
        BY <1>8, <2>6, <3>1, <3>2, <3>5, <4>3 DEF At
    <3>6. QED
      BY <3>4, <3>5
  <2>9. QED
    BY <2>5, <2>7, <2>8
<1>9. CASE Kind = "spsc"
  <2>1. /\ n = Capacity + 1 /\ s.hi \in 0 .. n - 1 /\ Size(s) \in 1 .. n - 1
        /\ k \in 0 .. Size(s) - 1
    BY <1>1, <1>2, <1>3, <1>9, SlotsNat DEF Storage
  <2>2. PICK c : c = [i \in 0 .. n - 1 |->
                        IF i = s.lo THEN NoFrame
                        ELSE IF i \in Window(s, 1, k)
                             THEN s.cells[IF i = 0 THEN n - 1 ELSE i - 1]
                             ELSE s.cells[i]]
    BY Zenon
  <2>3. c \in Cells
    <3>1. \A i \in 0 .. n - 1 : (IF i = 0 THEN n - 1 ELSE i - 1) \in 0 .. n - 1
      OBVIOUS
    <3>2. QED
      BY <1>1, <1>2, <2>2, <3>1 DEF Cells, Places
  <2>4. PICK t : t = Erase(s, k) /\ t = NewStart(s, c, l)
    <3>1. DOMAIN s.cells = 0 .. n - 1
      BY <1>2
    <3>2. QED
      BY <1>1, <1>2, <1>5, <1>9, <2>2, <3>1, Zenon DEF Erase, NewStart, StorageType
  <2>5. t \in StorageType /\ t.cells = c /\ t.lo = l /\ t.hi = s.hi
    BY <1>2, <1>5, <2>3, <2>4, NewStartType
  <2>6. Size(t) = Size(s) - 1
    <3>1. Size(s) = IF s.hi >= s.lo THEN s.hi - s.lo ELSE n - s.lo + s.hi
      BY <1>1, <1>9 DEF Size
    <3>2. Size(t) = IF s.hi >= l THEN s.hi - l ELSE n - l + s.hi
      BY <1>1, <1>9, <2>5 DEF Size
    <3>3. s.lo \in 0 .. n - 1 /\ s.hi \in 0 .. n - 1 /\ Size(s) >= 1
      BY <1>2, <2>1
    <3>4. CASE s.lo + 1 < n
      BY <1>5, <3>1, <3>2, <3>3, <3>4
    <3>5. CASE s.lo + 1 = n
      BY <1>5, <3>1, <3>2, <3>3, <3>5
    <3>6. QED
      BY <3>3, <3>4, <3>5
  <2>7. Storage(t)
    BY <1>1, <1>9, <2>1, <2>5 DEF Storage
  <2>8. ASSUME NEW o \in 0 .. Size(s) - 2
        PROVE  At(t, o) = At(s, IF o < k THEN o ELSE o + 1)
    <3>1. /\ o \in 0 .. n - 2 /\ o \in 0 .. n - 1 /\ o + 1 \in 0 .. n - 1 /\ o + 1 # 0
          /\ 0 \in 0 .. n - 1
      BY <2>1
    <3>2. o \in 0 .. Slots - 2 /\ s.lo \in Places
      BY <1>1, <1>2, <3>1 DEF Places
    <3>3. PICK i \in 0 .. n - 1 : i = Index(s.lo, o + 1) /\ i = Index(l, o)
      <4>1. Index(l, o) = Index(s.lo, o + 1)
        BY <1>5, <3>2, Shift, Zenon
      <4>2. QED
        BY <1>4, <3>1, <4>1
    <3>4. i # s.lo
      <4>1. Index(s.lo, 0) = s.lo
        BY <3>2, Here
      <4>2. QED
        BY <1>4, <3>1, <3>3, <4>1
    <3>5. CASE o < k
      <4>1. i \in Window(s, 1, k)
        <5>1. o + 1 \in 1 .. k
          BY <2>1, <3>1, <3>5
        <5>2. QED
          BY <3>3, <5>1 DEF Window
      <4>2. (IF i = 0 THEN n - 1 ELSE i - 1) = Index(s.lo, o)
        <5>1. PICK j \in 0 .. n - 1 : j = Index(s.lo, o)
          BY <1>4, <3>1
        <5>2. i = Index(j, 1)
          BY <3>2, <3>3, <5>1, NextSlot
        <5>3. Index(j, 1) = IF j + 1 < n THEN j + 1 ELSE j + 1 - n
          <6>1. j \in 0 .. Slots - 1 /\ 1 \in 0 .. Slots
            BY <1>1
          <6>2. QED
            BY <1>1, <6>1, Wrap
        <5>4. QED
          BY <5>1, <5>2, <5>3
      <4>3. c[i] = s.cells[Index(s.lo, o)]
        BY <2>2, <3>4, <4>1, <4>2
      <4>4. QED
        BY <1>9, <2>5, <3>3, <3>5, <4>3 DEF At
    <3>6. CASE ~(o < k)
      <4>1. i \notin Window(s, 1, k)
        <5>1. ASSUME NEW e \in 1 .. k PROVE Index(s.lo, e) # i
          <6>1. e \in 0 .. n - 1 /\ e # o + 1
            BY <2>1, <3>1, <3>6
          <6>2. QED
            BY <1>4, <3>1, <3>3, <6>1
        <5>2. QED
          BY <5>1 DEF Window
      <4>2. c[i] = s.cells[i]
        BY <2>2, <3>4, <4>1
      <4>3. QED
        BY <1>9, <2>5, <3>3, <3>6, <4>2 DEF At
    <3>7. QED
      BY <3>5, <3>6
  <2>9. QED
    BY <2>4, <2>6, <2>7, <2>8
<1>10. QED
  BY <1>7, <1>8, <1>9 DEF Chosen, Kinds

(* A cleared storage is empty.                                                    *)
LEMMA EmptiedLemma ==
    ASSUME Chosen, NEW s, Storage(s)
    PROVE  Storage(Emptied(s)) /\ Size(Emptied(s)) = 0
<1>1. PICK t, c : /\ c = [i \in DOMAIN s.cells |-> NoFrame]
                  /\ t = Emptied(s) /\ t = [deque |-> << >>, cells |-> c, lo |-> 0, hi |-> 0]
  BY Zenon DEF Emptied
<1>2. c \in Cells /\ 0 \in Places /\ << >> \in Seq(Cell) /\ Len(<< >>) = 0
  <2>1. s.cells \in Cells
    BY DEF Storage, StorageType
  <2>2. c \in Cells
    BY <1>1, <2>1 DEF Cells, Cell
  <2>3. 0 \in Places
    BY SlotsNat DEF Places
  <2>4. QED
    BY <2>2, <2>3
<1>3. t \in StorageType /\ t.deque = << >> /\ t.lo = 0 /\ t.hi = 0
  BY <1>1, <1>2 DEF StorageType
<1>4. Storage(t)
  BY <1>2, <1>3, SlotsNat DEF Storage
<1>5. Size(t) = 0
  BY <1>2, <1>3 DEF Size, Chosen, Kinds
<1>6. QED
  BY <1>1, <1>4, <1>5

(* The frames of a batch go behind the last one in their order.                   *)
LEMMA PushBatchLemma ==
    ASSUME Kind = "prepared", NEW s, Storage(s), NEW m \in 1 .. Capacity,
           NEW batch \in [1 .. m -> Frames], Size(s) + m <= Capacity
    PROVE  LET t == PushBatch(s, batch) IN
           /\ Storage(t) /\ Size(t) = Size(s) + m
           /\ \A o \in 0 .. Size(s) - 1 : At(t, o) = At(s, o)
           /\ \A o \in Size(s) .. Size(s) + m - 1 : At(t, o) = batch[o - Size(s) + 1]
<1>1. PICK n \in Nat \ {0} : n = Slots /\ n = Capacity
  BY SlotsNat
<1>2. /\ s.hi \in Nat /\ s.lo \in 0 .. n - 1 /\ s.cells \in [0 .. n - 1 -> Cell]
      /\ s \in StorageType /\ s.lo \in Places
  BY <1>1 DEF Storage, StorageType, Places, Cells
<1>3. Size(s) = s.hi /\ s.hi + m <= n /\ Len(batch) = m /\ DOMAIN batch = 1 .. m
  BY <1>1, <1>2 DEF Size
<1>4. PICK c, h : /\ h = s.hi + m
                  /\ c = [i \in 0 .. n - 1 |->
                            LET k == Index(i, Slots - s.lo) - s.hi + 1
                            IN  IF k \in 1 .. m THEN batch[k] ELSE s.cells[i]]
  BY Zenon
<1>5. c \in Cells /\ h \in Nat
  BY <1>1, <1>2, <1>4, SMTT(30) DEF Cells, Places, Cell
<1>6. PICK t : t = PushBatch(s, batch) /\ t = NewEnd(s, c, h)
  <2>1. DOMAIN s.cells = 0 .. n - 1
    BY <1>2
  <2>2. QED
    BY <1>2, <1>3, <1>4, <2>1, Zenon DEF PushBatch, NewEnd, StorageType
<1>7. t \in StorageType /\ t.cells = c /\ t.lo = s.lo /\ t.hi = h
  <2>1. s \in StorageType
    BY <1>2
  <2>2. QED
    BY <1>5, <1>6, <2>1, NewEndType
<1>8. Storage(t) /\ Size(t) = Size(s) + m
  BY <1>1, <1>2, <1>3, <1>4, <1>7 DEF Storage, Size
<1>9. ASSUME NEW o \in 0 .. s.hi + m - 1
      PROVE  At(t, o) = IF o < s.hi THEN At(s, o) ELSE batch[o - s.hi + 1]
  <2>1. o \in 0 .. n - 1 /\ o \in Places /\ o \in 0 .. Slots /\ s.lo \in 0 .. Slots - 1
    BY <1>1, <1>2, <1>3 DEF Places
  <2>2. PICK i \in 0 .. n - 1 : i = Index(s.lo, o)
    BY <1>1, <2>1, Wrap, Zenon
  <2>3. Index(i, Slots - s.lo) = o
    BY <1>2, <2>1, <2>2, Back
  <2>4. At(t, o) = c[i] /\ At(s, o) = s.cells[i]
    BY <1>7, <2>2 DEF At
  <2>5. c[i] = IF o - s.hi + 1 \in 1 .. m THEN batch[o - s.hi + 1] ELSE s.cells[i]
    BY <1>4, <2>2, <2>3
  <2>6. o - s.hi + 1 \in 1 .. m <=> ~(o < s.hi)
    <3>1. s.hi \in Nat
      BY <1>2
    <3>2. QED
      BY <3>1
  <2>7. QED
    BY <2>4, <2>5, <2>6
<1>10. QED
  <2>1. ASSUME NEW o \in 0 .. Size(s) - 1 PROVE At(t, o) = At(s, o)
    <3>1. o \in 0 .. s.hi + m - 1 /\ o < s.hi
      BY <1>2, <1>3
    <3>2. QED
      BY <1>9, <3>1
  <2>2. \A o \in Size(s) .. Size(s) + m - 1 : At(t, o) = batch[o - Size(s) + 1]
    BY <1>2, <1>3, <1>9
  <2>3. QED
    BY <1>6, <1>8, <2>1, <2>2

-----------------------------------------------------------------------------
(* The content of the queue.                                               *)

(* The content is a sequence of frames.                                          *)
LEMMA ContentType ==
    ASSUME Chosen, NEW s, Storage(s)
    PROVE  /\ Content(s) \in Seq(Cell) /\ Len(Content(s)) = Size(s)
           /\ \A i \in 1 .. Size(s) : Content(s)[i] = At(s, i - 1)
<1>1. Size(s) \in 0 .. Capacity
  BY Sizes
<1>2. ASSUME NEW i \in 1 .. Size(s) PROVE At(s, i - 1) \in Cell
  <2>1. CASE Kind = "deque"
    <3>1. s.deque \in Seq(Cell) /\ Len(s.deque) = Size(s)
      BY <2>1 DEF Storage, StorageType, Size
    <3>2. QED
      BY <1>1, <2>1, <3>1 DEF At
  <2>2. CASE Kind # "deque"
    <3>1. s.lo \in 0 .. Slots - 1 /\ s.cells \in [0 .. Slots - 1 -> Cell]
      BY DEF Storage, StorageType, Places, Cells
    <3>2. i - 1 \in 0 .. Slots
      BY <1>1, SlotsNat
    <3>3. Index(s.lo, i - 1) \in 0 .. Slots - 1
      BY <3>1, <3>2, Wrap
    <3>4. QED
      BY <2>2, <3>1, <3>3, Zenon DEF At
  <2>3. QED
    BY <2>1, <2>2
<1>3. Content(s) \in [1 .. Size(s) -> Cell]
  BY <1>2 DEF Content
<1>4. Content(s) \in Seq(Cell) /\ Len(Content(s)) = Size(s)
  BY <1>1, <1>3
<1>5. QED
  BY <1>4, Zenon DEF Content

(* Sequences with the same elements are equal.                                    *)
LEMMA SameSeq ==
    ASSUME NEW u \in Seq(Cell), NEW v \in Seq(Cell), Len(u) = Len(v),
           \A i \in 1 .. Len(u) : u[i] = v[i]
    PROVE  u = v
  OBVIOUS

(* An element of a concatenation is one of the first sequence or of the second.   *)
LEMMA Concatenated ==
    ASSUME NEW v \in Seq(Cell), NEW b \in Seq(Cell), NEW i \in 1 .. Len(v) + Len(b)
    PROVE  (v \o b)[i] = IF i <= Len(v) THEN v[i] ELSE b[i - Len(v)]
  OBVIOUS

(* What is left without the first element is the tail.                             *)
LEMMA WithoutFirst ==
    ASSUME NEW v \in Seq(Cell), v # << >>
    PROVE  Fifo!Without(v, 1) = Tail(v)
<1>1. PICK a, b : a = SubSeq(v, 1, 0) /\ b = SubSeq(v, 2, Len(v))
  BY Zenon
<1>2. a = << >>
  BY <1>1
<1>3. b \in Seq(Cell) /\ Len(b) = Len(v) - 1
  <2>1. Len(v) \in Nat /\ Len(v) >= 1
    OBVIOUS
  <2>2. SubSeq(v, 2, Len(v)) \in Seq(Cell)
    BY <2>1
  <2>3. Len(SubSeq(v, 2, Len(v))) = Len(v) - 1
    <3>1. PICK n \in Nat : n = Len(v) /\ n >= 1
      BY <2>1
    <3>2. PICK k \in 0 .. n - 1 : k = 0
      BY <3>1
    <3>3. Len(SubSeq(v, k + 2, n)) = n - k - 1
      BY <3>1
    <3>4. QED
      BY <3>1, <3>2, <3>3
  <2>4. QED
    BY <1>1, <2>2, <2>3
<1>4. Tail(v) \in Seq(Cell) /\ Len(Tail(v)) = Len(v) - 1
  OBVIOUS
<1>5. \A i \in 1 .. Len(b) : b[i] = Tail(v)[i]
  BY <1>1, <1>3
<1>6. b = Tail(v)
  BY <1>3, <1>4, <1>5, SameSeq
<1>7. a \o b = b
  BY <1>2, <1>3
<1>8. QED
  BY <1>1, <1>6, <1>7 DEF Fifo!Without

(* Pushing appends to the content.                                                *)
LEMMA PushContent ==
    ASSUME Chosen, NEW s, Storage(s), ~Full(s), NEW f \in Frames
    PROVE  Content(PushBack(s, f)) = Append(Content(s), f)
<1>1. PICK t : /\ t = PushBack(s, f) /\ Storage(t) /\ Size(t) = Size(s) + 1
               /\ \A o \in 0 .. Size(s) - 1 : At(t, o) = At(s, o)
               /\ At(t, Size(s)) = f
  BY PushBackLemma
<1>2. PICK u, v : u = Content(t) /\ v = Content(s)
  OBVIOUS
<1>3. /\ u \in Seq(Cell) /\ Len(u) = Size(s) + 1
      /\ \A i \in 1 .. Size(s) + 1 : u[i] = At(t, i - 1)
  BY <1>1, <1>2, ContentType
<1>4. /\ v \in Seq(Cell) /\ Len(v) = Size(s) /\ Size(s) \in Nat
      /\ \A i \in 1 .. Size(s) : v[i] = At(s, i - 1)
  BY <1>2, ContentType, Sizes
<1>5. PICK w \in Seq(Cell) : w = Append(v, f) /\ Len(w) = Size(s) + 1
  <2>1. f \in Cell
    BY DEF Cell
  <2>2. Append(v, f) \in Seq(Cell) /\ Len(Append(v, f)) = Len(v) + 1
    BY <1>4, <2>1
  <2>3. QED
    BY <1>4, <2>2, Zenon
<1>6. ASSUME NEW i \in 1 .. Size(s) + 1 PROVE u[i] = w[i]
  <2>1. CASE i \in 1 .. Size(s)
    <3>1. i - 1 \in 0 .. Size(s) - 1
      BY <1>4, <2>1
    <3>2. u[i] = At(s, i - 1)
      BY <1>1, <1>3, <3>1
    <3>3. w[i] = v[i]
      BY <1>4, <1>5, <2>1
    <3>4. QED
      BY <1>4, <2>1, <3>2, <3>3
  <2>2. CASE i = Size(s) + 1
    <3>1. u[i] = f
      BY <1>1, <1>3, <1>4, <2>2
    <3>2. w[i] = f
      BY <1>4, <1>5, <2>2
    <3>3. QED
      BY <3>1, <3>2
  <2>3. QED
    BY <1>4, <2>1, <2>2
<1>7. u = w
  BY <1>3, <1>5, <1>6, SameSeq
<1>8. QED
  BY <1>1, <1>2, <1>5, <1>7

(* Popping takes the head of the content.                                          *)
LEMMA PopContent ==
    ASSUME Chosen, NEW s, Storage(s), ~Empty(s)
    PROVE  Content(s) # << >> /\ Content(PopFront(s)) = Tail(Content(s))
<1>1. PICK t : /\ t = PopFront(s) /\ Storage(t) /\ Size(t) = Size(s) - 1
               /\ \A o \in 0 .. Size(s) - 2 : At(t, o) = At(s, o + 1)
  BY PopFrontLemma
<1>2. PICK u, v : u = Content(t) /\ v = Content(s)
  OBVIOUS
<1>3. /\ u \in Seq(Cell) /\ Len(u) = Size(s) - 1
      /\ \A i \in 1 .. Size(s) - 1 : u[i] = At(t, i - 1)
  BY <1>1, <1>2, ContentType
<1>4. /\ v \in Seq(Cell) /\ Len(v) = Size(s) /\ Size(s) \in Nat /\ Size(s) > 0
      /\ \A i \in 1 .. Size(s) : v[i] = At(s, i - 1)
  BY <1>2, ContentType, Sizes
<1>5. v # << >> /\ Tail(v) \in Seq(Cell) /\ Len(Tail(v)) = Size(s) - 1
  BY <1>4
<1>6. ASSUME NEW i \in 1 .. Size(s) - 1 PROVE u[i] = Tail(v)[i]
  <2>1. i - 1 \in 0 .. Size(s) - 2 /\ i + 1 \in 1 .. Size(s) /\ (i - 1) + 1 = (i + 1) - 1
    BY <1>4
  <2>2. u[i] = At(s, (i + 1) - 1)
    BY <1>1, <1>3, <2>1
  <2>3. Tail(v)[i] = v[i + 1]
    BY <1>4, <1>5
  <2>4. QED
    BY <1>4, <2>1, <2>2, <2>3
<1>7. u = Tail(v)
  BY <1>3, <1>5, <1>6, SameSeq
<1>8. QED
  BY <1>1, <1>2, <1>5, <1>7

(* Erasing takes one frame out of the content.                                      *)
LEMMA EraseContent ==
    ASSUME Chosen, NEW s, Storage(s), NEW k \in 0 .. Size(s) - 1
    PROVE  Content(Erase(s, k)) = Fifo!Without(Content(s), k + 1)
<1>1. PICK t : /\ t = Erase(s, k) /\ Storage(t) /\ Size(t) = Size(s) - 1
               /\ \A o \in 0 .. Size(s) - 2 : At(t, o) = At(s, IF o < k THEN o ELSE o + 1)
  BY EraseLemma
<1>2. PICK u, v : u = Content(t) /\ v = Content(s)
  OBVIOUS
<1>3. /\ u \in Seq(Cell) /\ Len(u) = Size(s) - 1
      /\ \A i \in 1 .. Size(s) - 1 : u[i] = At(t, i - 1)
  BY <1>1, <1>2, ContentType
<1>4. /\ v \in Seq(Cell) /\ Len(v) = Size(s) /\ Size(s) \in Nat
      /\ \A i \in 1 .. Size(s) : v[i] = At(s, i - 1)
  BY <1>2, ContentType, Sizes
<1>5. PICK a, b, n : a = SubSeq(v, 1, k) /\ b = SubSeq(v, k + 2, Len(v)) /\ n = Size(s)
  BY Zenon
<1>6. n \in Nat /\ Len(v) = n /\ k \in 0 .. n - 1 /\ v \in Seq(Cell)
  BY <1>4, <1>5
<1>7. /\ a \in Seq(Cell) /\ Len(a) = k
      /\ b \in Seq(Cell) /\ Len(b) = n - k - 1
  <2>1. PICK S : S = Cell
    BY Zenon
  <2>2. v \in Seq(S) /\ k \in 0 .. Len(v) - 1 /\ Len(v) = n
    BY <1>6, <2>1
  <2>3. a \in Seq(S) /\ Len(a) = k
    BY <1>5, <2>2
  <2>4. b \in Seq(S) /\ Len(b) = n - k - 1
    BY <1>5, <2>2
  <2>5. QED
    BY <2>1, <2>3, <2>4, Zenon
<1>8. \A i \in 1 .. k : a[i] = v[i]
  BY <1>5, <1>6
<1>9. \A i \in 1 .. n - k - 1 : b[i] = v[i + k + 1]
  BY <1>5, <1>6
<1>10. PICK w \in Seq(Cell) : w = a \o b /\ Len(w) = n - 1
  <2>1. a \o b \in Seq(Cell) /\ Len(a \o b) = Len(a) + Len(b)
    BY <1>7
  <2>2. Len(a) + Len(b) = n - 1
    BY <1>6, <1>7
  <2>3. QED
    BY <2>1, <2>2, Zenon
<1>11. ASSUME NEW i \in 1 .. n - 1 PROVE u[i] = w[i]
  <2>1. i - 1 \in 0 .. Size(s) - 2
    BY <1>5, <1>6
  <2>2. u[i] = At(s, IF i - 1 < k THEN i - 1 ELSE (i - 1) + 1)
    BY <1>1, <1>3, <1>5, <2>1
  <2>3. CASE i <= k
    <3>1. w[i] = a[i] /\ i \in 1 .. k /\ i - 1 < k
      BY <1>6, <1>7, <1>10, <2>3
    <3>2. w[i] = v[i] /\ i \in 1 .. n
      BY <1>6, <1>8, <3>1
    <3>3. QED
      BY <1>4, <1>5, <2>2, <3>1, <3>2
  <2>4. CASE i > k
    <3>1. /\ w[i] = b[i - k] /\ i - k \in 1 .. n - k - 1 /\ (i - k) + k + 1 = i + 1
          /\ ~(i - 1 < k) /\ (i - 1) + 1 = (i + 1) - 1 /\ i + 1 \in 1 .. n
      BY <1>6, <1>7, <1>10, <2>4
    <3>2. w[i] = v[i + 1]
      BY <1>9, <3>1
    <3>3. QED
      BY <1>4, <1>5, <2>2, <3>1, <3>2
  <2>5. QED
    BY <1>6, <2>3, <2>4
<1>12. u = w
  BY <1>3, <1>5, <1>10, <1>11, SameSeq, Zenon
<1>13. w = Fifo!Without(v, k + 1)
  <2>1. (k + 1) - 1 = k /\ (k + 1) + 1 = k + 2
    BY <1>6
  <2>2. QED
    BY <1>5, <1>10, <2>1, Zenon DEF Fifo!Without
<1>14. QED
  BY <1>1, <1>2, <1>12, <1>13

(* A cleared queue has no content.                                                *)
LEMMA EmptiedContent ==
    ASSUME Chosen, NEW s, Storage(s)
    PROVE  Content(Emptied(s)) = << >>
<1>1. Content(Emptied(s)) \in Seq(Cell) /\ Len(Content(Emptied(s))) = 0
  BY EmptiedLemma, ContentType
<1>2. QED
  BY <1>1

(* A batch is concatenated to the content.                                        *)
LEMMA BatchContent ==
    ASSUME Kind = "prepared", NEW s, Storage(s), NEW m \in 1 .. Capacity,
           NEW batch \in [1 .. m -> Frames], Size(s) + m <= Capacity
    PROVE  Content(PushBatch(s, batch)) = Content(s) \o batch
<1>0. Chosen
  BY DEF Chosen, Kinds
<1>1. PICK t : /\ t = PushBatch(s, batch) /\ Storage(t) /\ Size(t) = Size(s) + m
               /\ \A o \in 0 .. Size(s) - 1 : At(t, o) = At(s, o)
               /\ \A o \in Size(s) .. Size(s) + m - 1 : At(t, o) = batch[o - Size(s) + 1]
  BY PushBatchLemma
<1>2. PICK u, v, n : u = Content(t) /\ v = Content(s) /\ n = Size(s)
  OBVIOUS
<1>3. /\ u \in Seq(Cell) /\ Len(u) = n + m
      /\ \A i \in 1 .. n + m : u[i] = At(t, i - 1)
  BY <1>0, <1>1, <1>2, ContentType
<1>4. /\ v \in Seq(Cell) /\ Len(v) = n /\ n \in Nat
      /\ \A i \in 1 .. n : v[i] = At(s, i - 1)
  BY <1>0, <1>2, ContentType, Sizes
<1>5. PICK b \in Seq(Cell) : b = batch /\ Len(b) = m
  <2>1. batch \in Seq(Cell) /\ Len(batch) = m
    BY DEF Cell
  <2>2. QED
    BY <2>1
<1>6. PICK w \in Seq(Cell) : w = v \o b /\ Len(w) = n + m
  <2>1. v \o b \in Seq(Cell) /\ Len(v \o b) = Len(v) + Len(b)
    BY <1>4, <1>5, SMTT(30)
  <2>2. QED
    BY <1>4, <1>5, <2>1, Zenon
<1>7. ASSUME NEW i \in 1 .. n + m PROVE u[i] = w[i]
  <2>1. CASE i <= n
    <3>1. i - 1 \in 0 .. n - 1 /\ i \in 1 .. n /\ w[i] = v[i]
      BY <1>4, <1>5, <1>6, <2>1
    <3>2. QED
      BY <1>1, <1>2, <1>3, <1>4, <3>1
  <2>2. CASE i > n
    <3>1. i - 1 \in n .. n + m - 1 /\ w[i] = b[i - n] /\ (i - 1) - n + 1 = i - n
      <4>1. n \in Nat /\ Len(v) = n /\ Len(b) = m /\ v \in Seq(Cell) /\ b \in Seq(Cell)
        BY <1>4, <1>5
      <4>2. i - 1 \in n .. n + m - 1 /\ (i - 1) - n + 1 = i - n
        BY <2>2, <4>1
      <4>3. w[i] = b[i - n]
        <5>1. i \in 1 .. Len(v) + Len(b) /\ ~(i <= Len(v)) /\ v \in Seq(Cell) /\ b \in Seq(Cell)
          BY <2>2, <4>1
        <5>2. (v \o b)[i] = b[i - Len(v)]
          BY <5>1, Concatenated, Zenon
        <5>3. QED
          BY <1>6, <4>1, <5>2
      <4>4. QED
        BY <4>2, <4>3
    <3>2. QED
      BY <1>1, <1>2, <1>3, <1>5, <3>1
  <2>3. QED
    BY <1>4, <2>1, <2>2
<1>8. u = w
  BY <1>3, <1>6, <1>7, SameSeq, Zenon
<1>9. QED
  BY <1>1, <1>2, <1>5, <1>6, <1>8
-----------------------------------------------------------------------------
(* The queue with its threads.                                             *)

(* A producer is inside push() only where producers use it, and holds a frame as   *)
(* long as it waits or is about to look at the queue.                              *)
Pushing ==
    /\ prod \in [Producers -> ProducerState] /\ frame \in [Producers -> Cell]
    /\ \A p \in Producers :
          /\ prod[p] \in {"try", "check", "asleep"} => frame[p] \in Frames
          /\ prod[p] # "idle" => setup.direct

TypeInv ==
    /\ setup \in Setups /\ Storage(store)
    /\ closed \in BOOLEAN /\ aborted \in BOOLEAN /\ announce \in BOOLEAN
    /\ Pushing /\ cons \in [Consumers -> ConsumerState]

(* The setup of a queue has one of the three storages and a policy.                *)
LEMMA SetupChosen == ASSUME TypeInv PROVE Chosen /\ setup.policy \in Policies
BY DEF TypeInv, Chosen, SetupType, Kind

(* The setup never changes, so neither does what is computed from it.              *)
LEMMA Frozen ==
    ASSUME UNCHANGED setup
    PROVE  /\ Storage(store)' <=> Storage(store')
           /\ Size(store)' = Size(store') /\ Content(store)' = Content(store')
           /\ Full(store)' <=> Full(store')
           /\ Empty(store)' <=> Empty(store')
<1>1. Slots' = Slots /\ Kind' = Kind
  BY DEF Slots, Kind
<1>2. \A i, o : Index(i, o) = (i + o) % Slots
  BY DEF Index
<1>3. Size(store)' = Size(store')
  BY <1>1 DEF Size
<1>4. Storage(store)' <=> Storage(store')
  BY <1>1 DEF Storage, StorageType, Cells, Places, Cell
<1>5. Content(store)' = Content(store')
  BY <1>1, <1>3 DEF Content, At, Index
<1>6. Full(store)' <=> Full(store')
  BY <1>1, <1>3 DEF Full, Index
<1>7. Empty(store)' <=> Empty(store')
  BY <1>1, <1>3 DEF Empty
<1>8. QED
  BY <1>3, <1>4, <1>5, <1>6, <1>7

(* The storage a step leaves alone, with the setup that never changes.             *)
LEMMA StoreStays ==
    ASSUME TypeInv, UNCHANGED <<setup, store>>
    PROVE  /\ Storage(store)' /\ Size(store)' = Size(store)
           /\ Content(store)' = Content(store)
           /\ Full(store)' <=> Full(store)
           /\ Empty(store)' <=> Empty(store)
<1>1. setup' = setup /\ store' = store /\ Storage(store)
  BY DEF TypeInv
<1>2. QED
  BY <1>1, Frozen

(* A full queue that makes room gives up one frame.                                 *)
LEMMA RoomMade ==
    ASSUME TypeInv, NEW f \in Frames, NEW s \in MakeRoom(f)
    PROVE  /\ Storage(s) /\ ~Full(s)
           /\ Size(s) = IF Full(store) THEN Size(store) - 1 ELSE Size(store)
           /\ ~Full(store) => s = store
           /\ Full(store) => \E i \in Fifo!Victims(f) :
                                Content(s) = Fifo!Without(Content(store), i)
<1>1. Chosen /\ Storage(store)
  BY SetupChosen DEF TypeInv
<1>2. Size(store) \in 0 .. Capacity /\ (Full(store) <=> Size(store) = Capacity)
  BY <1>1, Sizes
<1>3. CASE ~Full(store)
  BY <1>1, <1>3 DEF MakeRoom
<1>4. CASE Full(store) /\ setup.policy = "DropOldest"
  <2>1. s = PopFront(store)
    BY <1>4 DEF MakeRoom
  <2>2. ~Empty(store)
    BY <1>1, <1>2, <1>4, Sizes
  <2>3. Storage(s) /\ Size(s) = Size(store) - 1
    BY <1>1, <2>1, <2>2, PopFrontLemma
  <2>4. ~Full(s)
    BY <1>1, <1>2, <1>4, <2>3, Sizes
  <2>5. Content(store) # << >> /\ Content(s) = Tail(Content(store))
    BY <1>1, <2>1, <2>2, PopContent
  <2>6. Content(store) \in Seq(Cell) /\ Len(Content(store)) = Size(store)
    BY <1>1, ContentType
  <2>7. Content(s) = Fifo!Without(Content(store), 1)
    BY <2>5, <2>6, WithoutFirst
  <2>8. 1 \in Fifo!Victims(f)
    BY <1>2, <1>4, <2>6 DEF Fifo!Victims
  <2>9. QED
    BY <1>4, <2>3, <2>4, <2>7, <2>8
<1>5. CASE Full(store) /\ setup.policy = "DropNonKeyFrame" /\ f \in KeyFrames
  <2>1. PICK k \in FirstNonKey(store) : s = Erase(store, k)
    BY <1>5 DEF MakeRoom
  <2>2. /\ k \in 0 .. Size(store) - 1 /\ At(store, k) \notin KeyFrames
        /\ \A e \in 0 .. k - 1 : At(store, e) \in KeyFrames
    BY <2>1 DEF FirstNonKey
  <2>3. Storage(s) /\ Size(s) = Size(store) - 1
    BY <1>1, <2>1, <2>2, EraseLemma
  <2>4. ~Full(s)
    BY <1>1, <1>2, <1>5, <2>3, Sizes
  <2>5. Content(s) = Fifo!Without(Content(store), k + 1)
    BY <1>1, <2>1, <2>2, EraseContent
  <2>6. /\ Len(Content(store)) = Size(store)
        /\ \A i \in 1 .. Size(store) : Content(store)[i] = At(store, i - 1)
    BY <1>1, ContentType
  <2>7. k + 1 \in Fifo!Victims(f)
    <3>1. k + 1 \in 1 .. Size(store) /\ (k + 1) - 1 = k
      BY <1>2, <2>2
    <3>2. Content(store)[k + 1] \notin KeyFrames
      BY <2>2, <2>6, <3>1
    <3>3. ASSUME NEW j \in 1 .. k PROVE Content(store)[j] \in KeyFrames
      <4>1. j \in 1 .. Size(store) /\ j - 1 \in 0 .. k - 1
        BY <1>2, <2>2
      <4>2. QED
        BY <2>2, <2>6, <4>1
    <3>4. QED
      BY <1>5, <2>6, <3>1, <3>2, <3>3 DEF Fifo!Victims
  <2>8. QED
    BY <1>5, <2>3, <2>4, <2>5, <2>7
<1>6. QED
  BY <1>3, <1>4, <1>5 DEF MakeRoom

(* A frame that is stored is behind all the others.                                 *)
LEMMA StoredFrame ==
    ASSUME TypeInv, NEW p \in Producers, NEW f \in Frames, NEW u, Store(p, f, u)
    PROVE  /\ Storage(store)' /\ UNCHANGED setup
           /\ Size(store)' = IF Full(store) THEN Size(store) ELSE Size(store) + 1
           /\ ~closed => Fifo!Next
<1>1. Chosen /\ Storage(store)
  BY SetupChosen DEF TypeInv
<1>2. PICK s \in MakeRoom(f) : store' = PushBack(s, f)
  BY DEF Store
<1>3. /\ Storage(s) /\ ~Full(s)
      /\ Size(s) = IF Full(store) THEN Size(store) - 1 ELSE Size(store)
      /\ ~Full(store) => s = store
      /\ Full(store) => \E i \in Fifo!Victims(f) :
                                Content(s) = Fifo!Without(Content(store), i)
  BY RoomMade
<1>4. UNCHANGED <<setup, closed, aborted>>
  BY DEF Store
<1>5. Storage(store') /\ Size(store') = Size(s) + 1 /\ Content(store') = Append(Content(s), f)
  BY <1>1, <1>2, <1>3, PushBackLemma, PushContent
<1>6. Storage(store)' /\ Size(store)' = Size(s) + 1 /\ Content(store)' = Append(Content(s), f)
  BY <1>4, <1>5, Frozen
<1>7. Size(store) \in 0 .. Capacity /\ (Full(store) <=> Size(store) = Capacity)
  BY <1>1, Sizes
<1>8. Content(store) \in Seq(Cell) /\ Len(Content(store)) = Size(store)
  BY <1>1, ContentType
<1>9. ASSUME ~closed PROVE Fifo!Next
  <2>1. CASE Full(store)
    <3>1. ~Fifo!HasRoom(1)
      BY <1>7, <1>8, <2>1 DEF Fifo!HasRoom
    <3>2. \E i \in Fifo!Victims(f) : Content(store)' = Append(Fifo!Without(Content(store), i), f)
      BY <1>3, <1>6, <2>1
    <3>3. Fifo!AcceptDropping(f)
      BY <1>4, <1>9, <3>1, <3>2 DEF Fifo!AcceptDropping
    <3>4. QED
      BY <3>3 DEF Fifo!Next
  <2>2. CASE ~Full(store)
    <3>1. Len(<<f>>) = 1 /\ Fifo!HasRoom(1)
      BY <1>7, <1>8, <2>2 DEF Fifo!HasRoom
    <3>2. Content(store)' = Content(store) \o <<f>>
      BY <1>3, <1>6, <1>8, <2>2
    <3>3. Fifo!Accept(<<f>>)
      BY <1>4, <1>9, <3>1, <3>2 DEF Fifo!Accept
    <3>4. 1 \in 1 .. Capacity /\ <<f>> \in [1 .. 1 -> Frames]
      OBVIOUS
    <3>5. QED
      BY <3>3, <3>4, Zenon DEF Fifo!Next
  <2>3. QED
    BY <2>1, <2>2
<1>10. Size(store)' = IF Full(store) THEN Size(store) ELSE Size(store) + 1
  BY <1>3, <1>6, <1>7
<1>11. QED
  BY <1>4, <1>6, <1>9, <1>10

(* A frame that is taken was the first.                                             *)
LEMMA TakenFrame ==
    ASSUME TypeInv, NEW c \in Consumers, NEW u, ~Empty(store), Take(c, u)
    PROVE  /\ Storage(store)' /\ UNCHANGED setup /\ Size(store)' = Size(store) - 1
           /\ Fifo!Next
<1>1. Chosen /\ Storage(store)
  BY SetupChosen DEF TypeInv
<1>2. store' = PopFront(store) /\ UNCHANGED <<setup, closed, aborted>>
  BY DEF Take
<1>3. Storage(store') /\ Size(store') = Size(store) - 1
  BY <1>1, <1>2, PopFrontLemma
<1>4. Content(store) # << >> /\ Content(store') = Tail(Content(store))
  BY <1>1, <1>2, PopContent
<1>5. /\ Storage(store)' /\ Size(store)' = Size(store) - 1
      /\ Content(store)' = Tail(Content(store))
  BY <1>2, <1>3, <1>4, Frozen
<1>6. Fifo!Take
  BY <1>2, <1>4, <1>5 DEF Fifo!Take
<1>7. QED
  BY <1>2, <1>5, <1>6 DEF Fifo!Next

(* A producer that moves on.                                                        *)
LEMMA PushingMoves ==
    ASSUME Pushing, NEW p \in Producers, NEW st \in ProducerState, NEW fr \in Cell,
           st \in {"try", "check", "asleep"} => fr \in Frames,
           st # "idle" => setup.direct, UNCHANGED setup,
           prod' = [prod EXCEPT ![p] = st], frame' = [frame EXCEPT ![p] = fr]
    PROVE  Pushing'
  BY DEF Pushing

(* notify_one and notify_all send sleeping producers to look again, nobody else.      *)
LEMMA ProducersWoken ==
    ASSUME Pushing, NEW x, x \in WakeOneProducer(prod) \/ x = WakeProducers(prod)
    PROVE  /\ x \in [Producers -> ProducerState]
           /\ \A p \in Producers : x[p] = prod[p] \/ (prod[p] = "asleep" /\ x[p] = "check")
<1>1. prod \in [Producers -> ProducerState] /\ "check" \in ProducerState
  BY DEF Pushing, ProducerState
<1>2. CASE x \in WakeOneProducer(prod)
  <2>1. x = prod \/ \E p \in Producers : prod[p] = "asleep" /\ x = [prod EXCEPT ![p] = "check"]
    BY <1>2 DEF WakeOneProducer
  <2>2. QED
    BY <1>1, <2>1
<1>3. CASE x = WakeProducers(prod)
  BY <1>1, <1>3 DEF WakeProducers
<1>4. QED
  BY <1>2, <1>3

(* The same for the consumers.                                                        *)
LEMMA ConsumersWoken ==
    ASSUME cons \in [Consumers -> ConsumerState],
           NEW x, x \in WakeOneConsumer(cons) \/ x = WakeConsumers(cons)
    PROVE  /\ x \in [Consumers -> ConsumerState]
           /\ \A c \in Consumers : x[c] = cons[c] \/ (cons[c] = "asleep" /\ x[c] = "check")
<1>1. "check" \in ConsumerState
  BY DEF ConsumerState
<1>2. CASE x \in WakeOneConsumer(cons)
  <2>1. x = cons \/ \E c \in Consumers : cons[c] = "asleep" /\ x = [cons EXCEPT ![c] = "check"]
    BY <1>2 DEF WakeOneConsumer
  <2>2. QED
    BY <1>1, <2>1
<1>3. CASE x = WakeConsumers(cons)
  BY <1>1, <1>3 DEF WakeConsumers
<1>4. QED
  BY <1>2, <1>3

(* Woken producers still hold their frames.                                           *)
LEMMA PushingWoken ==
    ASSUME Pushing, prod' \in WakeOneProducer(prod) \/ prod' = WakeProducers(prod),
           UNCHANGED <<frame, setup>>
    PROVE  Pushing'
<1>1. /\ prod' \in [Producers -> ProducerState]
      /\ \A p \in Producers : prod'[p] = prod[p] \/ (prod[p] = "asleep" /\ prod'[p] = "check")
  BY ProducersWoken
<1>2. QED
  BY <1>1 DEF Pushing

(* What a step that leaves the queue itself alone has to keep.                         *)
LEMMA QueueStays ==
    ASSUME TypeInv, UNCHANGED <<setup, store, closed, aborted>>,
           Pushing', cons' \in [Consumers -> ConsumerState], announce' \in BOOLEAN
    PROVE  TypeInv' /\ UNCHANGED Fifo!fifo
<1>1. Storage(store)' /\ Content(store)' = Content(store)
  BY StoreStays
<1>2. TypeInv'
  BY <1>1 DEF TypeInv
<1>3. QED
  BY <1>1, <1>2 DEF Fifo!fifo

(* The initial states.                                                              *)
LEMMA TypeInit == ASSUME Init PROVE TypeInv /\ Fifo!Init
<1>1. setup \in Setups /\ Chosen /\ setup.policy \in Policies
  BY DEF Init, Chosen, SetupType, Kind
<1>2. PICK c : c = [i \in 0 .. Slots - 1 |-> NoFrame]
  BY Zenon
<1>3. c \in Cells /\ 0 \in Places /\ << >> \in Seq(Cell) /\ Len(<< >>) = 0
  <2>1. c \in Cells
    BY <1>2 DEF Cells, Cell, Places
  <2>2. 0 \in Places
    BY SlotsNat DEF Places
  <2>3. QED
    BY <2>1, <2>2
<1>4. store = [deque |-> << >>, cells |-> c, lo |-> 0, hi |-> 0]
  BY <1>2 DEF Init
<1>5. store \in StorageType /\ store.deque = << >> /\ store.lo = 0 /\ store.hi = 0
  BY <1>3, <1>4 DEF StorageType
<1>6. Storage(store) /\ Size(store) = 0
  <2>1. Storage(store)
    BY <1>3, <1>5, SlotsNat DEF Storage
  <2>2. Size(store) = 0
    BY <1>1, <1>3, <1>5 DEF Size, Chosen, Kinds
  <2>3. QED
    BY <2>1, <2>2
<1>7. Content(store) = << >>
  <2>1. Content(store) \in Seq(Cell) /\ Len(Content(store)) = 0
    BY <1>1, <1>6, ContentType
  <2>2. QED
    BY <2>1
<1>8. Pushing /\ cons \in [Consumers -> ConsumerState]
  BY DEF Init, Pushing, ProducerState, ConsumerState, Cell
<1>9. TypeInv
  BY <1>1, <1>6, <1>8, Zenon DEF TypeInv, Init
<1>10. Fifo!Init
  BY <1>1, <1>7 DEF Fifo!Init, Init, Policies, Fifo!Policies
<1>11. QED
  BY <1>9, <1>10

(* A frame is stored.                                                                *)
LEMMA StoreStep ==
    ASSUME TypeInv, NEW p \in Producers, NEW f \in Frames, NEW u,
           u => setup.direct, Store(p, f, u)
    PROVE  TypeInv' /\ (~closed => Fifo!Next)
<1>1. Storage(store)' /\ setup' = setup /\ (~closed => Fifo!Next)
  BY StoredFrame
<1>2. /\ prod' = [prod EXCEPT ![p] = IF u THEN "signal" ELSE "idle"]
      /\ frame' = [frame EXCEPT ![p] = NoFrame]
      /\ cons' = cons \/ cons' \in WakeOneConsumer(cons)
      /\ UNCHANGED <<closed, aborted, announce>>
  BY DEF Store
<1>3. Pushing /\ cons \in [Consumers -> ConsumerState]
  BY DEF TypeInv
<1>4. Pushing'
  <2>1. NoFrame \in Cell
    BY DEF Cell
  <2>2. PICK st : st = IF u THEN "signal" ELSE "idle"
    OBVIOUS
  <2>3. st \in ProducerState /\ st \notin {"try", "check", "asleep"} /\ (st # "idle" => setup.direct)
    BY <2>2 DEF ProducerState
  <2>4. QED
    BY <1>1, <1>2, <1>3, <2>1, <2>2, <2>3, PushingMoves, Zenon
<1>5. cons' \in [Consumers -> ConsumerState]
  BY <1>2, <1>3, ConsumersWoken
<1>6. TypeInv'
  BY <1>1, <1>2, <1>4, <1>5 DEF TypeInv
<1>7. QED
  BY <1>1, <1>6

(* A frame that does not fit aborts the queue.                                        *)
LEMMA OverflowStep ==
    ASSUME TypeInv, NEW p \in Producers, Full(store), setup.policy = "Abort",
           OverflowAbort(p)
    PROVE  TypeInv' /\ (~closed => Fifo!Next)
<1>1. /\ aborted' = TRUE /\ closed' = TRUE /\ UNCHANGED <<setup, store, announce>>
      /\ frame' = [frame EXCEPT ![p] = NoFrame] /\ cons' = WakeConsumers(cons)
  BY DEF OverflowAbort
<1>2. PICK x : x = WakeProducers(prod) /\ prod' = [x EXCEPT ![p] = "idle"]
  BY Zenon DEF OverflowAbort
<1>3. Pushing /\ cons \in [Consumers -> ConsumerState] /\ announce \in BOOLEAN /\ setup \in Setups
  BY DEF TypeInv
<1>4. /\ x \in [Producers -> ProducerState]
      /\ \A q \in Producers : x[q] = prod[q] \/ (prod[q] = "asleep" /\ x[q] = "check")
  BY <1>2, <1>3, ProducersWoken
<1>5. Pushing'
  <2>1. NoFrame \in Cell /\ "idle" \in ProducerState
    BY DEF Cell, ProducerState
  <2>2. QED
    BY <1>1, <1>2, <1>3, <1>4, <2>1 DEF Pushing
<1>6. cons' \in [Consumers -> ConsumerState]
  BY <1>1, <1>3, ConsumersWoken
<1>7. Storage(store)' /\ Content(store)' = Content(store)
  BY <1>1, StoreStays
<1>8. TypeInv'
  BY <1>1, <1>3, <1>5, <1>6, <1>7 DEF TypeInv
<1>9. ASSUME ~closed PROVE Fifo!OverflowAborts
  <2>1. Size(store) = Capacity /\ Len(Content(store)) = Size(store)
    BY SetupChosen, Sizes, ContentType DEF TypeInv
  <2>2. QED
    BY <1>1, <1>7, <1>9, <2>1 DEF Fifo!OverflowAborts, Fifo!HasRoom
<1>10. QED
  BY <1>8, <1>9 DEF Fifo!Next

(* A producer that returns without having stored anything.                            *)
LEMMA ReturnsStep ==
    ASSUME TypeInv, NEW p \in Producers, Returns(p)
    PROVE  TypeInv' /\ UNCHANGED Fifo!fifo
<1>1. /\ prod' = [prod EXCEPT ![p] = "idle"] /\ frame' = [frame EXCEPT ![p] = NoFrame]
      /\ UNCHANGED <<setup, store, closed, aborted, cons, announce>>
  BY DEF Returns
<1>2. "idle" \in ProducerState /\ NoFrame \in Cell /\ Pushing
  BY DEF ProducerState, Cell, TypeInv
<1>3. Pushing'
  BY <1>1, <1>2, PushingMoves, Zenon
<1>4. cons' \in [Consumers -> ConsumerState] /\ announce' \in BOOLEAN
  BY <1>1 DEF TypeInv
<1>5. QED
  BY <1>1, <1>3, <1>4, QueueStays

(* A producer inside push() that goes to another place of it.                          *)
LEMMA WaitsStep ==
    ASSUME TypeInv, NEW p \in Producers, NEW st \in ProducerState,
           prod[p] \in {"try", "check"}, WaitsAt(p, st)
    PROVE  TypeInv' /\ UNCHANGED Fifo!fifo
<1>1. prod' = [prod EXCEPT ![p] = st] /\ UNCHANGED <<setup, store, closed, aborted, frame, cons, announce>>
  BY DEF WaitsAt
<1>2. Pushing /\ frame[p] \in Frames /\ setup.direct
  BY DEF TypeInv, Pushing
<1>3. Pushing'
  BY <1>1, <1>2 DEF Pushing
<1>4. cons' \in [Consumers -> ConsumerState] /\ announce' \in BOOLEAN
  BY <1>1 DEF TypeInv
<1>5. QED
  BY <1>1, <1>3, <1>4, QueueStays

(* MediaBlockingQueue::push under DropNonKeyFrame stores a key frame into a queue that *)
(* was closed while it waited; every channel pushes through pushOutcome instead.        *)
QueuesUsed ==
    \A s \in Setups : s.direct /\ s.kind # "spsc" => s.policy # "DropNonKeyFrame"

(* The producers.                                                                       *)
LEMMA ProducerStep ==
    ASSUME TypeInv, NEW p \in Producers, Produce(p)
    PROVE  TypeInv' /\ (QueuesUsed => Fifo!Next \/ UNCHANGED Fifo!fifo)
<1>1. Pushing
  BY DEF TypeInv, Pushing
<1>2. CASE TryPush(p)
  <2>1. prod[p] = "try" /\ frame[p] \in Frames /\ setup.direct
    BY <1>1, <1>2 DEF TryPush, Pushing
  <2>2. CASE Returns(p)
    BY <2>2, ReturnsStep
  <2>3. CASE ~aborted /\ ~closed /\ Store(p, frame[p], Kind # "spsc")
    BY <2>1, <2>3, StoreStep
  <2>4. CASE ~closed /\ Full(store) /\ setup.policy = "Abort" /\ OverflowAbort(p)
    BY <2>4, OverflowStep
  <2>5. CASE WaitsAt(p, IF Kind = "spsc" THEN "check" ELSE "asleep")
    <3>1. (IF Kind = "spsc" THEN "check" ELSE "asleep") \in ProducerState
      BY DEF ProducerState
    <3>2. QED
      BY <2>1, <2>5, <3>1, WaitsStep
  <2>6. QED
    BY <1>2, <2>2, <2>3, <2>4, <2>5, Zenon DEF TryPush
<1>3. CASE CheckPush(p)
  <2>1. "asleep" \in ProducerState /\ prod[p] = "check" /\ WaitsAt(p, "asleep")
    BY <1>3 DEF ProducerState, CheckPush
  <2>2. QED
    BY <2>1, WaitsStep
<1>4. CASE RingPushResumes(p)
  <2>1. "try" \in ProducerState /\ prod[p] = "check" /\ WaitsAt(p, "try")
    BY <1>4 DEF ProducerState, RingPushResumes
  <2>2. QED
    BY <2>1, WaitsStep
<1>5. CASE BlockingPushResumes(p)
  <2>1. prod[p] = "check" /\ frame[p] \in Frames /\ setup.direct /\ Kind # "spsc"
    BY <1>1, <1>5 DEF BlockingPushResumes, Pushing
  <2>2. CASE Returns(p)
    BY <2>2, ReturnsStep
  <2>3. CASE WaitsAt(p, "spins")
    <3>1. "spins" \in ProducerState
      BY DEF ProducerState
    <3>2. QED
      BY <2>1, <2>3, <3>1, WaitsStep
  <2>4. CASE Store(p, frame[p], TRUE) /\ (setup.policy # "DropNonKeyFrame" => ~closed)
    <3>1. TypeInv' /\ (~closed => Fifo!Next)
      BY <2>1, <2>4, StoreStep, Zenon
    <3>2. QueuesUsed => setup.policy # "DropNonKeyFrame"
      BY <2>1 DEF QueuesUsed, TypeInv, Kind
    <3>3. QED
      BY <2>4, <3>1, <3>2
  <2>5. QED
    BY <1>5, <2>2, <2>3, <2>4, Zenon DEF BlockingPushResumes
<1>6. CASE SignalPushed(p)
  <2>1. /\ prod' = [prod EXCEPT ![p] = "idle"] /\ cons' \in WakeOneConsumer(cons)
        /\ UNCHANGED <<setup, store, closed, aborted, frame, announce>>
    BY <1>6 DEF SignalPushed
  <2>2. "idle" \in ProducerState
    BY DEF ProducerState
  <2>3. Pushing'
    BY <1>1, <2>1, <2>2 DEF Pushing
  <2>4. cons' \in [Consumers -> ConsumerState] /\ announce' \in BOOLEAN
    BY <2>1, ConsumersWoken DEF TypeInv
  <2>5. QED
    BY <2>1, <2>3, <2>4, QueueStays
<1>7. QED
  BY <1>2, <1>3, <1>4, <1>5, <1>6 DEF Produce

(* A frame is taken.                                                                 *)
LEMMA TakeStep ==
    ASSUME TypeInv, NEW c \in Consumers, NEW u, ~Empty(store), Take(c, u)
    PROVE  TypeInv' /\ Fifo!Next
<1>1. Storage(store)' /\ setup' = setup /\ Fifo!Next
  BY TakenFrame
<1>2. /\ cons' = [cons EXCEPT ![c] = IF u THEN "signal" ELSE "idle"]
      /\ prod' = prod \/ prod' \in WakeOneProducer(prod)
      /\ UNCHANGED <<closed, aborted, frame, announce>>
  BY DEF Take
<1>3. Pushing /\ cons \in [Consumers -> ConsumerState]
  BY DEF TypeInv
<1>4. Pushing'
  <2>1. CASE prod' = prod
    BY <1>1, <1>2, <1>3, <2>1 DEF Pushing
  <2>2. CASE prod' \in WakeOneProducer(prod)
    BY <1>1, <1>2, <1>3, <2>2, PushingWoken
  <2>3. QED
    BY <1>2, <2>1, <2>2
<1>5. cons' \in [Consumers -> ConsumerState]
  <2>1. (IF u THEN "signal" ELSE "idle") \in ConsumerState
    BY DEF ConsumerState
  <2>2. QED
    BY <1>2, <1>3, <2>1
<1>6. TypeInv'
  BY <1>1, <1>2, <1>4, <1>5 DEF TypeInv
<1>7. QED
  BY <1>1, <1>6

(* A consumer that goes on without taking anything.                                   *)
LEMMA GoesStep ==
    ASSUME TypeInv, NEW c \in Consumers, NEW st \in ConsumerState, ConsumerGoes(c, st)
    PROVE  TypeInv' /\ UNCHANGED Fifo!fifo
<1>1. cons' = [cons EXCEPT ![c] = st] /\ UNCHANGED <<setup, store, closed, aborted, prod, frame, announce>>
  BY DEF ConsumerGoes
<1>2. Pushing' /\ announce' \in BOOLEAN /\ cons' \in [Consumers -> ConsumerState]
  BY <1>1 DEF TypeInv, Pushing
<1>3. QED
  BY <1>1, <1>2, QueueStays

(* The consumers.                                                                      *)
LEMMA ConsumerStep ==
    ASSUME TypeInv, NEW c \in Consumers, Consume(c) \/ BeginPop(c)
    PROVE  TypeInv' /\ (Fifo!Next \/ UNCHANGED Fifo!fifo)
<1>1. CASE \E u \in BOOLEAN : ~Empty(store) /\ Take(c, u)
  BY <1>1, TakeStep
<1>2. CASE \E st \in ConsumerState : ConsumerGoes(c, st)
  BY <1>2, GoesStep
<1>3. CASE SignalPopped(c)
  <2>1. /\ cons' = [cons EXCEPT ![c] = "idle"] /\ prod' \in WakeOneProducer(prod)
        /\ UNCHANGED <<setup, store, closed, aborted, frame, announce>>
    BY <1>3 DEF SignalPopped
  <2>2. Pushing'
    BY <2>1, PushingWoken DEF TypeInv
  <2>3. "idle" \in ConsumerState
    BY DEF ConsumerState
  <2>4. cons' \in [Consumers -> ConsumerState] /\ announce' \in BOOLEAN
    BY <2>1, <2>3 DEF TypeInv
  <2>5. QED
    BY <2>1, <2>2, <2>4, QueueStays
<1>4. TryPop(c) => \E u \in BOOLEAN : ~Empty(store) /\ Take(c, u)
  BY Zenon DEF TryPop
<1>5. BeginPop(c) => \E st \in ConsumerState : ConsumerGoes(c, st)
  BY DEF BeginPop, ConsumerState
<1>6. RingTryPop(c) => \/ \E u \in BOOLEAN : ~Empty(store) /\ Take(c, u)
                       \/ \E st \in ConsumerState : ConsumerGoes(c, st)
  BY Zenon DEF RingTryPop, ConsumerState
<1>7. RingReadsAborted(c) \/ RingReadsClosed(c) => \E st \in ConsumerState : ConsumerGoes(c, st)
  BY DEF RingReadsAborted, RingReadsClosed, ConsumerState
<1>8. CheckPop(c) \/ RingPopResumes(c) => \E st \in ConsumerState : ConsumerGoes(c, st)
  BY DEF CheckPop, RingPopResumes, ConsumerState
<1>9. BlockingPopResumes(c) => \/ \E u \in BOOLEAN : ~Empty(store) /\ Take(c, u)
                               \/ \E st \in ConsumerState : ConsumerGoes(c, st)
  BY Zenon DEF BlockingPopResumes, ConsumerState
<1>10. QED
  BY <1>1, <1>2, <1>3, <1>4, <1>5, <1>6, <1>7, <1>8, <1>9 DEF Consume

(* An output transaction publishes a batch.                                            *)
LEMMA PublishStep ==
    ASSUME TypeInv, NEW m \in 1 .. Capacity, NEW batch \in [1 .. m -> Frames],
           PublishPrepared(batch)
    PROVE  /\ TypeInv' /\ Fifo!Next
           /\ Size(store)' = Size(store) + m
<1>1. /\ Kind = "prepared" /\ ~closed /\ Size(store) + Len(batch) <= Capacity
      /\ store' = PushBatch(store, batch) /\ announce' = TRUE
      /\ UNCHANGED <<setup, closed, aborted, prod, frame, cons>>
  BY DEF PublishPrepared
<1>2. Chosen /\ Storage(store) /\ Len(batch) = m
  BY SetupChosen DEF TypeInv
<1>3. Storage(store') /\ Size(store') = Size(store) + m
  BY <1>1, <1>2, PushBatchLemma
<1>4. Content(store') = Content(store) \o batch
  BY <1>1, <1>2, BatchContent
<1>5. /\ Storage(store)' /\ Size(store)' = Size(store) + m
      /\ Content(store)' = Content(store) \o batch
  BY <1>1, <1>3, <1>4, Frozen
<1>6. Len(Content(store)) = Size(store)
  BY <1>2, ContentType
<1>7. Fifo!Accept(batch)
  BY <1>1, <1>2, <1>5, <1>6 DEF Fifo!Accept, Fifo!HasRoom
<1>8. Fifo!Next
  BY <1>7 DEF Fifo!Next
<1>9. TypeInv'
  BY <1>1, <1>5 DEF TypeInv, Pushing
<1>10. QED
  BY <1>5, <1>8, <1>9

(* Everything but the threads inside push() and pop().                                 *)
LEMMA ControlStep ==
    ASSUME TypeInv, NotifyPreparedPublished \/ Close \/ Abort \/ Clear
    PROVE  TypeInv' /\ (Fifo!Next \/ UNCHANGED Fifo!fifo)
<1>1. Pushing /\ cons \in [Consumers -> ConsumerState] /\ Chosen /\ Storage(store)
  BY SetupChosen DEF TypeInv
<1>2. CASE NotifyPreparedPublished
  <2>1. /\ announce' = FALSE /\ cons' = WakeConsumers(cons)
        /\ UNCHANGED <<setup, store, closed, aborted, prod, frame>>
    BY <1>2 DEF NotifyPreparedPublished
  <2>2. Pushing' /\ cons' \in [Consumers -> ConsumerState]
    BY <1>1, <2>1, ConsumersWoken DEF Pushing
  <2>3. QED
    BY <2>1, <2>2, QueueStays, Zenon
<1>3. CASE Close \/ Abort
  <2>1. /\ closed' = TRUE /\ (aborted' = TRUE \/ UNCHANGED aborted)
        /\ cons' = WakeConsumers(cons) /\ prod' = WakeProducers(prod)
        /\ UNCHANGED <<setup, store, frame, announce>>
    BY <1>3 DEF Close, Abort
  <2>2. Pushing'
    BY <1>1, <2>1, PushingWoken
  <2>3. cons' \in [Consumers -> ConsumerState]
    BY <1>1, <2>1, ConsumersWoken
  <2>4. Storage(store)' /\ Content(store)' = Content(store)
    BY <2>1, StoreStays
  <2>5. TypeInv'
    BY <2>1, <2>2, <2>3, <2>4, Zenon DEF TypeInv
  <2>6. Fifo!CloseQueue \/ Fifo!AbortQueue
    BY <2>1, <2>4 DEF Fifo!CloseQueue, Fifo!AbortQueue
  <2>7. QED
    BY <2>5, <2>6 DEF Fifo!Next
<1>4. CASE Clear
  <2>1. /\ store' = Emptied(store) /\ prod' = WakeProducers(prod)
        /\ UNCHANGED <<setup, closed, aborted, frame, cons, announce>>
    BY <1>4 DEF Clear
  <2>2. Pushing'
    BY <1>1, <2>1, PushingWoken
  <2>3. Storage(store') /\ Content(store') = << >>
    BY <1>1, <2>1, EmptiedLemma, EmptiedContent
  <2>4. Storage(store)' /\ Content(store)' = << >>
    BY <2>1, <2>3, Frozen
  <2>5. TypeInv'
    BY <2>1, <2>2, <2>4 DEF TypeInv
  <2>6. Fifo!ClearQueue
    BY <2>1, <2>4 DEF Fifo!ClearQueue
  <2>7. QED
    BY <2>5, <2>6 DEF Fifo!Next
<1>5. QED
  BY <1>2, <1>3, <1>4

(* Every step.                                                                         *)
LEMMA TypeStep ==
    ASSUME TypeInv, [Next]_vars
    PROVE  TypeInv' /\ (QueuesUsed => [Fifo!Next]_(Fifo!fifo))
<1>1. ASSUME NEW p \in Producers, Produce(p)
      PROVE  TypeInv' /\ (QueuesUsed => [Fifo!Next]_(Fifo!fifo))
  BY <1>1, ProducerStep
<1>2. ASSUME NEW p \in Producers, NEW f \in Frames, PushOutcome(p, f)
      PROVE  TypeInv' /\ (QueuesUsed => [Fifo!Next]_(Fifo!fifo))
  <2>1. ~closed /\ (Store(p, f, FALSE) \/ (Full(store) /\ setup.policy = "Abort" /\ OverflowAbort(p)))
    BY <1>2, Zenon DEF PushOutcome
  <2>2. CASE Store(p, f, FALSE)
    BY <2>1, <2>2, StoreStep, Zenon
  <2>3. CASE Full(store) /\ setup.policy = "Abort" /\ OverflowAbort(p)
    BY <2>1, <2>3, OverflowStep
  <2>4. QED
    BY <2>1, <2>2, <2>3, Zenon
<1>3. ASSUME NEW p \in Producers, NEW f \in Frames, BeginPush(p, f)
      PROVE  TypeInv' /\ (QueuesUsed => [Fifo!Next]_(Fifo!fifo))
  <2>1. /\ setup.direct /\ prod' = [prod EXCEPT ![p] = "try"] /\ frame' = [frame EXCEPT ![p] = f]
        /\ UNCHANGED <<setup, store, closed, aborted, cons, announce>>
    BY <1>3 DEF BeginPush
  <2>2. "try" \in ProducerState /\ f \in Cell /\ Pushing
    BY DEF ProducerState, Cell, TypeInv
  <2>3. Pushing'
    BY <2>1, <2>2, PushingMoves, Zenon
  <2>4. cons' \in [Consumers -> ConsumerState] /\ announce' \in BOOLEAN
    BY <2>1 DEF TypeInv
  <2>5. QED
    BY <2>1, <2>3, <2>4, QueueStays
<1>4. ASSUME NEW c \in Consumers, Consume(c) \/ BeginPop(c)
      PROVE  TypeInv' /\ (QueuesUsed => [Fifo!Next]_(Fifo!fifo))
  BY <1>4, ConsumerStep
<1>5. ASSUME NEW m \in 1 .. Capacity, NEW batch \in [1 .. m -> Frames], PublishPrepared(batch)
      PROVE  TypeInv' /\ (QueuesUsed => [Fifo!Next]_(Fifo!fifo))
  BY <1>5, PublishStep
<1>6. ASSUME NotifyPreparedPublished \/ Close \/ Abort \/ Clear
      PROVE  TypeInv' /\ (QueuesUsed => [Fifo!Next]_(Fifo!fifo))
  BY <1>6, ControlStep
<1>7. ASSUME UNCHANGED vars
      PROVE  TypeInv' /\ (QueuesUsed => [Fifo!Next]_(Fifo!fifo))
  <2>1. /\ UNCHANGED <<setup, store, closed, aborted, prod, frame, cons, announce>>
    BY <1>7 DEF vars
  <2>2. Pushing' /\ cons' \in [Consumers -> ConsumerState] /\ announce' \in BOOLEAN
    BY <2>1 DEF TypeInv, Pushing
  <2>3. QED
    BY <2>1, <2>2, QueueStays
<1>8. QED
  BY <1>1, <1>2, <1>3, <1>4, <1>5, <1>6, <1>7 DEF Next

(* The storage stays within its bounds, and producers hold the frames they push.       *)
THEOREM QueueInvariant == Spec => []TypeInv
<1>1. Init => TypeInv
  BY TypeInit
<1>2. TypeInv /\ [Next]_vars => TypeInv'
  BY TypeStep
<1>3. QED
  BY <1>1, <1>2, PTL DEF Spec

(* Both queue classes on each storage are the bounded FIFO queue.                       *)
THEOREM QueuesAreFifo == ASSUME QueuesUsed PROVE Spec => IsBoundedFifo
<1>1. Init => Fifo!Init
  BY TypeInit
<1>2. TypeInv /\ [Next]_vars => [Fifo!Next]_(Fifo!fifo)
  BY TypeStep
<1>3. QED
  BY <1>1, <1>2, QueueInvariant, PTL DEF Spec, IsBoundedFifo, Fifo!Spec
====
