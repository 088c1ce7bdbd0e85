------------------------ MODULE FirmwareUpdateProofs ------------------------
(***************************************************************************)
(* The boot loader, proved for any sizes of banks, blocks and images and   *)
(* any number of files, power cuts and flash errors.  The proofs rest on   *)
(* where the task is: what it still has to do is the rest of a writing of  *)
(* the table, followed by one of a few remainders, and each remainder      *)
(* comes with what is true of the table once it is written.                *)
(***************************************************************************)
EXTENDS FirmwareUpdate, SequenceTheorems, TLAPS

-----------------------------------------------------------------------------
(* Where the task is.                                                      *)

Ops == {"init", "getcur", "set", "clr", "newtype", "activate", "blank",
        "erase", "header", "pages", "erasebank", "program"}
Instructions == [op : Ops, arg : Flags \union {""}]

\* One instruction, then others.
Then(i, r) == << i >> \o r

\* What is left of FICA_write_db, also of several in a row: an erasure comes
\* before a header, a header before the other pages, which come last.
WriteIns == {Ins("erase", ""), Ins("header", ""), Ins("pages", "")}
Follows(i, j) ==
  \/ i.op = "erase" /\ j.op = "header"
  \/ i.op = "header" /\ j.op = "pages"
  \/ i.op = "pages" /\ j.op = "erase"
Writes ==
  { x \in Seq(WriteIns) :
      /\ \A k \in 1..(Len(x) - 1) : Follows(x[k], x[k + 1])
      /\ x # <<>> => x[Len(x)].op = "pages" }

\* The remainders of the functions, numbered from their ends.
J1 == Then(Ins("getcur", ""), <<>>)
J2 == Then(Ins("init", ""), J1)

U1 == Then(Ins("set", "USB"), <<>>)
U2 == Then(Ins("init", ""), U1)

E1 == Then(Ins("set", "NAI"), <<>>)
E2 == Then(Ins("getcur", ""), E1)
E3 == Then(Ins("init", ""), E2)
E4 == Then(Ins("init", ""), E3)

P1 == Then(Ins("program", ""), <<>>)
P2 == Then(Ins("erasebank", ""), P1)

F1 == Then(Ins("set", "OTA"), <<>>)
F2 == Then(Ins("clr", "NAP"), F1)
F3 == Then(Ins("clr", "NAV"), F2)
F4 == Then(Ins("activate", ""), FICA_write_db \o F3)
F5 == Then(Ins("init", ""), F4)
F6 == Then(Ins("clr", "NAI"), F5)
F7 == Then(Ins("set", "NAP"), F6)
F8 == Then(Ins("newtype", ""), FICA_write_db \o F7)
F9 == Then(Ins("set", "NAV"), F8)

\* The writes of a new table: a record for each image.
Records == FICA_write_db \o FICA_write_db \o FICA_write_db

\* The table was read, and what is in RAM is or will be in flash.
Ready(x) ==
  /\ s_fica.valid
  /\ x = <<>> => table = s_fica
  /\ x # <<>> => /\ Head(x).op = "header" => table = Erased
                 /\ Head(x).op = "pages" => table = s_fica

\* A transfer for which the table is prepared.
Programming ==
  /\ table = s_fica /\ table.valid /\ "NAI" \in table.comm
  /\ s_newAppImgType = file.bank

\* The bits of a transfer that a header does not have any more.
Clear(h, bits) == h.comm \intersect bits = {}

\* The end of a transfer, step by step.
Finalizing(r) ==
  \/ r \in {F9, F8}
  \/ r = F7 /\ s_fica.newType = file.bank
  \/ r = F6 /\ s_fica.newType = file.bank /\ "NAP" \in s_fica.comm
  \/ /\ r \in {F5, F4} /\ s_fica.newType = file.bank /\ "NAP" \in s_fica.comm
     /\ Clear(s_fica, {"NAI"})
  \/ r = F4 /\ "NAP" \notin s_fica.comm
  \/ r = F3 /\ s_fica.currType = file.bank /\ Clear(s_fica, {"NAI"})
  \/ r = F2 /\ s_fica.currType = file.bank /\ Clear(s_fica, {"NAI", "NAV"})
  \/ /\ r \in {F1, <<>>} /\ s_fica.currType = file.bank
     /\ Clear(s_fica, {"NAI", "NAV", "NAP"})

\* The type that was asked for is still in the table, unless a failed check
\* has replaced it.
Kept(x) ==
  /\ running \in Banks
  /\ ~replaced => x = <<>> /\ table.valid /\ table.currType = running

\* What is true when the task has the writes x and then r to do.
Place(x, r) ==
  \/ stage = "Jump" /\ x = <<>> /\ r = J2
  \/ stage = "Jump" /\ r = J1 /\ Ready(x)
  \/ stage = "Jump" /\ r = <<>> /\ Ready(x) /\ s_fica.currType \in Banks
  \/ stage = "Again" /\ x = <<>> /\ r = J2 /\ Kept(x)
  \/ stage = "Again" /\ r = J1 /\ Ready(x) /\ Kept(x)
  \/ stage = "Again" /\ r = <<>> /\ Ready(x) /\ s_fica.currType \in Banks /\ Kept(x)
  \/ stage = "SetCur" /\ r = <<>> /\ Ready(x) /\ replaced
  \/ stage = "SetUsbMode" /\ x = <<>> /\ r = U2
  \/ stage = "SetUsbMode" /\ r = U1 /\ Ready(x)
  \/ stage = "SetUsbMode" /\ r = <<>> /\ Ready(x) /\ "USB" \in s_fica.comm
  \/ stage = "ExtInit" /\ x = <<>> /\ r = E4 /\ s_newAppImgType = file.bank
  \/ stage = "ExtInit" /\ r \in {E3, E2, E1} /\ Ready(x) /\ s_newAppImgType = file.bank
  \/ /\ stage = "ExtInit" /\ r = <<>> /\ Ready(x) /\ "NAI" \in s_fica.comm
     /\ s_newAppImgType = file.bank
  \/ stage = "Packet" /\ x = <<>> /\ r \in {P2, P1, <<>>} /\ Programming
  \/ /\ stage = "Finalize" /\ Ready(x) /\ Finalizing(r)
     /\ s_newAppImgType = file.bank /\ transferState = "FINAL"
  \/ stage = "Usb" /\ x = <<>> /\ r = <<>> /\ (transferState = "ACTIVE" => Programming)
  \/ stage \in {"Boot", "ReRun", "App", "Lost"} /\ x = <<>> /\ r = <<>>

\* Where FICA_initialize returns to when it has made a new table, which is not
\* the one of a transfer at its end.
NewTablePlace(r) ==
  \/ stage = "Jump" /\ r = J1
  \/ stage = "Again" /\ r = J1 /\ running \in Banks /\ replaced
  \/ stage = "SetUsbMode" /\ r = U1
  \/ stage = "ExtInit" /\ r \in {E3, E2} /\ s_newAppImgType = file.bank
  \/ /\ stage = "Finalize" /\ r = F4
     /\ s_newAppImgType = file.bank /\ transferState = "FINAL"

\* The sector is about to be erased for a new table.
Blanking ==
  /\ \E r \in Seq(Instructions) :
       todo = Then(Ins("blank", ""), Records \o r) /\ NewTablePlace(r)
  /\ ~replaced => ~table.valid

\* After an error nothing is left to do, else the task is at such a place.
PlaceInv ==
  /\ failed => /\ todo = <<>>
               /\ stage \in {"Jump", "Again", "SetCur", "SetUsbMode", "ExtInit", "Packet",
                             "Finalize"}
  /\ ~failed => \/ Blanking
                \/ \E x \in Writes, r \in Seq(Instructions) : todo = x \o r /\ Place(x, r)

\* The types, with those of the task's own variables, and the bounds of what
\* is sent and counted.
Headers == [valid : BOOLEAN, currType : Banks \union {"NONE", "BOOT"},
            newType : Banks \union {"NONE", "BOOT"},
            currBootType : {"NONE", "BOOT"}, comm : SUBSET Flags]
TypeInv ==
  /\ flash \in [Sectors -> 0..(MaxTransfers + 1)]
  /\ table \in Headers /\ s_fica \in Headers
  /\ s_newAppImgType \in Banks \union {"NONE"}
  /\ transferState \in {"IDLE", "START", "ACTIVE", "FINAL", "ERROR"}
  /\ dataWritten \in 0..ImageLen
  /\ file \in [bank : Banks, sent : SUBSET (1..ImageLen)]
  /\ packet \in 0..(BankSize + BlockSize)
  /\ stage \in Stages /\ failed \in BOOLEAN /\ raw \in BOOLEAN /\ replaced \in BOOLEAN
  /\ running \in Banks \union {"NONE"}
  /\ transfers \in 0..MaxTransfers /\ crashes \in Nat /\ faults \in Nat
  /\ stage \in {"Usb", "ExtInit", "Packet"} => dataWritten < ImageLen
  /\ stage \in {"ExtInit", "Packet"} => packet \in Others \union 1..ImageLen

-----------------------------------------------------------------------------
(* What the flash holds.                                                   *)

\* The bank that is started with this header.
Boots(h) == IF h.valid /\ h.currType \in Banks THEN h.currType ELSE "A"

\* The table is about to be programmed, and the header that will be there.
Writing == At("erase") \/ At("header")
Target == IF Writing THEN s_fica ELSE table

\* The blocks of an image come in order, and those counted are in flash.
InOrder ==
  /\ stage = "Usb" =>
       /\ transferState \in {"IDLE", "START", "ACTIVE"}
       /\ transferState # "ACTIVE" => dataWritten = 0
       /\ transferState = "START" => file.sent = {}
       /\ transferState = "ACTIVE" => file.sent = 1..dataWritten
  /\ stage = "ExtInit" => /\ transferState = "START" /\ dataWritten = 0
                          /\ packet = 1 /\ file.sent = 1..1
  /\ stage = "Packet" => /\ transferState = "ACTIVE"
                         /\ packet = dataWritten + 1 /\ file.sent = 1..packet
  /\ stage = "Packet" \/ (stage = "Usb" /\ transferState = "ACTIVE") =>
       \A i \in 1..dataWritten : flash[Addr(file.bank, i)] = transfers + 1
  /\ stage = "Packet" /\ todo = <<>> /\ ~failed =>
       flash[Addr(file.bank, packet)] = transfers + 1

\* The transfer under way is not for the bank in use.
OtherBank ==
  stage \in {"Usb", "ExtInit", "Packet"} /\ transferState \in {"START", "ACTIVE"} /\ ~failed
    => file.bank # Boots(Target)

\* The USB bit: bank B is made current in a session that has set it, unless an
\* error has hidden that it is not set; a session that begins with bank B
\* current and does not set it takes a second error.
NoUsbBit(h) == h.currType = "B" /\ "USB" \notin h.comm
UsbBit ==
  /\ NoUsbBit(table) \/ NoUsbBit(s_fica) => faults >= 1
  /\ stage = "SetUsbMode" /\ failed => /\ faults >= 1
                                       /\ NoUsbBit(table) => faults >= 2
  /\ stage \in {"Usb", "ExtInit", "Packet", "Finalize"} =>
       faults >= 1 \/ (Target.valid /\ "USB" \in Target.comm)
  /\ stage \in {"Usb", "ExtInit", "Packet"} =>
       (NoUsbBit(table) \/ (Writing /\ NoUsbBit(s_fica)) => faults >= 2)

\* With at most one error, and no valid table replaced: the bank in use is
\* whole, also if the table is lost while it is written; a bank A that is there
\* in part is guarded by a table that names bank B and has the bits of the
\* transfer, so that nothing of the next sessions writes the table.
Guarded ==
  /\ Whole(Boots(table)) /\ Whole(Boots(Target))
  /\ ~Whole("A") => /\ table.valid /\ table.currType = "B"
                    /\ {"USB", "NAI"} \subseteq table.comm
                    /\ ~At("erase") /\ ~At("header") /\ ~At("pages")
  /\ stage = "Finalize" => Whole("A") /\ Whole("B")
  /\ stage \in {"Again", "SetCur", "App"} => Whole(running)

\* The inductive invariant behind BootsWholeImage.
BootInv ==
  /\ InOrder
  /\ ~replaced => UsbBit /\ (faults < 2 => OtherBank /\ Guarded)

-----------------------------------------------------------------------------
(* Sequences of instructions.                                              *)

\* Ins makes an instruction, and those of FICA_write_db are three of them.
LEMMA InsFacts ==
  /\ \A op \in Ops, a \in Flags \union {""} :
       Ins(op, a) \in Instructions /\ Ins(op, a).op = op /\ Ins(op, a).arg = a
  /\ WriteIns \subseteq Instructions
  /\ \A i \in WriteIns : i.op \in {"erase", "header", "pages"}
<1>1. \A op \in Ops, a \in Flags \union {""} :
        Ins(op, a) \in Instructions /\ Ins(op, a).op = op /\ Ins(op, a).arg = a
  BY DEF Ins, Instructions
<1>2. "erase" \in Ops /\ "header" \in Ops /\ "pages" \in Ops /\ "" \in Flags \union {""}
  BY DEF Ops
<1>3. /\ WriteIns \subseteq Instructions
      /\ \A i \in WriteIns : i.op \in {"erase", "header", "pages"}
  <2>1. /\ Ins("erase", "") \in Instructions /\ Ins("erase", "").op = "erase"
        /\ Ins("header", "") \in Instructions /\ Ins("header", "").op = "header"
        /\ Ins("pages", "") \in Instructions /\ Ins("pages", "").op = "pages"
    BY <1>1, <1>2
  <2> QED
    BY <2>1 DEF WriteIns
<1> QED
  BY <1>1, <1>3

\* The first instruction, and the others.
LEMMA ThenFacts ==
  ASSUME NEW i \in Instructions, NEW r \in Seq(Instructions)
  PROVE  /\ Then(i, r) \in Seq(Instructions) /\ Then(i, r) # <<>>
         /\ Head(Then(i, r)) = i /\ Tail(Then(i, r)) = r
<1>1. << i >> \in Seq(Instructions) /\ Len(<< i >>) = 1 /\ << i >>[1] = i
  OBVIOUS
<1>2. /\ << i >> \o r \in Seq(Instructions) /\ Len(<< i >> \o r) = 1 + Len(r)
      /\ \A k \in 1..(1 + Len(r)) : (<< i >> \o r)[k] = IF k = 1 THEN i ELSE r[k - 1]
  BY <1>1
<1>3. Tail(<< i >> \o r) = r
  <2>1. Tail(<< i >> \o r) \in Seq(Instructions) /\ Len(Tail(<< i >> \o r)) = Len(r)
    BY <1>2
  <2>2. \A k \in 1..Len(r) : Tail(<< i >> \o r)[k] = r[k]
    BY <1>2
  <2> QED
    BY <2>1, <2>2, SeqEqual
<1> QED
  BY <1>2, <1>3 DEF Then

\* The writes that are left after one of them.
LEMMA WritesFacts ==
  ASSUME NEW x \in Writes, x # <<>>
  PROVE  /\ Head(x) \in WriteIns /\ Tail(x) \in Writes
         /\ Head(x).op = "erase" => Tail(x) # <<>> /\ Head(Tail(x)).op = "header"
         /\ Head(x).op = "header" => Tail(x) # <<>> /\ Head(Tail(x)).op = "pages"
         /\ Head(x).op = "pages" /\ Tail(x) # <<>> => Head(Tail(x)).op = "erase"
<1>1. /\ x \in Seq(WriteIns) /\ \A k \in 1..(Len(x) - 1) : Follows(x[k], x[k + 1])
      /\ x[Len(x)].op = "pages"
  BY DEF Writes
<1>2. /\ Head(x) = x[1] /\ Head(x) \in WriteIns
      /\ Tail(x) \in Seq(WriteIns) /\ Len(Tail(x)) = Len(x) - 1 /\ Len(x) \in Nat \ {0}
      /\ \A k \in 1..(Len(x) - 1) : Tail(x)[k] = x[k + 1]
  BY <1>1
<1>3. CASE Len(x) = 1
  <2>1. Tail(x) = <<>>
    <3>1. Tail(x) # <<>> => Len(Tail(x)) \in Nat \ {0}
      BY <1>2, EmptySeq
    <3> QED
      BY <1>2, <1>3, <3>1
  <2>a. Head(x).op = "pages"
    BY <1>1, <1>2, <1>3
  <2>2. <<>> \in Writes
    BY DEF Writes
  <2> QED
    BY <1>2, <2>1, <2>a, <2>2
<1>4. CASE Len(x) # 1
  <2>1. Tail(x) # <<>> /\ Head(Tail(x)) = x[2] /\ Follows(x[1], x[2])
    <3>1. Len(Tail(x)) # 0 /\ 1 \in 1..(Len(x) - 1)
      BY <1>2, <1>4
    <3>2. Tail(x) # <<>> /\ Head(Tail(x)) = Tail(x)[1]
      BY <1>2, <3>1
    <3>3. Follows(x[1], x[1 + 1]) /\ Tail(x)[1] = x[1 + 1]
      BY <1>1, <1>2, <3>1
    <3> QED
      BY <3>2, <3>3
  <2>2. Tail(x)[Len(Tail(x))].op = "pages"
    BY <1>1, <1>2, <1>4
  <2>3. \A k \in 1..(Len(Tail(x)) - 1) : Follows(Tail(x)[k], Tail(x)[k + 1])
    <3> SUFFICES ASSUME NEW k \in 1..(Len(Tail(x)) - 1)
                 PROVE  Follows(Tail(x)[k], Tail(x)[k + 1])
      OBVIOUS
    <3>1. k + 1 \in 1..(Len(x) - 1) /\ k \in 1..(Len(x) - 1)
      BY <1>2
    <3>2. Tail(x)[k] = x[k + 1] /\ Tail(x)[k + 1] = x[(k + 1) + 1]
      BY <1>2, <3>1
    <3> QED
      BY <1>1, <3>1, <3>2
  <2>4. Tail(x) \in Writes
    BY <1>2, <2>2, <2>3 DEF Writes
  <2> QED
    BY <1>2, <2>1, <2>4 DEF Follows
<1> QED
  BY <1>3, <1>4

\* Writes in front of a remainder.
LEMMA PrefixFacts ==
  ASSUME NEW x \in Writes, NEW r \in Seq(Instructions)
  PROVE  /\ x = <<>> => x \o r = r
         /\ x # <<>> => /\ x \o r # <<>> /\ Head(x \o r) = Head(x)
                        /\ Tail(x \o r) = Tail(x) \o r
<1>1. x \in Seq(Instructions)
  BY InsFacts, SeqMonotonic DEF Writes
<1>2. CASE x = <<>>
  BY <1>2
<1>3. CASE x # <<>>
  <2>1. /\ x \o r \in Seq(Instructions) /\ Len(x \o r) = Len(x) + Len(r) /\ Len(x) \in Nat \ {0}
        /\ Len(r) \in Nat
        /\ \A k \in 1..(Len(x) + Len(r)) : (x \o r)[k] = IF k <= Len(x) THEN x[k] ELSE r[k - Len(x)]
    BY <1>1, <1>3
  <2>2. Head(x \o r) = Head(x) /\ x \o r # <<>>
    BY <1>1, <1>3, <2>1
  <2>3. /\ Tail(x) \in Seq(Instructions) /\ Len(Tail(x)) = Len(x) - 1
        /\ \A k \in 1..(Len(x) - 1) : Tail(x)[k] = x[k + 1]
    BY <1>1, <1>3
  <2>4. Tail(x \o r) = Tail(x) \o r
    <3>1. /\ Tail(x \o r) \in Seq(Instructions) /\ Len(Tail(x \o r)) = Len(x) + Len(r) - 1
          /\ \A k \in 1..(Len(x) + Len(r) - 1) : Tail(x \o r)[k] = (x \o r)[k + 1]
      BY <2>1
    <3>2. /\ Tail(x) \o r \in Seq(Instructions)
          /\ Len(Tail(x) \o r) = Len(x) - 1 + Len(r)
          /\ \A k \in 1..(Len(x) - 1 + Len(r)) :
               (Tail(x) \o r)[k] = IF k <= Len(x) - 1 THEN Tail(x)[k] ELSE r[k - (Len(x) - 1)]
      BY <2>1, <2>3
    <3>3. \A k \in 1..(Len(x) + Len(r) - 1) : Tail(x \o r)[k] = (Tail(x) \o r)[k]
      <4> SUFFICES ASSUME NEW k \in 1..(Len(x) + Len(r) - 1)
                   PROVE  Tail(x \o r)[k] = (Tail(x) \o r)[k]
        OBVIOUS
      <4>1. Tail(x \o r)[k] = IF k + 1 <= Len(x) THEN x[k + 1] ELSE r[k + 1 - Len(x)]
        BY <2>1, <3>1
      <4>2. (Tail(x) \o r)[k] = IF k <= Len(x) - 1 THEN x[k + 1] ELSE r[k - (Len(x) - 1)]
        BY <2>1, <2>3, <3>2
      <4>3. (k + 1 <= Len(x)) = (k <= Len(x) - 1) /\ k + 1 - Len(x) = k - (Len(x) - 1)
        BY <2>1
      <4> QED
        BY <4>1, <4>2, <4>3
    <3>4. Len(Tail(x \o r)) = Len(Tail(x) \o r)
      BY <2>1, <3>1, <3>2
    <3> QED
      BY <3>1, <3>2, <3>3, <3>4, SeqEqual
  <2> QED
    BY <1>3, <2>2, <2>4
<1> QED
  BY <1>2, <1>3

\* The sequence r is i, then t.
Steps(r, i, t) ==
  /\ r \in Seq(Instructions) /\ t \in Seq(Instructions) /\ i \in Instructions
  /\ r # <<>> /\ Head(r) = i /\ Tail(r) = t

\* One writing after another.
LEMMA JoinWrites ==
  ASSUME NEW x \in Seq(WriteIns), x # <<>>, \A k \in 1..(Len(x) - 1) : Follows(x[k], x[k + 1]),
         NEW y \in Writes, y # <<>>, Follows(x[Len(x)], y[1])
  PROVE  x \o y \in Writes /\ x \o y # <<>> /\ Head(x \o y) = x[1]
<1> DEFINE m == Len(x)
           n == Len(y)
           z == x \o y
<1>1. /\ y \in Seq(WriteIns) /\ \A k \in 1..(n - 1) : Follows(y[k], y[k + 1])
      /\ y[n].op = "pages"
  BY DEF Writes
<1>2. m \in Nat \ {0} /\ n \in Nat \ {0}
  BY <1>1, EmptySeq
<1>3. /\ z \in Seq(WriteIns) /\ Len(z) = m + n
      /\ \A k \in 1..(m + n) : z[k] = IF k <= m THEN x[k] ELSE y[k - m]
  BY <1>1
<1> HIDE DEF m, n, z
<1>4. \A k \in 1..(m + n - 1) : Follows(z[k], z[k + 1])
  <2> SUFFICES ASSUME NEW k \in 1..(m + n - 1) PROVE Follows(z[k], z[k + 1])
    OBVIOUS
  <2>1. CASE k < m
    <3>1. z[k] = x[k] /\ z[k + 1] = x[k + 1] /\ k \in 1..(m - 1)
      BY <1>2, <1>3, <2>1
    <3> QED
      BY <3>1 DEF m
  <2>2. CASE k = m
    <3>1. z[k] = x[m] /\ z[k + 1] = y[1]
      BY <1>2, <1>3, <2>2
    <3> QED
      BY <3>1 DEF m
  <2>3. CASE k > m
    <3>1. z[k] = y[k - m] /\ z[k + 1] = y[(k - m) + 1] /\ k - m \in 1..(n - 1)
      BY <1>2, <1>3, <2>3
    <3> QED
      BY <1>1, <3>1
  <2> QED
    BY <1>2, <2>1, <2>2, <2>3
<1>5. z[m + n] = y[n] /\ z[1] = x[1] /\ m + n # 0
  BY <1>2, <1>3
<1>6. z # <<>> /\ Head(z) = z[1]
  BY <1>2, <1>3, <1>5
<1>7. z \in Writes
  <2>1. z[Len(z)].op = "pages"
    BY <1>1, <1>3, <1>5
  <2>2. \A k \in 1..(Len(z) - 1) : Follows(z[k], z[k + 1])
    <3>1. Len(z) - 1 = m + n - 1
      BY <1>2, <1>3
    <3> QED
      BY <1>4, <3>1
  <2> QED
    BY <1>3, <2>1, <2>2 DEF Writes
<1> QED
  BY <1>5, <1>6, <1>7 DEF z

\* The writings of the table that begin.
LEMMA NewWrites ==
  /\ <<>> \in Writes
  /\ FICA_write_db \in Writes /\ FICA_write_db # <<>> /\ Head(FICA_write_db).op = "erase"
  /\ Records \in Writes /\ Records # <<>> /\ Head(Records).op = "erase"
<1> DEFINE e == Ins("erase", "")
           h == Ins("header", "")
           p == Ins("pages", "")
           w == << e, h, p >>
<1>1. /\ e \in WriteIns /\ e.op = "erase" /\ h \in WriteIns /\ h.op = "header"
      /\ p \in WriteIns /\ p.op = "pages"
  BY DEF WriteIns, Ins
<1>2. FICA_write_db = w
  BY DEF FICA_write_db
<1> HIDE DEF e, h, p
<1>3. <<>> \in Writes
  BY DEF Writes
<1>4. w \in Writes /\ w # <<>> /\ Head(w) = e /\ w[1] = e
  BY <1>1 DEF Writes, Follows
<1>5. \A i, j \in WriteIns : i.op = "pages" /\ j.op = "erase" => Follows(i, j)
  BY DEF Follows
<1> HIDE DEF w
\* After whole writings, another one.
<1>6. ASSUME NEW x \in Writes, x # <<>>, Head(x) = e
      PROVE  x \o w \in Writes /\ x \o w # <<>> /\ Head(x \o w) = e
  <2>1. /\ x \in Seq(WriteIns) /\ \A k \in 1..(Len(x) - 1) : Follows(x[k], x[k + 1])
        /\ x[Len(x)].op = "pages"
    BY <1>6 DEF Writes
  <2>2. x[Len(x)] \in WriteIns /\ x[1] = e
    BY <1>6, <2>1, EmptySeq
  <2>3. Follows(x[Len(x)], w[1])
    BY <1>1, <1>4, <1>5, <2>1, <2>2
  <2> QED
    BY <1>4, <1>6, <2>1, <2>2, <2>3, JoinWrites
<1>7. w \o w \in Writes /\ w \o w # <<>> /\ Head(w \o w) = e
  BY <1>4, <1>6
<1>8. w \o w \o w \in Writes /\ w \o w \o w # <<>> /\ Head(w \o w \o w) = e
  BY <1>6, <1>7
<1> QED
  BY <1>1, <1>2, <1>3, <1>4, <1>8 DEF Records

\* What the remainders are made of.
LEMMA Remainders ==
  /\ Steps(J1, Ins("getcur", ""), <<>>)
  /\ Steps(J2, Ins("init", ""), J1)
  /\ Steps(U1, Ins("set", "USB"), <<>>)
  /\ Steps(U2, Ins("init", ""), U1)
  /\ Steps(E1, Ins("set", "NAI"), <<>>)
  /\ Steps(E2, Ins("getcur", ""), E1)
  /\ Steps(E3, Ins("init", ""), E2)
  /\ Steps(E4, Ins("init", ""), E3)
  /\ Steps(P1, Ins("program", ""), <<>>)
  /\ Steps(P2, Ins("erasebank", ""), P1)
  /\ Steps(F1, Ins("set", "OTA"), <<>>)
  /\ Steps(F2, Ins("clr", "NAP"), F1)
  /\ Steps(F3, Ins("clr", "NAV"), F2)
  /\ Steps(F4, Ins("activate", ""), FICA_write_db \o F3)
  /\ Steps(F5, Ins("init", ""), F4)
  /\ Steps(F6, Ins("clr", "NAI"), F5)
  /\ Steps(F7, Ins("set", "NAP"), F6)
  /\ Steps(F8, Ins("newtype", ""), FICA_write_db \o F7)
  /\ Steps(F9, Ins("set", "NAV"), F8)
<1>1. \A op \in Ops, a \in Flags \union {""} : Ins(op, a) \in Instructions
  BY InsFacts
<1>2. \A i \in Instructions, r \in Seq(Instructions) : Steps(Then(i, r), i, r)
  BY ThenFacts DEF Steps
<1>3. \A r \in Seq(Instructions) : FICA_write_db \o r \in Seq(Instructions)
  <2>1. FICA_write_db \in Seq(Instructions)
    BY InsFacts, NewWrites, SeqMonotonic DEF Writes
  <2> QED
    BY <2>1
<1>4. <<>> \in Seq(Instructions)
  OBVIOUS
<1>5. /\ Ins("init", "") \in Instructions /\ Ins("getcur", "") \in Instructions
      /\ Ins("set", "USB") \in Instructions /\ Ins("set", "NAI") \in Instructions
      /\ Ins("program", "") \in Instructions /\ Ins("erasebank", "") \in Instructions
      /\ Ins("set", "OTA") \in Instructions /\ Ins("clr", "NAP") \in Instructions
      /\ Ins("clr", "NAV") \in Instructions /\ Ins("activate", "") \in Instructions
      /\ Ins("clr", "NAI") \in Instructions /\ Ins("set", "NAP") \in Instructions
      /\ Ins("newtype", "") \in Instructions /\ Ins("set", "NAV") \in Instructions
  BY <1>1 DEF Ops, Flags
<1>j1. Steps(J1, Ins("getcur", ""), <<>>)
  BY <1>2, <1>4, <1>5 DEF J1
<1>j2. Steps(J2, Ins("init", ""), J1)
  <2>1. J1 \in Seq(Instructions)
    BY <1>j1 DEF Steps
  <2> QED
    BY <1>2, <1>5, <2>1 DEF J2
<1>u1. Steps(U1, Ins("set", "USB"), <<>>)
  BY <1>2, <1>4, <1>5 DEF U1
<1>u2. Steps(U2, Ins("init", ""), U1)
  <2>1. U1 \in Seq(Instructions)
    BY <1>u1 DEF Steps
  <2> QED
    BY <1>2, <1>5, <2>1 DEF U2
<1>e1. Steps(E1, Ins("set", "NAI"), <<>>)
  BY <1>2, <1>4, <1>5 DEF E1
<1>e2. Steps(E2, Ins("getcur", ""), E1)
  <2>1. E1 \in Seq(Instructions)
    BY <1>e1 DEF Steps
  <2> QED
    BY <1>2, <1>5, <2>1 DEF E2
<1>e3. Steps(E3, Ins("init", ""), E2)
  <2>1. E2 \in Seq(Instructions)
    BY <1>e2 DEF Steps
  <2> QED
    BY <1>2, <1>5, <2>1 DEF E3
<1>e4. Steps(E4, Ins("init", ""), E3)
  <2>1. E3 \in Seq(Instructions)
    BY <1>e3 DEF Steps
  <2> QED
    BY <1>2, <1>5, <2>1 DEF E4
<1>p1. Steps(P1, Ins("program", ""), <<>>)
  BY <1>2, <1>4, <1>5 DEF P1
<1>p2. Steps(P2, Ins("erasebank", ""), P1)
  <2>1. P1 \in Seq(Instructions)
    BY <1>p1 DEF Steps
  <2> QED
    BY <1>2, <1>5, <2>1 DEF P2
<1>f1. Steps(F1, Ins("set", "OTA"), <<>>)
  BY <1>2, <1>4, <1>5 DEF F1
<1>f2. Steps(F2, Ins("clr", "NAP"), F1)
  <2>1. F1 \in Seq(Instructions)
    BY <1>f1 DEF Steps
  <2> QED
    BY <1>2, <1>5, <2>1 DEF F2
<1>f3. Steps(F3, Ins("clr", "NAV"), F2)
  <2>1. F2 \in Seq(Instructions)
    BY <1>f2 DEF Steps
  <2> QED
    BY <1>2, <1>5, <2>1 DEF F3
<1>f4. Steps(F4, Ins("activate", ""), FICA_write_db \o F3)
  <2>1. F3 \in Seq(Instructions)
    BY <1>f3 DEF Steps
  <2> QED
    BY <1>2, <1>3, <1>5, <2>1 DEF F4
<1>f5. Steps(F5, Ins("init", ""), F4)
  <2>1. F4 \in Seq(Instructions)
    BY <1>f4 DEF Steps
  <2> QED
    BY <1>2, <1>5, <2>1 DEF F5
<1>f6. Steps(F6, Ins("clr", "NAI"), F5)
  <2>1. F5 \in Seq(Instructions)
    BY <1>f5 DEF Steps
  <2> QED
    BY <1>2, <1>5, <2>1 DEF F6
<1>f7. Steps(F7, Ins("set", "NAP"), F6)
  <2>1. F6 \in Seq(Instructions)
    BY <1>f6 DEF Steps
  <2> QED
    BY <1>2, <1>5, <2>1 DEF F7
<1>f8. Steps(F8, Ins("newtype", ""), FICA_write_db \o F7)
  <2>1. F7 \in Seq(Instructions)
    BY <1>f7 DEF Steps
  <2> QED
    BY <1>2, <1>3, <1>5, <2>1 DEF F8
<1>f9. Steps(F9, Ins("set", "NAV"), F8)
  <2>1. F8 \in Seq(Instructions)
    BY <1>f8 DEF Steps
  <2> QED
    BY <1>2, <1>5, <2>1 DEF F9
<1> QED
  BY <1>j1, <1>j2, <1>u1, <1>u2, <1>e1, <1>e2, <1>e3, <1>e4, <1>p1, <1>p2,
     <1>f1, <1>f2, <1>f3, <1>f4, <1>f5, <1>f6, <1>f7, <1>f8, <1>f9

\* Sequences of instructions, one after another, for reasoning without
\* positions.
Code == Seq(Instructions)
Cat(s, t) == s \o t

\* Concatenation is associative.
LEMMA CatFacts ==
  ASSUME NEW s \in Code, NEW t \in Code
  PROVE  Cat(s, t) \in Code /\ \A u \in Code : Cat(Cat(s, t), u) = Cat(s, Cat(t, u))
<1>1. \A u \in Seq(Instructions) : (s \o t) \o u = s \o (t \o u)
  BY ConcatAssociative DEF Code
<1>2. s \o t \in Seq(Instructions)
  BY DEF Code
<1> QED
  BY <1>1, <1>2 DEF Cat, Code

\* Calls in a row, taken from the front.
LEMMA Regroup ==
  ASSUME NEW a \in Code, NEW b \in Code, NEW c \in Code, NEW d \in Code
  PROVE  Cat(Cat(Cat(a, b), c), d) = Cat(a, Cat(b, Cat(c, d)))
<1> DEFINE ab == Cat(a, b)
           cd == Cat(c, d)
<1>1. ab \in Code /\ \A u \in Code : Cat(ab, u) = Cat(a, Cat(b, u))
  BY CatFacts
<1>2. cd \in Code
  BY CatFacts
<1> HIDE DEF ab, cd
<1>3. Cat(Cat(ab, c), d) = Cat(ab, cd)
  BY <1>1, CatFacts DEF cd
<1>4. Cat(ab, cd) = Cat(a, Cat(b, cd))
  BY <1>1, <1>2
<1> QED
  BY <1>3, <1>4 DEF ab, cd

\* The functions, as they are called.
LEMMA Programs ==
  /\ FICA_GetCurAppStartType = J2
  /\ FICA_set_usb_mode = U2
  /\ FICA_app_program_ext_init = E4
  /\ write_packet = P2
  /\ FICA_app_program_ext_finalize \o FICA_app_program_ext_set_reset_vector
       = FICA_write_db \o F9
<1>1. \A i \in Instructions : << i >> \in Code /\ Then(i, <<>>) = << i >>
  BY ConcatEmptySeq DEF Then, Code
<1>2. FICA_write_db \in Code
  BY InsFacts, NewWrites, SeqMonotonic DEF Writes, Code
<1>3. /\ J1 \in Code /\ J2 \in Code /\ E1 \in Code /\ F1 \in Code /\ F3 \in Code
      /\ F5 \in Code /\ F7 \in Code
  BY Remainders DEF Steps, Code
<1> DEFINE init == << Ins("init", "") >>
           getcur == << Ins("getcur", "") >>
           setNAI == << Ins("set", "NAI") >>
           clrNAP == << Ins("clr", "NAP") >>
           clrNAV == << Ins("clr", "NAV") >>
           activate == << Ins("activate", "") >>
           clrNAI == << Ins("clr", "NAI") >>
           setNAP == << Ins("set", "NAP") >>
           newtype == << Ins("newtype", "") >>
           setNAV == << Ins("set", "NAV") >>
           setUSB == << Ins("set", "USB") >>
           program == << Ins("program", "") >>
           setOTA == << Ins("set", "OTA") >>
           erasebank == << Ins("erasebank", "") >>
<1>5. /\ init \in Code /\ getcur \in Code
      /\ setNAI \in Code /\ clrNAP \in Code
      /\ clrNAV \in Code /\ activate \in Code
      /\ clrNAI \in Code /\ setNAP \in Code
      /\ newtype \in Code /\ setNAV \in Code
  BY <1>1, Remainders DEF Steps
<1>6. /\ J1 = getcur /\ U1 = setUSB /\ E1 = setNAI
      /\ P1 = program /\ F1 = setOTA
  BY <1>1, Remainders DEF Steps, J1, U1, E1, P1, F1
<1>7. FICA_GetCurAppStartType = J2 /\ FICA_set_usb_mode = U2
  BY <1>6 DEF FICA_GetCurAppStartType, FICA_set_usb_mode, FICA_initialize, FICA_set_comm_flag,
              Then, J2, U2
<1>8. write_packet = P2
  <2>1. P2 = erasebank \o program
    BY <1>6 DEF P2, Then
  <2>2. ASSUME NEW i \in Instructions, NEW j \in Instructions
        PROVE  << i >> \o << j >> = << i, j >>
    <3>1. /\ << i >> \in Seq(Instructions) /\ << j >> \in Seq(Instructions)
          /\ << i, j >> \in Seq(Instructions) /\ Len(<< i, j >>) = 2
      OBVIOUS
    <3>2. << i >> \o << j >> \in Seq(Instructions) /\ Len(<< i >> \o << j >>) = 2
      BY <3>1
    <3>3. \A k \in 1..2 : (<< i >> \o << j >>)[k] = << i, j >>[k]
      BY <3>1
    <3> QED
      BY <3>1, <3>2, <3>3, SeqEqual
  <2> QED
    BY <2>1, <2>2, Remainders DEF write_packet, Steps
<1> HIDE DEF init, getcur, setNAI, clrNAP, clrNAV, activate, clrNAI, setNAP, newtype,
             setNAV, setUSB, program, setOTA, erasebank
<1>9. FICA_app_program_ext_init = E4
  <2>2. FICA_app_program_ext_init = Cat(Cat(init, J2), E1)
    BY <1>7, <1>6 DEF FICA_app_program_ext_init, FICA_initialize, FICA_set_comm_flag, Cat, init, setNAI
  <2>3. J2 = Cat(init, J1)
    BY DEF J2, Then, Cat, init
  <2>4. Cat(Cat(init, J2), E1) = Cat(init, Cat(J2, E1))
    BY <1>3, <1>5, CatFacts
  <2>5. Cat(Cat(init, J1), E1) = Cat(init, Cat(J1, E1))
    BY <1>3, <1>5, CatFacts
  <2>6. Cat(init, Cat(init, Cat(J1, E1))) = E4
    BY <1>6 DEF E4, E3, E2, Then, Cat, init, getcur, setNAI
  <2> QED
    BY <2>2, <2>3, <2>4, <2>5, <2>6
<1>10. FICA_app_program_ext_set_reset_vector = F5
  <2> DEFINE p == Cat(Cat(init, activate), FICA_write_db)
  <2>1. FICA_app_program_ext_set_reset_vector = Cat(Cat(Cat(p, clrNAV), clrNAP), F1)
    BY <1>6 DEF FICA_app_program_ext_set_reset_vector, FICA_initialize, FICA_clr_comm_flag,
                FICA_set_comm_flag, Cat, init, activate, clrNAV, clrNAP, setOTA
  <2>2. p \in Code
    BY <1>2, <1>5, CatFacts
  <2>3. Cat(p, F3) = Cat(init, Cat(activate, Cat(FICA_write_db, F3)))
    <3>1. init \in Code /\ activate \in Code /\ F3 \in Code
      BY <1>3, <1>5
    <3> QED
      BY <1>2, <3>1, Regroup
  <2> HIDE DEF p
  <2>4. Cat(Cat(Cat(p, clrNAV), clrNAP), F1) = Cat(p, Cat(clrNAV, Cat(clrNAP, F1)))
    <3>1. clrNAV \in Code /\ clrNAP \in Code /\ F1 \in Code
      BY <1>3, <1>5
    <3> QED
      BY <2>2, <3>1, Regroup
  <2>5. Cat(clrNAV, Cat(clrNAP, F1)) = F3
    BY DEF F2, F3, Then, Cat, clrNAV, clrNAP
  <2>6. Cat(init, Cat(activate, Cat(FICA_write_db, F3))) = F5
    BY DEF F4, F5, Then, Cat, init, activate
  <2> QED
    BY <2>1, <2>3, <2>4, <2>5, <2>6
<1>11. FICA_app_program_ext_finalize \o F5 = FICA_write_db \o F9
  <2> DEFINE p == Cat(Cat(FICA_write_db, setNAV), newtype)
             q == Cat(p, FICA_write_db)
             r == Cat(FICA_write_db, F7)
  <2>1. FICA_app_program_ext_finalize \o F5 = Cat(Cat(Cat(q, setNAP), clrNAI), F5)
    BY DEF FICA_app_program_ext_finalize, FICA_clr_comm_flag, FICA_set_comm_flag, Cat,
           setNAV, newtype, setNAP, clrNAI
  <2>2. p \in Code /\ r \in Code
    BY <1>2, <1>3, <1>5, CatFacts
  <2> HIDE DEF r
  <2>3. Cat(p, r) = Cat(FICA_write_db, Cat(setNAV, Cat(newtype, r)))
    <3>1. setNAV \in Code /\ newtype \in Code /\ r \in Code
      BY <1>5, <2>2
    <3> QED
      BY <1>2, <3>1, Regroup
  <2> HIDE DEF p
  <2>4. q \in Code /\ Cat(q, F7) = Cat(p, r)
    <3>1. q \in Code /\ \A u \in Code : Cat(q, u) = Cat(p, Cat(FICA_write_db, u))
      BY <1>2, <2>2, CatFacts
    <3> HIDE DEF q
    <3> QED
      BY <1>3, <3>1 DEF r
  <2> HIDE DEF q
  <2>5. Cat(Cat(Cat(q, setNAP), clrNAI), F5) = Cat(q, Cat(setNAP, Cat(clrNAI, F5)))
    <3>1. setNAP \in Code /\ clrNAI \in Code /\ F5 \in Code
      BY <1>3, <1>5
    <3> QED
      BY <2>4, <3>1, Regroup
  <2>6. Cat(setNAP, Cat(clrNAI, F5)) = F7
    BY DEF F6, F7, Then, Cat, setNAP, clrNAI
  <2>7. Cat(setNAV, Cat(newtype, r)) = F9
    BY DEF F8, F9, Then, Cat, r, setNAV, newtype
  <2>8. FICA_app_program_ext_finalize \o F5 = Cat(FICA_write_db, F9)
    BY <2>1, <2>3, <2>4, <2>5, <2>6, <2>7
  <2> QED
    BY <2>8 DEF Cat
<1> QED
  BY <1>7, <1>8, <1>9, <1>10, <1>11

-----------------------------------------------------------------------------
(* The task at its places.                                                 *)

\* What comes first in each remainder, and what comes after it.
Leads(r, op, t) == r \in Code /\ t \in Code /\ r # <<>> /\ Head(r).op = op /\ Tail(r) = t

\* How each remainder begins, and what it leaves.
LEMMA Heads ==
  /\ Leads(J1, "getcur", <<>>) /\ Leads(J2, "init", J1)
  /\ Leads(U1, "set", <<>>) /\ Head(U1).arg = "USB" /\ Leads(U2, "init", U1)
  /\ Leads(E1, "set", <<>>) /\ Head(E1).arg = "NAI" /\ Leads(E2, "getcur", E1)
  /\ Leads(E3, "init", E2) /\ Leads(E4, "init", E3)
  /\ Leads(P1, "program", <<>>) /\ Leads(P2, "erasebank", P1)
  /\ Leads(F1, "set", <<>>) /\ Head(F1).arg = "OTA"
  /\ Leads(F2, "clr", F1) /\ Head(F2).arg = "NAP"
  /\ Leads(F3, "clr", F2) /\ Head(F3).arg = "NAV"
  /\ Leads(F4, "activate", FICA_write_db \o F3) /\ Leads(F5, "init", F4)
  /\ Leads(F6, "clr", F5) /\ Head(F6).arg = "NAI"
  /\ Leads(F7, "set", F6) /\ Head(F7).arg = "NAP"
  /\ Leads(F8, "newtype", FICA_write_db \o F7)
  /\ Leads(F9, "set", F8) /\ Head(F9).arg = "NAV"
<1>1. \A r, t, op, a : Steps(r, Ins(op, a), t) => Leads(r, op, t) /\ Head(r).arg = a
  BY DEF Steps, Leads, Code, Ins
<1>2. /\ Leads(J1, "getcur", <<>>) /\ Leads(J2, "init", J1)
      /\ Leads(U1, "set", <<>>) /\ Head(U1).arg = "USB" /\ Leads(U2, "init", U1)
      /\ Leads(P1, "program", <<>>) /\ Leads(P2, "erasebank", P1)
  BY <1>1, Remainders
<1>3. /\ Leads(E1, "set", <<>>) /\ Head(E1).arg = "NAI" /\ Leads(E2, "getcur", E1)
      /\ Leads(E3, "init", E2) /\ Leads(E4, "init", E3)
  BY <1>1, Remainders
<1>4. /\ Leads(F1, "set", <<>>) /\ Head(F1).arg = "OTA"
      /\ Leads(F2, "clr", F1) /\ Head(F2).arg = "NAP"
      /\ Leads(F3, "clr", F2) /\ Head(F3).arg = "NAV"
      /\ Leads(F4, "activate", FICA_write_db \o F3)
  BY <1>1, Remainders
<1>5. /\ Leads(F5, "init", F4)
      /\ Leads(F6, "clr", F5) /\ Head(F6).arg = "NAI"
      /\ Leads(F7, "set", F6) /\ Head(F7).arg = "NAP"
      /\ Leads(F8, "newtype", FICA_write_db \o F7)
      /\ Leads(F9, "set", F8) /\ Head(F9).arg = "NAV"
  BY <1>1, Remainders
<1> QED
  BY <1>2, <1>3, <1>4, <1>5

\* A task is at one of the remainders.
Rest == {J1, J2, U1, U2, E1, E2, E3, E4, P1, P2, F1, F2, F3, F4, F5, F6, F7, F8, F9}

\* Every place has one of the remainders, or nothing left.
LEMMA PlaceRest ==
  ASSUME NEW x, NEW r, Place(x, r)
  PROVE  r = <<>> \/ r \in Rest
BY DEF Place, Finalizing, Rest

\* The first operation of a remainder.
FirstOp(r) == Head(r).op

\* A remainder never begins with a write of the table.
LEMMA RestFacts ==
  \A r \in Rest : r \in Code /\ r # <<>> /\ FirstOp(r) \notin {"blank", "erase", "header", "pages"}
<1> DEFINE Fine(r) == r \in Code /\ r # <<>> /\ FirstOp(r) \notin {"blank", "erase", "header", "pages"}
<1>1. \A r, op, t : Leads(r, op, t) /\ op \notin {"blank", "erase", "header", "pages"} => Fine(r)
  BY DEF Leads, FirstOp
<1>2. {"init", "getcur", "set", "clr", "newtype", "activate", "erasebank", "program"}
        \intersect {"blank", "erase", "header", "pages"} = {}
  OBVIOUS
<1> HIDE DEF Fine
<1>3. Fine(J1) /\ Fine(J2) /\ Fine(U1) /\ Fine(U2) /\ Fine(P1) /\ Fine(P2)
  BY <1>1, <1>2, Heads
<1>4. Fine(E1) /\ Fine(E2) /\ Fine(E3) /\ Fine(E4)
  BY <1>1, <1>2, Heads
<1>5. Fine(F1) /\ Fine(F2) /\ Fine(F3) /\ Fine(F4) /\ Fine(F5)
  BY <1>1, <1>2, Heads
<1>6. Fine(F6) /\ Fine(F7) /\ Fine(F8) /\ Fine(F9)
  BY <1>1, <1>2, Heads
<1>7. \A r \in Rest : Fine(r)
  BY <1>3, <1>4, <1>5, <1>6 DEF Rest
<1> QED
  BY <1>7 DEF Fine

\* What comes after the first instruction of a remainder; new writes of the
\* table come only after two of them.
After(r) == Tail(r)

\* After its first step a remainder is one again, where no write is begun.
LEMMA RestTails ==
  /\ \A r \in Rest : Tail(r) \in Code
  /\ \A r \in Rest : r \in {F4, F8} \/ Tail(r) \in Rest \union {<<>>}
<1>1. /\ After(J1) = <<>> /\ After(J2) = J1 /\ After(U1) = <<>> /\ After(U2) = U1
      /\ After(E1) = <<>> /\ After(E2) = E1 /\ After(E3) = E2 /\ After(E4) = E3
      /\ After(P1) = <<>> /\ After(P2) = P1 /\ After(F1) = <<>> /\ After(F2) = F1
      /\ After(F3) = F2 /\ After(F5) = F4 /\ After(F6) = F5 /\ After(F7) = F6 /\ After(F9) = F8
  BY Heads DEF Leads, After
<1>2. After(F4) \in Code /\ After(F8) \in Code /\ <<>> \in Code
  BY Heads DEF Leads, After
<1>3. \A r \in Rest : r \in {F4, F8} \/ After(r) \in Rest \union {<<>>}
  BY <1>1 DEF Rest
<1>4. \A r \in Rest : After(r) \in Code
  BY <1>2, <1>3, RestFacts
<1> QED
  BY <1>3, <1>4 DEF After

\* The first instruction that is left is one of a write of the table, or all
\* writes are done.
WriteOps == {"erase", "header", "pages"}

\* A new table begins with the erasure of the sector.
LEMMA BlankFacts ==
  ASSUME Blanking
  PROVE  \E r \in Code :
           /\ todo # <<>> /\ Head(todo).op = "blank" /\ Tail(todo) = Records \o r
           /\ NewTablePlace(r) /\ (~replaced => ~table.valid)
<1>1. PICK r \in Seq(Instructions) :
        todo = Then(Ins("blank", ""), Records \o r) /\ NewTablePlace(r)
  BY DEF Blanking
<1>2. Records \in Seq(Instructions)
  BY InsFacts, NewWrites, SeqMonotonic DEF Writes
<1>3. Ins("blank", "") \in Instructions /\ Ins("blank", "").op = "blank"
  BY InsFacts DEF Ops
<1>4. Records \o r \in Seq(Instructions)
  BY <1>2
<1>5. todo # <<>> /\ Head(todo) = Ins("blank", "") /\ Tail(todo) = Records \o r
  BY <1>1, <1>3, <1>4, ThenFacts
<1> QED
  BY <1>1, <1>3, <1>5 DEF Blanking, Code

\* The next instruction is one of a remainder, all writes done, or the first
\* write that is left, or the sector is to be erased for a new table.
LEMMA NextIns ==
  ASSUME PlaceInv, todo # <<>>
  PROVE  /\ ~failed
         /\ Head(todo).op = "blank" => Blanking
         /\ Head(todo).op \notin WriteOps \union {"blank"} => todo \in Rest /\ Place(<<>>, todo)
         /\ Head(todo).op \in WriteOps =>
              \E x \in Writes, r \in Code :
                /\ x # <<>> /\ Head(x) = Head(todo) /\ Tail(x) \in Writes
                /\ todo = x \o r /\ Tail(todo) = Tail(x) \o r /\ Place(x, r)
<1>1. ~failed
  BY DEF PlaceInv
<1>2. CASE Blanking
  BY <1>1, <1>2, BlankFacts DEF WriteOps
<1>3. CASE ~Blanking
  <2>1. PICK x \in Writes, r \in Seq(Instructions) : todo = x \o r /\ Place(x, r)
    BY <1>1, <1>3 DEF PlaceInv
  <2>2. r \in Code
    BY DEF Code
  <2>3. CASE x = <<>>
    <3>1. todo = r /\ Place(<<>>, todo) /\ todo \in Rest
      BY <2>1, <2>3, PrefixFacts, PlaceRest
    <3>2. Head(todo).op \notin WriteOps \union {"blank"}
      BY <3>1, RestFacts DEF FirstOp, WriteOps
    <3> QED
      BY <1>1, <3>1, <3>2
  <2>4. CASE x # <<>>
    <3>1. Head(todo) = Head(x) /\ Tail(todo) = Tail(x) \o r /\ Tail(x) \in Writes
      BY <2>1, <2>4, PrefixFacts, WritesFacts
    <3>2. Head(x).op \in WriteOps /\ Head(x).op # "blank"
      BY <2>4, WritesFacts, InsFacts DEF WriteOps
    <3> QED
      BY <1>1, <2>1, <2>2, <2>4, <3>1, <3>2
  <2> QED
    BY <2>3, <2>4
<1> QED
  BY <1>2, <1>3

\* The place after a step that is no error.
LEMMA NextPlace ==
  ASSUME NEW x \in Writes, NEW r \in Code, todo' = x \o r, ~failed', Place(x, r)'
  PROVE  PlaceInv'
BY DEF PlaceInv, Code

\* A step that leaves no write leads to the place of its remainder.
LEMMA NextPlaceNoWrite ==
  ASSUME NEW r \in Code, todo' = r, ~failed', Place(<<>>, r)'
  PROVE  PlaceInv'
<1>1. <<>> \in Writes /\ r = <<>> \o r
  BY NewWrites, PrefixFacts DEF Code
<1> QED
  BY <1>1, NextPlace

\* The first operation of each remainder.
LEMMA FirstOps ==
  /\ FirstOp(J1) = "getcur" /\ FirstOp(J2) = "init"
  /\ FirstOp(U1) = "set" /\ FirstOp(U2) = "init"
  /\ FirstOp(E1) = "set" /\ FirstOp(E2) = "getcur" /\ FirstOp(E3) = "init" /\ FirstOp(E4) = "init"
  /\ FirstOp(P1) = "program" /\ FirstOp(P2) = "erasebank"
  /\ FirstOp(F1) = "set" /\ FirstOp(F2) = "clr" /\ FirstOp(F3) = "clr"
  /\ FirstOp(F4) = "activate" /\ FirstOp(F5) = "init" /\ FirstOp(F6) = "clr"
  /\ FirstOp(F7) = "set" /\ FirstOp(F8) = "newtype" /\ FirstOp(F9) = "set"
<1>1. \A r, op, t : Leads(r, op, t) => FirstOp(r) = op
  BY DEF Leads, FirstOp
<1> QED
  BY <1>1, Heads

\* The table was read and is not being written.
Settled == s_fica.valid /\ table = s_fica
\* Where the end of a transfer is, all writes done.
Ending == /\ stage = "Finalize" /\ Settled
          /\ s_newAppImgType = file.bank /\ transferState = "FINAL"

\* With no write left, the tables in RAM and flash agree.
LEMMA ReadyNow == Ready(<<>>) <=> Settled
BY DEF Ready, Settled

\* Where FICA_initialize is called.
LEMMA InitPlaces ==
  ASSUME PlaceInv, At("init")
  PROVE  /\ ~failed
         /\ \/ stage = "Jump" /\ todo = J2
            \/ stage = "Again" /\ todo = J2 /\ Kept(<<>>)
            \/ stage = "SetUsbMode" /\ todo = U2
            \/ stage = "ExtInit" /\ todo \in {E3, E4} /\ s_newAppImgType = file.bank
            \/ /\ Ending /\ todo = F5 /\ s_fica.newType = file.bank /\ "NAP" \in s_fica.comm
               /\ Clear(s_fica, {"NAI"})
<1>1. ~failed /\ todo \in Rest /\ Place(<<>>, todo) /\ FirstOp(todo) = "init" /\ todo # <<>>
  BY NextIns DEF At, FirstOp, WriteOps
<1> QED
  BY <1>1, FirstOps, ReadyNow DEF Place, Finalizing, Ending

\* Where FICA_GetCurAppStartType looks at the type.
LEMMA GetCurPlaces ==
  ASSUME PlaceInv, At("getcur")
  PROVE  /\ ~failed /\ Settled
         /\ \/ stage = "Jump" /\ todo = J1
            \/ stage = "Again" /\ todo = J1 /\ Kept(<<>>)
            \/ stage = "ExtInit" /\ todo = E2 /\ s_newAppImgType = file.bank
<1>1. ~failed /\ todo \in Rest /\ Place(<<>>, todo) /\ FirstOp(todo) = "getcur" /\ todo # <<>>
  BY NextIns DEF At, FirstOp, WriteOps
<1> QED
  BY <1>1, FirstOps, ReadyNow DEF Place, Finalizing

\* Where FICA_set_comm_flag is called.
LEMMA SetPlaces ==
  ASSUME PlaceInv, At("set")
  PROVE  /\ ~failed /\ Settled
         /\ \/ stage = "SetUsbMode" /\ todo = U1
            \/ stage = "ExtInit" /\ todo = E1 /\ s_newAppImgType = file.bank
            \/ Ending /\ todo = F9
            \/ Ending /\ todo = F7 /\ s_fica.newType = file.bank
            \/ /\ Ending /\ todo = F1 /\ s_fica.currType = file.bank
               /\ Clear(s_fica, {"NAI", "NAV", "NAP"})
<1>1. ~failed /\ todo \in Rest /\ Place(<<>>, todo) /\ FirstOp(todo) = "set" /\ todo # <<>>
  BY NextIns DEF At, FirstOp, WriteOps
<1> QED
  BY <1>1, FirstOps, ReadyNow DEF Place, Finalizing, Ending

\* Where FICA_clr_comm_flag is called.
LEMMA ClrPlaces ==
  ASSUME PlaceInv, At("clr")
  PROVE  /\ ~failed /\ Ending
         /\ \/ todo = F6 /\ s_fica.newType = file.bank /\ "NAP" \in s_fica.comm
            \/ todo = F3 /\ s_fica.currType = file.bank /\ Clear(s_fica, {"NAI"})
            \/ todo = F2 /\ s_fica.currType = file.bank /\ Clear(s_fica, {"NAI", "NAV"})
<1>1. ~failed /\ todo \in Rest /\ Place(<<>>, todo) /\ FirstOp(todo) = "clr" /\ todo # <<>>
  BY NextIns DEF At, FirstOp, WriteOps
<1> QED
  BY <1>1, FirstOps, ReadyNow DEF Place, Finalizing, Ending

\* Where the type of the new image is stored.
LEMMA NewTypePlaces ==
  ASSUME PlaceInv, At("newtype")
  PROVE  ~failed /\ Ending /\ todo = F8
<1>1. ~failed /\ todo \in Rest /\ Place(<<>>, todo) /\ FirstOp(todo) = "newtype" /\ todo # <<>>
  BY NextIns DEF At, FirstOp, WriteOps
<1> QED
  BY <1>1, FirstOps, ReadyNow DEF Place, Finalizing, Ending

\* Where the new image is made current: its type is in the table then, unless
\* FICA_initialize has replaced the table.
LEMMA ActivatePlaces ==
  ASSUME PlaceInv, At("activate")
  PROVE  /\ ~failed /\ Ending /\ todo = F4
         /\ \/ s_fica.newType = file.bank /\ "NAP" \in s_fica.comm /\ Clear(s_fica, {"NAI"})
            \/ "NAP" \notin s_fica.comm
<1>1. ~failed /\ todo \in Rest /\ Place(<<>>, todo) /\ FirstOp(todo) = "activate" /\ todo # <<>>
  BY NextIns DEF At, FirstOp, WriteOps
<1> QED
  BY <1>1, FirstOps, ReadyNow DEF Place, Finalizing, Ending

\* Where a bank is erased or programmed: the table is prepared for it.
LEMMA PacketPlaces ==
  ASSUME PlaceInv, At("erasebank") \/ At("program")
  PROVE  /\ ~failed /\ stage = "Packet" /\ Programming
         /\ At("erasebank") => todo = P2
         /\ At("program") => todo = P1
<1>1. /\ ~failed /\ todo \in Rest /\ Place(<<>>, todo) /\ FirstOp(todo) \in {"erasebank", "program"}
      /\ todo # <<>>
  BY NextIns DEF At, FirstOp, WriteOps
<1>2. stage = "Packet" /\ Programming /\ todo \in {P1, P2}
  BY <1>1, FirstOps DEF Place, Finalizing
<1> QED
  BY <1>1, <1>2, FirstOps DEF At, FirstOp

-----------------------------------------------------------------------------
(* From place to place.                                                    *)

\* Headers, and what the steps make of them.
LEMMA HeaderFacts ==
  /\ Erased \in Headers /\ ~Erased.valid
  /\ Torn \in Headers /\ Torn.valid
  /\ Zeroed \in Headers /\ ~Zeroed.valid
  /\ Factory \in Headers /\ Factory.valid /\ "NAP" \notin Factory.comm
BY DEF Erased, Torn, Zeroed, Factory, Headers, Flags, Banks

\* Setting or clearing a bit changes nothing else of a header.
LEMMA BitFacts ==
  ASSUME NEW h \in Headers, NEW f \in Flags
  PROVE  LET on == [h EXCEPT !.comm = @ \union {f}]
             off == [h EXCEPT !.comm = @ \ {f}]
         IN  /\ on \in Headers /\ off \in Headers
             /\ on.comm = h.comm \union {f} /\ off.comm = h.comm \ {f}
             /\ on.valid = h.valid /\ off.valid = h.valid
             /\ on.currType = h.currType /\ off.currType = h.currType
             /\ on.newType = h.newType /\ off.newType = h.newType
             /\ on.currBootType = h.currBootType /\ off.currBootType = h.currBootType
             /\ f \in h.comm => on = h
             /\ f \notin h.comm => off = h
<1>1. f \in h.comm => h.comm \union {f} = h.comm
  OBVIOUS
<1>2. f \notin h.comm => h.comm \ {f} = h.comm
  OBVIOUS
<1>3. h.comm \union {f} \in SUBSET Flags /\ h.comm \ {f} \in SUBSET Flags
  BY DEF Headers
<1> QED
  BY <1>1, <1>2, <1>3 DEF Headers

\* A step that reads or changes the header in RAM, and goes on with t after a
\* write of the table or without one.
LEMMA Proceed ==
  ASSUME NEW t \in Code, NEW x \in {<<>>, FICA_write_db, Records},
         todo' = x \o t, ~failed', s_fica'.valid, x = <<>> => table' = s_fica',
         ASSUME Ready(x)' PROVE Place(x, t)'
  PROVE  PlaceInv'
<1>1. x \in Writes /\ (x # <<>> => Head(x).op = "erase")
  BY NewWrites
<1>2. Ready(x)'
  BY <1>1 DEF Ready
<1> QED
  BY <1>1, <1>2, NextPlace

\* What is left to do when FICA_initialize begins a new table.
LEMMA NewTableTodo ==
  ASSUME PlaceInv, At("init"), NewTable
  PROVE  \E t \in Code :
           /\ t = Tail(todo) /\ todo' = Then(Ins("blank", ""), Records \o t)
           /\ todo' # <<>> /\ Head(todo').op = "blank"
<1>1. PICK t \in Code : t = Tail(todo)
  <2>1. todo \in Rest
    BY InitPlaces DEF Rest
  <2> QED
    BY <2>1, RestTails
<1>2. todo' = Then(Ins("blank", ""), Records \o t)
  BY <1>1 DEF NewTable, Then, Records
<1>3. Records \o t \in Seq(Instructions)
  <2>1. Records \in Seq(Instructions)
    BY InsFacts, NewWrites, SeqMonotonic DEF Writes
  <2> QED
    BY <2>1 DEF Code
<1>4. Ins("blank", "") \in Instructions /\ Ins("blank", "").op = "blank"
  BY InsFacts DEF Ops
<1>5. todo' # <<>> /\ Head(todo') = Ins("blank", "")
  BY <1>2, <1>3, <1>4, ThenFacts
<1> QED
  BY <1>1, <1>2, <1>4, <1>5

\* FICA_initialize begins a new table where there is none, or where it has not
\* looked.
LEMMA NewTablePlaces ==
  ASSUME TypeInv, PlaceInv, At("init"), NewTable,
         UNCHANGED <<table, s_newAppImgType, transferState, stage, failed, file, running>>,
         replaced => replaced', ~replaced' => ~table.valid
  PROVE  PlaceInv'
<1>1. ~failed'
  BY InitPlaces
<1>2. PICK t \in Code : t = Tail(todo) /\ todo' = Then(Ins("blank", ""), Records \o t)
  BY NewTableTodo
<1>3. NewTablePlace(t)'
  <2>1. CASE stage = "Jump" /\ todo = J2
    <3>1. t = J1
      BY <1>2, <2>1, Heads DEF Leads
    <3> QED
      BY <2>1, <3>1 DEF NewTablePlace
  <2>2. CASE stage = "Again" /\ todo = J2 /\ Kept(<<>>)
    <3>1. t = J1
      BY <1>2, <2>2, Heads DEF Leads
    <3>2. running \in Banks /\ replaced'
      BY <2>2 DEF Kept, TypeInv
    <3> QED
      BY <2>2, <3>1, <3>2 DEF NewTablePlace
  <2>3. CASE stage = "SetUsbMode" /\ todo = U2
    <3>1. t = U1
      BY <1>2, <2>3, Heads DEF Leads
    <3> QED
      BY <2>3, <3>1 DEF NewTablePlace
  <2>4. CASE stage = "ExtInit" /\ todo \in {E3, E4} /\ s_newAppImgType = file.bank
    <3>1. t \in {E2, E3}
      BY <1>2, <2>4, Heads DEF Leads
    <3> QED
      BY <2>4, <3>1 DEF NewTablePlace
  <2>5. CASE Ending /\ todo = F5
    <3>1. t = F4
      BY <1>2, <2>5, Heads DEF Leads
    <3> QED
      BY <2>5, <3>1 DEF NewTablePlace, Ending
  <2> QED
    BY <2>1, <2>2, <2>3, <2>4, <2>5, InitPlaces
<1>4. Blanking'
  BY <1>2, <1>3 DEF Blanking, Code
<1> QED
  BY <1>1, <1>4 DEF PlaceInv

\* FICA_initialize goes on at a place, with or without a table found.
LEMMA DoInitializePlace ==
  ASSUME TypeInv, PlaceInv, DoInitialize
  PROVE  PlaceInv'
<1>1. /\ At("init")
      /\ UNCHANGED <<table, s_newAppImgType, transferState, stage, failed, file, running, replaced>>
  BY DEF DoInitialize, host, counters
<1>2. ~failed'
  BY <1>1, InitPlaces
<1>3. PICK t \in Code : t = Tail(todo)
  <2>1. todo \in Rest
    BY <1>1, InitPlaces DEF Rest
  <2> QED
    BY <2>1, RestTails
<1>4. ASSUME Ready(<<>>)', s_fica' = table
      PROVE  Place(<<>>, t)'
  <2>1. CASE stage = "Jump" /\ todo = J2
    <3>1. t = J1
      BY <1>3, <2>1, Heads DEF Leads
    <3> QED
      BY <1>1, <1>4, <2>1, <3>1 DEF Place
  <2>2. CASE stage = "Again" /\ todo = J2 /\ Kept(<<>>)
    <3>1. t = J1
      BY <1>3, <2>2, Heads DEF Leads
    <3>2. Kept(<<>>)'
      BY <1>1, <2>2 DEF Kept
    <3> QED
      BY <1>1, <1>4, <2>2, <3>1, <3>2 DEF Place
  <2>3. CASE stage = "SetUsbMode" /\ todo = U2
    <3>1. t = U1
      BY <1>3, <2>3, Heads DEF Leads
    <3> QED
      BY <1>1, <1>4, <2>3, <3>1 DEF Place
  <2>4. CASE stage = "ExtInit" /\ todo \in {E3, E4} /\ s_newAppImgType = file.bank
    <3>1. t \in {E2, E3}
      BY <1>3, <2>4, Heads DEF Leads
    <3> QED
      BY <1>1, <1>4, <2>4, <3>1 DEF Place
  <2>5. CASE /\ Ending /\ todo = F5 /\ s_fica.newType = file.bank /\ "NAP" \in s_fica.comm
             /\ Clear(s_fica, {"NAI"})
    <3>1. t = F4
      BY <1>3, <2>5, Heads DEF Leads
    <3>2. s_fica' = s_fica
      BY <1>4, <2>5 DEF Ending, Settled
    <3> QED
      BY <1>1, <1>4, <2>5, <3>1, <3>2 DEF Place, Finalizing, Ending, Clear
  <2> QED
    BY <1>1, <2>1, <2>2, <2>3, <2>4, <2>5, InitPlaces
<1>5. CASE table.valid
  <2>1. s_fica' = table /\ todo' = t
    BY <1>3, <1>5 DEF DoInitialize
  <2>2. Ready(<<>>)'
    BY <1>1, <1>5, <2>1 DEF Ready
  <2> QED
    BY <1>2, <1>3, <1>4, <2>1, <2>2, NextPlaceNoWrite
<1>6. CASE ~table.valid
  <2>1. NewTable
    BY <1>6 DEF DoInitialize
  <2> QED
    BY <1>1, <1>6, <2>1, NewTablePlaces
<1> QED
  BY <1>5, <1>6

\* So it does after a failed check of the flash.
LEMMA CheckFailsPlace ==
  ASSUME TypeInv, PlaceInv, CheckFails
  PROVE  PlaceInv'
<1>1. /\ At("init") /\ NewTable /\ replaced' = (replaced \/ table.valid)
      /\ UNCHANGED <<table, s_newAppImgType, transferState, stage, failed, file, running>>
  BY DEF CheckFails, host
<1>2. (replaced => replaced') /\ (~replaced' => ~table.valid)
  BY <1>1
<1> QED
  BY <1>1, <1>2, NewTablePlaces

\* Where the sector is erased for a new table.
LEMMA BlankPlaces ==
  ASSUME PlaceInv, At("blank")
  PROVE  /\ ~failed /\ (~replaced => ~table.valid)
         /\ stage \in {"Jump", "Again", "SetUsbMode", "ExtInit", "Finalize"}
         /\ \E r \in Code : Tail(todo) = Records \o r /\ NewTablePlace(r)
<1>1. ~failed /\ Blanking
  BY NextIns DEF At
<1>2. PICK r \in Code : /\ Tail(todo) = Records \o r
                        /\ NewTablePlace(r) /\ (~replaced => ~table.valid)
  BY <1>1, BlankFacts
<1>3. stage \in {"Jump", "Again", "SetUsbMode", "ExtInit", "Finalize"}
  BY <1>2 DEF NewTablePlace
<1> QED
  BY <1>1, <1>2, <1>3

\* Then its records are to be written.
LEMMA BlankTablePlace ==
  ASSUME TypeInv, PlaceInv, BlankTable
  PROVE  PlaceInv'
<1>1. /\ At("blank") /\ s_fica' = Factory /\ todo' = Tail(todo)
      /\ UNCHANGED <<s_newAppImgType, transferState, stage, failed, file, running, replaced>>
  BY DEF BlankTable, host, counters
<1>2. ~failed'
  BY <1>1, BlankPlaces
<1>3. PICK r \in Code : Tail(todo) = Records \o r /\ NewTablePlace(r)
  BY <1>1, BlankPlaces
<1>4. Records # <<>> /\ s_fica'.valid /\ "NAP" \notin s_fica'.comm
  BY <1>1, NewWrites, HeaderFacts
<1>5. ASSUME Ready(Records)' PROVE Place(Records, r)'
  <2>1. CASE stage = "Jump" /\ r = J1
    BY <1>1, <1>5, <2>1 DEF Place
  <2>2. CASE stage = "Again" /\ r = J1 /\ running \in Banks /\ replaced
    <3>1. Kept(Records)'
      BY <1>1, <2>2 DEF Kept
    <3> QED
      BY <1>1, <1>5, <2>2, <3>1 DEF Place
  <2>3. CASE stage = "SetUsbMode" /\ r = U1
    BY <1>1, <1>5, <2>3 DEF Place
  <2>4. CASE stage = "ExtInit" /\ r \in {E3, E2} /\ s_newAppImgType = file.bank
    BY <1>1, <1>5, <2>4 DEF Place
  <2>5. CASE /\ stage = "Finalize" /\ r = F4
             /\ s_newAppImgType = file.bank /\ transferState = "FINAL"
    <3>1. Finalizing(F4)'
      BY <1>4 DEF Finalizing
    <3> QED
      BY <1>1, <1>5, <2>5, <3>1 DEF Place
  <2> QED
    BY <1>3, <2>1, <2>2, <2>3, <2>4, <2>5 DEF NewTablePlace
<1> HIDE DEF Records
<1> QED
  BY <1>1, <1>2, <1>3, <1>4, <1>5, Proceed

\* FICA_GetCurAppStartType goes on at a place, and leaves a bank as the type.
LEMMA DoGetCurPlace ==
  ASSUME TypeInv, PlaceInv, DoGetCur
  PROVE  PlaceInv'
<1>1. /\ At("getcur")
      /\ UNCHANGED <<table, s_newAppImgType, transferState, stage, failed, file, running, replaced>>
  BY DEF DoGetCur, host, counters
<1>2. ~failed' /\ Settled
  BY <1>1, GetCurPlaces
<1>3. PICK t \in Code : t = Tail(todo)
  <2>1. todo \in Rest
    BY <1>1, GetCurPlaces DEF Rest
  <2> QED
    BY <2>1, RestTails
<1>a. s_fica'.valid /\ s_fica'.currType \in Banks
  BY <1>2 DEF DoGetCur, Settled, TypeInv, Headers, Banks
<1>4. ASSUME NEW x, Ready(x)', x # <<>> => s_fica.currType \notin Banks
      PROVE  Place(x, t)'
  <2>0. CASE stage = "Again" /\ todo = J1 /\ Kept(<<>>)
    <3>1. t = <<>>
      BY <1>3, <2>0, Heads DEF Leads
    <3>2. Kept(x)'
      BY <1>1, <1>2, <1>4, <2>0 DEF Kept, Settled
    <3> QED
      BY <1>1, <1>4, <1>a, <2>0, <3>1, <3>2 DEF Place
  <2>1. CASE stage = "Jump" /\ todo = J1
    <3>1. t = <<>>
      BY <1>3, <2>1, Heads DEF Leads
    <3> QED
      BY <1>1, <1>4, <1>a, <2>1, <3>1 DEF Place
  <2>2. CASE stage = "ExtInit" /\ todo = E2 /\ s_newAppImgType = file.bank
    <3>1. t = E1
      BY <1>3, <2>2, Heads DEF Leads
    <3> QED
      BY <1>1, <1>4, <2>2, <3>1 DEF Place
  <2> QED
    BY <1>1, <2>0, <2>1, <2>2, GetCurPlaces
<1>5. CASE s_fica.currType \in Banks
  <2>1. s_fica' = s_fica /\ todo' = t
    BY <1>3, <1>5 DEF DoGetCur
  <2>2. Ready(<<>>)'
    BY <1>1, <1>2, <2>1 DEF Ready, Settled
  <2> QED
    BY <1>2, <1>3, <1>4, <2>1, <2>2, NextPlaceNoWrite
<1>6. CASE s_fica.currType \notin Banks
  <2>1. todo' = FICA_write_db \o t
    BY <1>3, <1>6 DEF DoGetCur
  <2>2. FICA_write_db # <<>>
    BY NewWrites
  <2> QED
    BY <1>2, <1>3, <1>4, <1>6, <1>a, <2>1, <2>2, Proceed
<1> QED
  BY <1>5, <1>6

\* The bit that is set or cleared.
LEMMA ArgFacts ==
  ASSUME PlaceInv, At("set") \/ At("clr")
  PROVE  Head(todo).arg \in Flags
<1>1. todo \in {U1, E1, F9, F7, F1, F6, F3, F2}
  BY SetPlaces, ClrPlaces
<1> QED
  BY <1>1, Heads DEF Flags

\* FICA_set_comm_flag goes on at a place where its bit is set.
LEMMA DoSetFlagPlace ==
  ASSUME TypeInv, PlaceInv, DoSetFlag
  PROVE  PlaceInv'
<1> DEFINE f == Head(todo).arg
           new == [table EXCEPT !.comm = @ \union {f}]
<1>1. /\ At("set") /\ UNCHANGED <<table, s_newAppImgType, transferState, stage, failed, file>>
      /\ s_fica' = new
      /\ todo' = (IF f \in table.comm THEN <<>> ELSE FICA_write_db) \o Tail(todo)
  BY DEF DoSetFlag, host
<1>2. ~failed' /\ Settled /\ table \in Headers /\ f \in Flags
  BY <1>1, SetPlaces, ArgFacts DEF TypeInv
<1>3. PICK t \in Code : t = Tail(todo)
  <2>1. todo \in Rest
    BY <1>1, SetPlaces DEF Rest
  <2> QED
    BY <2>1, RestTails
<1>4. /\ s_fica'.valid /\ s_fica'.currType = s_fica.currType /\ s_fica'.newType = s_fica.newType
      /\ s_fica'.comm = s_fica.comm \union {f} /\ (f \in table.comm => s_fica' = table)
  <2>1. /\ new.comm = table.comm \union {f} /\ new.valid = table.valid
        /\ new.currType = table.currType /\ new.newType = table.newType
        /\ f \in table.comm => new = table
    <3> HIDE DEF f
    <3> QED
      BY <1>2, BitFacts
  <2> QED
    BY <1>1, <1>2, <2>1 DEF Settled
<1> HIDE DEF new
<1>5. ASSUME NEW x, Ready(x)' PROVE Place(x, t)'
  <2>1. CASE stage = "SetUsbMode" /\ todo = U1
    <3>1. t = <<>> /\ f = "USB"
      BY <1>3, <2>1, Heads DEF Leads
    <3> HIDE DEF f
    <3> QED
      BY <1>1, <1>4, <1>5, <2>1, <3>1 DEF Place
  <2>2. CASE stage = "ExtInit" /\ todo = E1 /\ s_newAppImgType = file.bank
    <3>1. t = <<>> /\ f = "NAI"
      BY <1>3, <2>2, Heads DEF Leads
    <3> HIDE DEF f
    <3> QED
      BY <1>1, <1>4, <1>5, <2>2, <3>1 DEF Place
  <2>3. CASE Ending
    <3>1. ASSUME Finalizing(t)' PROVE Place(x, t)'
      BY <1>1, <1>5, <2>3, <3>1 DEF Place, Ending
    <3>2. CASE todo = F9
      <4>1. t = F8
        BY <1>3, <3>2, Heads DEF Leads
      <4> QED
        BY <3>1, <4>1 DEF Finalizing
    <3>3. CASE todo = F7 /\ s_fica.newType = file.bank
      <4>1. t = F6 /\ f = "NAP"
        BY <1>3, <3>3, Heads DEF Leads
      <4> HIDE DEF f
      <4> QED
        BY <1>1, <1>4, <3>1, <3>3, <4>1 DEF Finalizing
    <3>4. CASE /\ todo = F1 /\ s_fica.currType = file.bank
               /\ Clear(s_fica, {"NAI", "NAV", "NAP"})
      <4>1. t = <<>> /\ f = "OTA"
        BY <1>3, <3>4, Heads DEF Leads
      <4> HIDE DEF f
      <4> QED
        BY <1>1, <1>4, <3>1, <3>4, <4>1 DEF Finalizing, Clear
    <3>5. stage = "Finalize"
      BY <2>3 DEF Ending
    <3> QED
      BY <1>1, <3>2, <3>3, <3>4, <3>5, SetPlaces
  <2> QED
    BY <1>1, <2>1, <2>2, <2>3, SetPlaces
<1>6. CASE f \in table.comm
  <2>1. todo' = <<>> \o t /\ table' = s_fica'
    BY <1>1, <1>3, <1>4, <1>6
  <2> HIDE DEF f
  <2> QED
    BY <1>2, <1>3, <1>4, <1>5, <2>1, Proceed
<1>7. CASE f \notin table.comm
  <2>1. todo' = FICA_write_db \o t /\ FICA_write_db # <<>>
    BY <1>1, <1>3, <1>7, NewWrites
  <2> HIDE DEF f
  <2> QED
    BY <1>2, <1>3, <1>4, <1>5, <2>1, Proceed
<1> QED
  BY <1>6, <1>7

\* FICA_clr_comm_flag goes on at a place where its bit is clear.
LEMMA DoClrFlagPlace ==
  ASSUME TypeInv, PlaceInv, DoClrFlag
  PROVE  PlaceInv'
<1> DEFINE f == Head(todo).arg
           new == [table EXCEPT !.comm = @ \ {f}]
<1>1. /\ At("clr") /\ UNCHANGED <<table, s_newAppImgType, transferState, stage, failed, file>>
      /\ s_fica' = new
      /\ todo' = (IF f \in table.comm THEN FICA_write_db ELSE <<>>) \o Tail(todo)
  BY DEF DoClrFlag, host
<1>2. ~failed' /\ Settled /\ table \in Headers /\ f \in Flags /\ Ending
  BY <1>1, ClrPlaces, ArgFacts DEF TypeInv, Ending
<1>3. PICK t \in Code : t = Tail(todo)
  <2>1. todo \in Rest
    BY <1>1, ClrPlaces DEF Rest
  <2> QED
    BY <2>1, RestTails
<1>4. /\ s_fica'.valid /\ s_fica'.currType = s_fica.currType /\ s_fica'.newType = s_fica.newType
      /\ s_fica'.comm = s_fica.comm \ {f} /\ (f \notin table.comm => s_fica' = table)
  <2>1. /\ new.comm = table.comm \ {f} /\ new.valid = table.valid
        /\ new.currType = table.currType /\ new.newType = table.newType
        /\ f \notin table.comm => new = table
    <3> HIDE DEF f
    <3> QED
      BY <1>2, BitFacts
  <2> QED
    BY <1>1, <1>2, <2>1 DEF Settled
<1> HIDE DEF new
<1>5. ASSUME NEW x, Ready(x)' PROVE Place(x, t)'
  <2>1. ASSUME Finalizing(t)' PROVE Place(x, t)'
    BY <1>1, <1>2, <1>5, <2>1 DEF Place, Ending
  <2>2. CASE todo = F6 /\ s_fica.newType = file.bank /\ "NAP" \in s_fica.comm
    <3>1. t = F5 /\ f = "NAI"
      BY <1>3, <2>2, Heads DEF Leads
    <3> HIDE DEF f
    <3> QED
      BY <1>1, <1>4, <2>1, <2>2, <3>1 DEF Finalizing, Clear
  <2>3. CASE todo = F3 /\ s_fica.currType = file.bank /\ Clear(s_fica, {"NAI"})
    <3>1. t = F2 /\ f = "NAV"
      BY <1>3, <2>3, Heads DEF Leads
    <3> HIDE DEF f
    <3> QED
      BY <1>1, <1>4, <2>1, <2>3, <3>1 DEF Finalizing, Clear
  <2>4. CASE todo = F2 /\ s_fica.currType = file.bank /\ Clear(s_fica, {"NAI", "NAV"})
    <3>1. t = F1 /\ f = "NAP"
      BY <1>3, <2>4, Heads DEF Leads
    <3> HIDE DEF f
    <3> QED
      BY <1>1, <1>4, <2>1, <2>4, <3>1 DEF Finalizing, Clear
  <2> QED
    BY <1>1, <2>2, <2>3, <2>4, ClrPlaces
<1>6. CASE f \notin table.comm
  <2>1. todo' = <<>> \o t /\ table' = s_fica'
    BY <1>1, <1>3, <1>4, <1>6
  <2> HIDE DEF f
  <2> QED
    BY <1>2, <1>3, <1>4, <1>5, <2>1, Proceed
<1>7. CASE f \in table.comm
  <2>1. todo' = FICA_write_db \o t /\ FICA_write_db # <<>>
    BY <1>1, <1>3, <1>7, NewWrites
  <2> HIDE DEF f
  <2> QED
    BY <1>2, <1>3, <1>4, <1>5, <2>1, Proceed
<1> QED
  BY <1>6, <1>7

\* The new type is the bank of the file.
LEMMA DoNewTypePlace ==
  ASSUME TypeInv, PlaceInv, DoNewType
  PROVE  PlaceInv'
<1>1. /\ At("newtype") /\ UNCHANGED <<table, s_newAppImgType, transferState, stage, failed, file>>
      /\ s_fica' = [s_fica EXCEPT !.newType = s_newAppImgType] /\ todo' = Tail(todo)
  BY DEF DoNewType, host
<1>2. ~failed' /\ Ending /\ todo = F8
  BY <1>1, NewTypePlaces
<1>3. todo' = FICA_write_db \o F7 /\ F7 \in Code /\ FICA_write_db # <<>>
  BY <1>1, <1>2, Heads, NewWrites DEF Leads
<1>4. s_fica'.valid /\ s_fica'.newType = file'.bank
  BY <1>1, <1>2 DEF TypeInv, Headers, Ending, Settled
<1>5. ASSUME NEW x, Ready(x)' PROVE Place(x, F7)'
  <2>1. Finalizing(F7)'
    BY <1>4 DEF Finalizing
  <2> QED
    BY <1>1, <1>2, <1>5, <2>1 DEF Place, Ending
<1> QED
  BY <1>2, <1>3, <1>4, <1>5, Proceed

\* Activation makes the bank of the file current, or fails.
LEMMA DoActivatePlace ==
  ASSUME TypeInv, PlaceInv, DoActivate
  PROVE  PlaceInv'
<1>1. At("activate") /\ UNCHANGED <<table, transferState, stage, file>>
  BY DEF DoActivate, host
<1>2. Ending /\ todo = F4 /\ table = s_fica /\ table \in Headers /\ file.bank # "NONE"
  BY <1>1, ActivatePlaces DEF Ending, Settled, TypeInv, Banks
<1>3. CASE "NAP" \notin table.comm
  <2>1. failed' /\ todo' = <<>> /\ stage' = "Finalize"
    BY <1>1, <1>2, <1>3 DEF DoActivate, Ending
  <2> QED
    BY <2>1 DEF PlaceInv
<1>4. CASE "NAP" \in table.comm
  <2>1. table.newType = file.bank /\ Clear(table, {"NAI"})
    BY <1>1, <1>2, <1>4, ActivatePlaces
  <2>2. /\ ~failed' /\ s_newAppImgType' = file'.bank /\ todo' = Tail(todo)
        /\ s_fica' = [table EXCEPT !.currType = table.newType]
    BY <1>1, <1>2, <1>4, <2>1 DEF DoActivate
  <2>3. todo' = FICA_write_db \o F3 /\ F3 \in Code /\ FICA_write_db # <<>>
    BY <1>2, <2>2, Heads, NewWrites DEF Leads
  <2>4. s_fica'.valid /\ s_fica'.currType = file'.bank /\ Clear(s_fica', {"NAI"})
    BY <1>1, <1>2, <2>1, <2>2 DEF Headers, Ending, Settled, Clear
  <2>5. ASSUME NEW x, Ready(x)' PROVE Place(x, F3)'
    <3>1. Finalizing(F3)'
      BY <2>4 DEF Finalizing
    <3> QED
      BY <1>1, <1>2, <2>2, <2>5, <3>1 DEF Place, Ending
  <2> QED
    BY <2>2, <2>3, <2>4, <2>5, Proceed
<1> QED
  BY <1>3, <1>4

\* Between two steps of a write of the table.
LEMMA WritePlaces ==
  ASSUME PlaceInv, At("erase") \/ At("header") \/ At("pages")
  PROVE  /\ ~failed
         /\ stage \in {"Jump", "Again", "SetCur", "SetUsbMode", "ExtInit", "Finalize"}
         /\ stage \in {"Again", "SetCur"} => replaced
         /\ \E x \in Writes, r \in Code :
              /\ x # <<>> /\ Head(x) = Head(todo) /\ Tail(x) \in Writes
              /\ todo = x \o r /\ Tail(todo) = Tail(x) \o r /\ Place(x, r) /\ Ready(x)
<1>1. todo # <<>> /\ Head(todo).op \in WriteOps
  BY DEF At, WriteOps
<1>2. ~failed
  BY <1>1, NextIns
<1>3. PICK x \in Writes, r \in Code :
        /\ x # <<>> /\ Head(x) = Head(todo) /\ Tail(x) \in Writes
        /\ todo = x \o r /\ Tail(todo) = Tail(x) \o r /\ Place(x, r)
  BY <1>1, NextIns
<1>4. /\ Ready(x) /\ stage \in {"Jump", "Again", "SetCur", "SetUsbMode", "ExtInit", "Finalize"}
      /\ stage \in {"Again", "SetCur"} => replaced
  BY <1>3 DEF Place, Kept
<1> QED
  BY <1>2, <1>3, <1>4

\* A step of FICA_write_db leaves the rest of the writes, at the same
\* remainder.
LEMMA WriteTablePlace ==
  ASSUME TypeInv, PlaceInv, WriteTable
  PROVE  PlaceInv'
<1>1. /\ At("erase") \/ At("header") \/ At("pages")
      /\ UNCHANGED <<s_fica, s_newAppImgType, transferState, stage, failed, file, running, replaced>>
      /\ todo' = Tail(todo)
      /\ \/ At("erase") /\ table' = Erased
         \/ At("header") /\ table' = s_fica
         \/ At("pages") /\ table' = table
  BY DEF WriteTable, host, counters
<1>2. ~failed' /\ (stage \in {"Again", "SetCur"} => replaced)
  BY <1>1, WritePlaces
<1>3. PICK x \in Writes, r \in Code :
        /\ x # <<>> /\ Head(x) = Head(todo) /\ Tail(x) \in Writes
        /\ todo = x \o r /\ Tail(todo) = Tail(x) \o r /\ Place(x, r) /\ Ready(x)
  BY <1>1, WritePlaces
<1>4. PICK y \in Writes : y = Tail(x)
  BY <1>3
<1>5. /\ Head(x).op = "erase" => y # <<>> /\ Head(y).op = "header"
      /\ Head(x).op = "header" => y # <<>> /\ Head(y).op = "pages"
      /\ Head(x).op = "pages" /\ y # <<>> => Head(y).op = "erase"
  <2>1. x # <<>>
    BY <1>3
  <2>2. /\ Head(x).op = "erase" => Tail(x) # <<>> /\ Head(Tail(x)).op = "header"
        /\ Head(x).op = "header" => Tail(x) # <<>> /\ Head(Tail(x)).op = "pages"
        /\ Head(x).op = "pages" /\ Tail(x) # <<>> => Head(Tail(x)).op = "erase"
    BY <2>1, WritesFacts
  <2> QED
    BY <1>4, <2>2
<1>6. Ready(y)'
  <2>1. CASE At("erase") /\ table' = Erased
    <3>1. Head(x).op = "erase"
      BY <1>3, <2>1 DEF At
    <3> QED
      BY <1>1, <1>3, <1>5, <2>1, <3>1 DEF Ready
  <2>2. CASE At("header") /\ table' = s_fica
    <3>1. Head(x).op = "header"
      BY <1>3, <2>2 DEF At
    <3> QED
      BY <1>1, <1>3, <1>5, <2>2, <3>1 DEF Ready
  <2>3. CASE At("pages") /\ table' = table
    <3>1. Head(x).op = "pages"
      BY <1>3, <2>3 DEF At
    <3> QED
      BY <1>1, <1>3, <1>5, <2>3, <3>1 DEF Ready
  <2> QED
    BY <1>1, <2>1, <2>2, <2>3
<1>7. Place(y, r)'
  <2>1. Finalizing(r) => Finalizing(r)'
    BY <1>1 DEF Finalizing
  <2>2. stage = "Again" /\ Kept(x) => Kept(y)'
    BY <1>1, <1>2 DEF Kept
  <2>3. x # <<>>
    BY <1>3
  <2> QED
    BY <1>1, <1>2, <1>3, <1>6, <2>1, <2>2, <2>3 DEF Place
<1>8. todo' = y \o r
  BY <1>1, <1>3, <1>4
<1> QED
  BY <1>2, <1>7, <1>8, NextPlace

\* FICA_Erase_Bank touches no table.
LEMMA EraseBankPlace ==
  ASSUME PlaceInv, EraseBank
  PROVE  PlaceInv'
<1>1. /\ At("erasebank") /\ todo' = Tail(todo)
      /\ UNCHANGED <<table, s_fica, s_newAppImgType, transferState, stage, failed, file>>
  BY DEF EraseBank, host
<1>2. ~failed /\ stage = "Packet" /\ Programming /\ todo = P2
  BY <1>1, PacketPlaces
<1>3. todo' = P1 /\ P1 \in Code
  BY <1>1, <1>2, Heads DEF Leads
<1>4. Place(<<>>, P1)'
  BY <1>1, <1>2 DEF Place, Programming
<1> QED
  BY <1>1, <1>2, <1>3, <1>4, NextPlaceNoWrite

\* FICA_app_program_ext_abs touches no table, and the checked bit is there.
LEMMA ProgramPlace ==
  ASSUME PlaceInv, Program
  PROVE  PlaceInv'
<1>1. /\ At("program") /\ todo' = <<>> /\ UNCHANGED <<table, s_newAppImgType, stage, file>>
      /\ failed' = (packet > BankSize \/ "NAI" \notin table.comm)
      /\ s_fica' = IF packet > BankSize THEN s_fica ELSE table
  BY DEF Program, host
<1>2. stage = "Packet" /\ Programming
  BY <1>1, PacketPlaces
<1>3. CASE failed'
  BY <1>1, <1>2, <1>3 DEF PlaceInv
<1>4. CASE ~failed'
  <2>1. Place(<<>>, <<>>)'
    BY <1>1, <1>2 DEF Place, Programming
  <2>2. <<>> \in Code
    BY DEF Code
  <2> QED
    BY <1>1, <1>4, <2>1, <2>2, NextPlaceNoWrite
<1> QED
  BY <1>3, <1>4

\* After a flash error nothing is left to do.
LEMMA FaultPlace ==
  ASSUME PlaceInv, Fault
  PROVE  PlaceInv'
<1>1. /\ \/ At("blank") \/ At("erase") \/ At("header") \/ At("pages")
         \/ At("erasebank") \/ At("program")
      /\ todo' = <<>> /\ failed' = TRUE /\ stage' = stage
  BY DEF Fault
<1>2. stage \in {"Jump", "Again", "SetCur", "SetUsbMode", "ExtInit", "Finalize", "Packet"}
  BY <1>1, BlankPlaces, WritePlaces, PacketPlaces
<1> QED
  BY <1>1, <1>2 DEF PlaceInv

\* A task that has nothing left to do.
LEMMA DonePlaces ==
  ASSUME PlaceInv, todo = <<>>, ~failed
  PROVE  /\ stage = "Jump" => Settled /\ s_fica.currType \in Banks
         /\ stage = "Again" => Settled /\ s_fica.currType \in Banks /\ Kept(<<>>)
         /\ stage = "SetUsbMode" => Settled /\ "USB" \in s_fica.comm
         /\ stage = "ExtInit" => /\ Settled /\ "NAI" \in s_fica.comm
                                 /\ s_newAppImgType = file.bank
         /\ stage = "Packet" => Programming
         /\ stage = "Finalize" => /\ Ending /\ s_fica.currType = file.bank
                                  /\ Clear(s_fica, {"NAI", "NAV", "NAP"})
         /\ stage = "Usb" => (transferState = "ACTIVE" => Programming)
<1>1. PICK x \in Writes, r \in Seq(Instructions) : todo = x \o r /\ Place(x, r)
  BY BlankFacts DEF PlaceInv
<1>2. x = <<>> /\ r = <<>>
  BY <1>1, PrefixFacts
<1>3. Place(<<>>, <<>>)
  BY <1>1, <1>2
<1>4. <<>> \notin Rest
  BY RestFacts
<1>5. <<>> \notin {J1, J2, U1, U2, E1, E2, E3, E4, F2, F3, F4, F5, F6, F7, F8, F9}
  BY <1>4 DEF Rest
<1> QED
  BY <1>3, <1>5, ReadyNow DEF Place, Finalizing, Ending

\* Outside the functions that work on the flash nothing is left to do.
LEMMA IdlePlaces ==
  ASSUME PlaceInv, stage \in {"Boot", "Usb", "ReRun", "App", "Lost"}
  PROVE  ~failed /\ todo = <<>>
<1>1. ~failed
  BY DEF PlaceInv
<1>a. ~Blanking
  BY DEF Blanking, NewTablePlace
<1>2. PICK x \in Writes, r \in Seq(Instructions) : todo = x \o r /\ Place(x, r)
  BY <1>1, <1>a DEF PlaceInv
<1>3. x = <<>> /\ r = <<>>
  BY <1>2 DEF Place
<1> QED
  BY <1>1, <1>2, <1>3, PrefixFacts

\* The tasks: functions called, functions returned.
LEMMA NothingLeft ==
  ASSUME todo' = <<>>, ~failed', Place(<<>>, <<>>)'
  PROVE  PlaceInv'
<1>1. <<>> \in Code
  BY DEF Code
<1> QED
  BY <1>1, NextPlaceNoWrite

\* A restart is a place, whatever the table is.
LEMMA StartPlace ==
  ASSUME Start
  PROVE  PlaceInv'
<1>1. todo' = <<>> /\ ~failed' /\ stage' = "Boot"
  BY DEF Start, Begin
<1>2. Place(<<>>, <<>>)'
  BY <1>1 DEF Place
<1> QED
  BY <1>1, <1>2, NothingLeft

\* The first start is a place.
LEMMA InitPlace ==
  ASSUME Init
  PROVE  PlaceInv
<1>1. todo = <<>> /\ ~failed /\ stage = "Boot"
  BY DEF Init
<1>2. Place(<<>>, <<>>)
  BY <1>1 DEF Place
<1>3. <<>> \in Writes /\ <<>> \in Seq(Instructions)
  <2>1. <<>> \in Seq(Instructions)
    OBVIOUS
  <2> QED
    BY <2>1, NewWrites
<1>4. todo = <<>> \o <<>>
  BY <1>1, <1>3, PrefixFacts
<1> QED
  BY <1>1, <1>2, <1>3, <1>4 DEF PlaceInv

\* CheckForMSDMode leads to the jump or to the USB mode.
LEMMA CheckForUpdatePlace ==
  ASSUME CheckForUpdate
  PROVE  PlaceInv'
<1>1. CASE Begin("SetUsbMode", FICA_set_usb_mode)
  <2>1. todo' = U2 /\ ~failed' /\ stage' = "SetUsbMode" /\ U2 \in Code
    BY <1>1, Programs, Heads DEF Begin, Leads
  <2>2. Place(<<>>, U2)'
    BY <2>1 DEF Place
  <2> QED
    BY <2>1, <2>2, NextPlaceNoWrite
<1>2. CASE Begin("Jump", FICA_GetCurAppStartType)
  <2>1. todo' = J2 /\ ~failed' /\ stage' = "Jump" /\ J2 \in Code
    BY <1>2, Programs, Heads DEF Begin, Leads
  <2>2. Place(<<>>, J2)'
    BY <2>1 DEF Place
  <2> QED
    BY <2>1, <2>2, NextPlaceNoWrite
<1> QED
  BY <1>1, <1>2 DEF CheckForUpdate

\* The type is asked for once more, and the table still has it.
LEMMA GotAppTypePlace ==
  ASSUME TypeInv, PlaceInv, GotAppType
  PROVE  PlaceInv'
<1>1. stage = "Jump" /\ todo = <<>>
  BY DEF GotAppType, Returns
<1>2. CASE failed
  BY <1>2, StartPlace DEF GotAppType
<1>3. CASE ~failed
  <2>1. /\ Begin("Again", FICA_GetCurAppStartType) /\ running' = s_fica.currType
        /\ UNCHANGED <<table, replaced>>
    BY <1>3 DEF GotAppType, counters
  <2>2. todo' = J2 /\ ~failed' /\ stage' = "Again" /\ J2 \in Code
    BY <2>1, Programs, Heads DEF Begin, Leads
  <2>3. Settled /\ s_fica.currType \in Banks
    BY <1>1, <1>3, DonePlaces
  <2>4. Kept(<<>>)'
    BY <2>1, <2>3 DEF Kept, Settled
  <2>5. Place(<<>>, J2)'
    BY <2>2, <2>4 DEF Place
  <2> QED
    BY <2>2, <2>5, NextPlaceNoWrite
<1> QED
  BY <1>2, <1>3

\* After the jump nothing is left to do; another type in the table takes a
\* table that was replaced.
LEMMA JumpToAppPlace ==
  ASSUME TypeInv, PlaceInv, JumpToApp
  PROVE  PlaceInv'
<1>1. CASE Returns("Again") /\ ~failed /\ s_fica.currType # running
  <2>1. /\ s_fica' = [s_fica EXCEPT !.currType = running] /\ Begin("SetCur", FICA_write_db)
        /\ UNCHANGED <<table, replaced>>
    BY <1>1 DEF JumpToApp, counters
  <2>2. Settled /\ Kept(<<>>)
    BY <1>1, DonePlaces DEF Returns
  <2>3. replaced' /\ s_fica'.valid
    BY <1>1, <2>1, <2>2 DEF Settled, Kept, TypeInv, Headers
  <2>4. todo' = FICA_write_db \o <<>> /\ ~failed' /\ stage' = "SetCur"
    <3>1. FICA_write_db \in Seq(WriteIns)
      BY NewWrites DEF Writes
    <3>2. FICA_write_db \o <<>> = FICA_write_db
      BY <3>1, ConcatEmptySeq
    <3> QED
      BY <2>1, <3>2 DEF Begin
  <2>5. ASSUME Ready(FICA_write_db)' PROVE Place(FICA_write_db, <<>>)'
    BY <2>3, <2>4, <2>5 DEF Place
  <2>6. <<>> \in Code /\ FICA_write_db # <<>>
    BY NewWrites DEF Code
  <2> QED
    BY <2>3, <2>4, <2>5, <2>6, Proceed
<1>2. CASE ~(Returns("Again") /\ ~failed /\ s_fica.currType # running)
  <2>1. todo' = <<>> /\ ~failed' /\ stage' = "App"
    BY <1>2 DEF JumpToApp, Begin
  <2>2. Place(<<>>, <<>>)'
    BY <2>1 DEF Place
  <2> QED
    BY <2>1, <2>2, NothingLeft
<1> QED
  BY <1>1, <1>2

\* The USB disk begins without a transfer.
LEMMA UsbInitPlace ==
  ASSUME UsbInit
  PROVE  PlaceInv'
<1>1. todo' = <<>> /\ ~failed' /\ stage' = "Usb" /\ transferState' = "IDLE"
  BY DEF UsbInit, Begin
<1>2. Place(<<>>, <<>>)'
  BY <1>1 DEF Place
<1> QED
  BY <1>1, <1>2, NothingLeft

\* A directory entry begins a transfer for which nothing is prepared yet.
LEMMA WriteDirectoryPlace ==
  ASSUME PlaceInv, WriteDirectory
  PROVE  PlaceInv'
<1>1. stage = "Usb" /\ UNCHANGED <<stage, todo, failed>> /\ transferState' = "START"
  BY DEF WriteDirectory
<1>2. todo' = <<>> /\ ~failed'
  BY <1>1, IdlePlaces
<1>3. Place(<<>>, <<>>)'
  BY <1>1 DEF Place
<1> QED
  BY <1>2, <1>3, NothingLeft

\* The first packet prepares the table for its bank.
LEMMA WriteFirstPlace ==
  ASSUME TypeInv, PlaceInv, NEW i \in Sectors, WriteFirst(i)
  PROVE  PlaceInv'
<1>1. /\ stage = "Usb" /\ transferState' = "START"
      /\ file' = [file EXCEPT !.sent = @ \union ({i} \ Others)]
  BY DEF WriteFirst
<1>2. todo = <<>> /\ ~failed
  BY <1>1, IdlePlaces
<1>3. CASE i = 1
  <2>1. /\ todo' = E4 /\ ~failed' /\ stage' = "ExtInit" /\ E4 \in Code
        /\ s_newAppImgType' = file.bank
    BY <1>3, Programs, Heads DEF WriteFirst, Begin, Leads
  <2>2. s_newAppImgType' = file'.bank
    BY <1>1, <2>1 DEF TypeInv
  <2>3. Place(<<>>, E4)'
    BY <2>1, <2>2 DEF Place
  <2> QED
    BY <2>1, <2>3, NextPlaceNoWrite
<1>4. CASE i # 1
  <2>1. UNCHANGED <<stage, todo, failed>>
    BY <1>4 DEF WriteFirst
  <2>2. Place(<<>>, <<>>)'
    BY <1>1, <2>1 DEF Place
  <2> QED
    BY <1>2, <2>1, <2>2, NothingLeft
<1> QED
  BY <1>3, <1>4

\* A table that is prepared lets the first packet be programmed.
LEMMA ExtInitReturnsPlace ==
  ASSUME TypeInv, PlaceInv, ExtInitReturns
  PROVE  PlaceInv'
<1>1. /\ stage = "ExtInit" /\ todo = <<>>
      /\ UNCHANGED <<table, s_fica, s_newAppImgType, file>>
  BY DEF ExtInitReturns, Returns, host
<1>2. CASE failed
  <2>1. todo' = <<>> /\ ~failed' /\ stage' = "ReRun" /\ transferState' = "ERROR"
    BY <1>2 DEF ExtInitReturns, Begin
  <2>2. Place(<<>>, <<>>)'
    BY <2>1 DEF Place
  <2> QED
    BY <2>1, <2>2, NothingLeft
<1>3. CASE ~failed
  <2>1. todo' = P2 /\ ~failed' /\ stage' = "Packet" /\ P2 \in Code
    BY <1>3, Programs, Heads DEF ExtInitReturns, Begin, Leads
  <2>2. Programming'
    BY <1>1, <1>3, DonePlaces DEF Programming, Settled
  <2>3. Place(<<>>, P2)'
    BY <2>1, <2>2 DEF Place
  <2> QED
    BY <2>1, <2>3, NextPlaceNoWrite
<1> QED
  BY <1>2, <1>3 DEF TypeInv

\* A later packet finds the table still prepared.
LEMMA WritePacketPlace ==
  ASSUME TypeInv, PlaceInv, NEW i \in Sectors, WritePacket(i)
  PROVE  PlaceInv'
<1>1. /\ stage = "Usb" /\ transferState = "ACTIVE"
      /\ file' = [file EXCEPT !.sent = @ \union ({i} \ Others)]
      /\ UNCHANGED <<table, s_fica, s_newAppImgType>>
  BY DEF WritePacket
<1>2. Programming
  BY <1>1, IdlePlaces, DonePlaces
<1>3. Programming'
  BY <1>1, <1>2 DEF Programming, TypeInv
<1>4. todo' = P2 /\ ~failed' /\ stage' = "Packet" /\ P2 \in Code
  BY Programs, Heads DEF WritePacket, Begin, Leads
<1>5. Place(<<>>, P2)'
  BY <1>3, <1>4 DEF Place
<1> QED
  BY <1>4, <1>5, NextPlaceNoWrite

\* A packet is followed by the next, by the end of the transfer or by an
\* error.
LEMMA PacketReturnsPlace ==
  ASSUME TypeInv, PlaceInv, PacketReturns
  PROVE  PlaceInv'
<1>1. /\ stage = "Packet" /\ todo = <<>> /\ failed \in BOOLEAN
      /\ UNCHANGED <<table, s_fica, s_newAppImgType, file>>
  BY DEF PacketReturns, Returns, host, TypeInv
<1>2. CASE failed
  <2>1. todo' = <<>> /\ ~failed' /\ stage' = "ReRun" /\ transferState' = "ERROR"
    BY <1>2 DEF PacketReturns, Begin
  <2>2. Place(<<>>, <<>>)'
    BY <2>1 DEF Place
  <2> QED
    BY <2>1, <2>2, NothingLeft
<1>3. CASE ~failed /\ dataWritten' >= ImageLen
  <2>1. /\ todo' = FICA_write_db \o F9 /\ ~failed' /\ stage' = "Finalize" /\ F9 \in Code
        /\ transferState' = "FINAL" /\ FICA_write_db # <<>>
    <3>1. /\ todo' = FICA_app_program_ext_finalize \o FICA_app_program_ext_set_reset_vector
          /\ ~failed' /\ stage' = "Finalize" /\ transferState' = "FINAL"
      BY <1>3 DEF PacketReturns, Begin
    <3>2. FICA_app_program_ext_finalize \o FICA_app_program_ext_set_reset_vector
            = FICA_write_db \o F9
      BY Programs
    <3>3. F9 \in Code
      BY Heads DEF Leads
    <3> QED
      BY <3>1, <3>2, <3>3, NewWrites
  <2>2. Programming
    BY <1>1, <1>3, DonePlaces
  <2>3. s_fica'.valid /\ s_newAppImgType' = file'.bank
    BY <1>1, <2>2 DEF Programming
  <2>4. ASSUME NEW x, Ready(x)' PROVE Place(x, F9)'
    <3>1. Finalizing(F9)'
      BY DEF Finalizing
    <3> QED
      BY <2>1, <2>3, <2>4, <3>1 DEF Place
  <2> QED
    BY <2>1, <2>3, <2>4, Proceed
<1>4. CASE ~failed /\ ~(dataWritten' >= ImageLen)
  <2>1. todo' = <<>> /\ ~failed' /\ stage' = "Usb" /\ transferState' = transferState
    BY <1>4 DEF PacketReturns, Begin
  <2>2. Programming'
    BY <1>1, <1>4, DonePlaces DEF Programming
  <2>3. Place(<<>>, <<>>)'
    BY <2>1, <2>2 DEF Place
  <2> QED
    BY <2>1, <2>3, NothingLeft
<1> QED
  BY <1>1, <1>2, <1>3, <1>4

\* After a transfer the boot loader starts over.
LEMMA FinalizeReturnsPlace ==
  ASSUME FinalizeReturns
  PROVE  PlaceInv'
<1>1. todo' = <<>> /\ ~failed' /\ stage' = "ReRun"
  BY DEF FinalizeReturns, Begin
<1>2. Place(<<>>, <<>>)'
  BY <1>1 DEF Place
<1> QED
  BY <1>1, <1>2, NothingLeft

\* The restart after a transfer is a place.
LEMMA ReRunBootloaderPlace ==
  ASSUME ReRunBootloader
  PROVE  PlaceInv'
<1>1. CASE Start
  BY <1>1, StartPlace
<1>2. CASE Begin("Lost", <<>>)
  <2>1. todo' = <<>> /\ ~failed' /\ stage' = "Lost"
    BY <1>2 DEF Begin
  <2>2. Place(<<>>, <<>>)'
    BY <2>1 DEF Place
  <2> QED
    BY <2>1, <2>2, NothingLeft
<1> QED
  BY <1>1, <1>2 DEF ReRunBootloader

\* Every step leads from place to place.
LEMMA NextPlaces ==
  ASSUME TypeInv, PlaceInv, [Next]_vars
  PROVE  PlaceInv'
<1>1. CASE Table
  BY <1>1, DoInitializePlace, DoGetCurPlace, DoSetFlagPlace, DoClrFlagPlace, DoNewTypePlace,
     DoActivatePlace, WriteTablePlace, BlankTablePlace DEF Table
<1>2. CASE Loader
  BY <1>1, <1>2, EraseBankPlace, ProgramPlace, GotAppTypePlace, JumpToAppPlace, UsbInitPlace,
     ExtInitReturnsPlace, PacketReturnsPlace, FinalizeReturnsPlace, ReRunBootloaderPlace DEF Loader
<1>3. CASE Host
  BY <1>3, WriteDirectoryPlace, WriteFirstPlace, WritePacketPlace DEF Host
<1>4. CASE Reset \/ Crash
  BY <1>4, StartPlace DEF Reset, Crash
<1>5. CASE UNCHANGED vars
  <2>1. UNCHANGED <<table, s_fica, s_newAppImgType, transferState, file, stage, todo, failed,
                    running, replaced>>
    BY <1>5 DEF vars
  <2>2. \A x, r : Place(x, r) => Place(x, r)'
    BY <2>1 DEF Place, Ready, Programming, Finalizing, Kept
  <2>3. Blanking => Blanking'
    BY <2>1 DEF Blanking, NewTablePlace
  <2> QED
    BY <2>1, <2>2, <2>3 DEF PlaceInv
<1> QED
  BY <1>2, <1>3, <1>4, <1>5, CheckForUpdatePlace, FaultPlace, CheckFailsPlace DEF Next

-----------------------------------------------------------------------------
(* The types.                                                              *)

\* The types at the first start.
LEMMA InitTypes ==
  ASSUME Init
  PROVE  TypeInv
<1>1. \A a \in Sectors : (IF a \in BankSize+1 .. 2*BankSize THEN 0 ELSE 1) \in 0..(MaxTransfers + 1)
  BY UpdateAssumption
<1>2. flash \in [Sectors -> 0..(MaxTransfers + 1)]
  BY <1>1 DEF Init
<1>3. /\ table \in Headers /\ s_fica \in Headers
      /\ file \in [bank : Banks, sent : SUBSET (1..ImageLen)]
  BY HeaderFacts DEF Init, NoFile, Banks
<1>4. /\ dataWritten \in 0..ImageLen /\ packet \in 0..(BankSize + BlockSize)
      /\ transfers \in 0..MaxTransfers /\ crashes \in Nat /\ faults \in Nat
  BY UpdateAssumption DEF Init
<1> QED
  BY <1>2, <1>3, <1>4 DEF Init, TypeInv, Stages

\* The steps on the table change only it, its copy in RAM, the new type and
\* what is left to do.
LEMMA TableTypes ==
  ASSUME TypeInv, PlaceInv, Table
  PROVE  TypeInv'
<1>1. table \in Headers /\ s_fica \in Headers /\ s_newAppImgType \in Banks \union {"NONE"}
  BY DEF TypeInv
<1>2. /\ table' \in Headers /\ s_fica' \in Headers
      /\ s_newAppImgType' \in Banks \union {"NONE"}
      /\ failed' \in BOOLEAN
      /\ UNCHANGED <<flash, transferState, dataWritten, packet, stage, raw, running, file,
                     transfers, crashes, faults, replaced>>
  <2>1. CASE DoInitialize
    BY <1>1, <2>1, HeaderFacts DEF DoInitialize, NewTable, host, counters, TypeInv
  <2>2. CASE DoGetCur
    <3>1. [s_fica EXCEPT !.currType = "A"] \in Headers
      BY <1>1 DEF Headers, Banks
    <3> QED
      BY <1>1, <2>2, <3>1 DEF DoGetCur, host, counters, TypeInv
  <2>3. CASE DoSetFlag
    <3>1. Head(todo).arg \in Flags
      BY <2>3, ArgFacts DEF DoSetFlag
    <3>2. [table EXCEPT !.comm = @ \union {Head(todo).arg}] \in Headers
      BY <1>1, <3>1, BitFacts
    <3> QED
      BY <1>1, <2>3, <3>2 DEF DoSetFlag, host, counters, TypeInv
  <2>4. CASE DoClrFlag
    <3>1. Head(todo).arg \in Flags
      BY <2>4, ArgFacts DEF DoClrFlag
    <3>2. [table EXCEPT !.comm = @ \ {Head(todo).arg}] \in Headers
      BY <1>1, <3>1, BitFacts
    <3> QED
      BY <1>1, <2>4, <3>2 DEF DoClrFlag, host, counters, TypeInv
  <2>5. CASE DoNewType
    <3>1. [s_fica EXCEPT !.newType = s_newAppImgType] \in Headers
      BY <1>1 DEF Headers
    <3> QED
      BY <1>1, <2>5, <3>1 DEF DoNewType, host, counters, TypeInv
  <2>6. CASE DoActivate
    <3>1. "NAP" \in table.comm => table.newType \in Banks
      BY <2>6, ActivatePlaces DEF DoActivate, Ending, Settled, TypeInv
    <3>2. [table EXCEPT !.currType = table.newType] \in Headers
      BY <1>1, <3>1 DEF Headers
    <3>3. failed' \in BOOLEAN
      BY <2>6 DEF DoActivate
    <3> QED
      BY <1>1, <2>6, <3>1, <3>2, <3>3 DEF DoActivate, host, counters
  <2>7. CASE WriteTable
    BY <1>1, <2>7, HeaderFacts DEF WriteTable, host, counters, TypeInv
  <2>8. CASE BlankTable
    BY <1>1, <2>8, HeaderFacts DEF BlankTable, host, counters, TypeInv
  <2> QED
    BY <2>1, <2>2, <2>3, <2>4, <2>5, <2>6, <2>7, <2>8 DEF Table
<1> QED
  BY <1>2 DEF TypeInv

\* The failed check.
LEMMA CheckTypes ==
  ASSUME TypeInv, CheckFails
  PROVE  TypeInv'
<1>0. s_fica' = Zeroed /\ faults' = faults + 1
  BY DEF CheckFails, NewTable
<1>1. s_fica' \in Headers /\ faults' \in Nat
  BY <1>0, HeaderFacts DEF TypeInv
<1>2. replaced' \in BOOLEAN
  BY DEF CheckFails
<1> QED
  BY <1>1, <1>2 DEF CheckFails, TypeInv, host

\* The steps on the banks.
LEMMA FlashTypes ==
  ASSUME TypeInv, EraseBank \/ Program \/ Fault
  PROVE  TypeInv'
<1>1. /\ UNCHANGED <<table, s_newAppImgType, transferState, dataWritten, packet, stage, running,
                     file, transfers, crashes, replaced>>
      /\ faults' \in Nat /\ failed' \in BOOLEAN /\ raw' \in BOOLEAN /\ s_fica' \in Headers
  <2>1. CASE EraseBank
    BY <2>1 DEF EraseBank, host, counters, TypeInv
  <2>2. CASE Program
    <3>1. failed' \in BOOLEAN
      BY <2>2 DEF Program
    <3> QED
      BY <2>2, <3>1 DEF Program, host, counters, TypeInv
  <2>3. CASE Fault
    <3>1. raw' \in BOOLEAN
      BY <2>3 DEF Fault, PassedOn
    <3> QED
      BY <2>3, <3>1 DEF Fault, host, TypeInv
  <2> QED
    BY <2>1, <2>2, <2>3
<1>2. flash' \in [Sectors -> 0..(MaxTransfers + 1)]
  <2>1. CASE EraseBank
    <3>1. \A a \in Sectors : 0 \in 0..(MaxTransfers + 1) /\ flash[a] \in 0..(MaxTransfers + 1)
      BY UpdateAssumption DEF TypeInv
    <3> QED
      BY <2>1, <3>1 DEF EraseBank
  <2>2. CASE Program
    <3>1. transfers + 1 \in 0..(MaxTransfers + 1)
      BY UpdateAssumption DEF TypeInv
    <3> QED
      BY <2>2, <3>1 DEF Program, TypeInv
  <2>3. CASE Fault
    BY <2>3 DEF Fault, TypeInv
  <2> QED
    BY <2>1, <2>2, <2>3
<1> QED
  BY <1>1, <1>2 DEF TypeInv

\* A restart keeps the types, whatever header it finds.
LEMMA StartTypes ==
  ASSUME TypeInv, Start, table' \in Headers, crashes' \in Nat
  PROVE  TypeInv'
<1>1. /\ s_fica' \in Headers /\ file' \in [bank : Banks, sent : SUBSET (1..ImageLen)]
      /\ dataWritten' \in 0..ImageLen /\ packet' \in 0..(BankSize + BlockSize)
  BY HeaderFacts, UpdateAssumption DEF Start, NoFile, Banks
<1> QED
  BY <1>1 DEF TypeInv, Start, Begin, Stages

\* The tasks.
LEMMA TaskTypes ==
  ASSUME TypeInv, PlaceInv,
         \/ CheckForUpdate \/ GotAppType \/ JumpToApp \/ UsbInit \/ ExtInitReturns
         \/ PacketReturns \/ FinalizeReturns \/ ReRunBootloader \/ Reset \/ Crash
  PROVE  TypeInv'
<1>1. CASE CheckForUpdate
  BY <1>1 DEF CheckForUpdate, Begin, TypeInv, Stages, host, counters
<1>2. CASE GotAppType
  <2>1. CASE failed
    BY <1>2, <2>1, StartTypes DEF GotAppType, TypeInv
  <2>2. CASE ~failed
    <3>1. s_fica.currType \in Banks
      BY <1>2, <2>2, DonePlaces DEF GotAppType, Returns
    <3> QED
      BY <1>2, <2>2, <3>1 DEF GotAppType, Begin, TypeInv, Stages, host, counters
  <2> QED
    BY <2>1, <2>2
<1>a. CASE JumpToApp
  <2>1. s_fica' \in Headers
    <3>1. [s_fica EXCEPT !.currType = running] \in Headers
      BY DEF TypeInv, Headers
    <3> QED
      BY <1>a, <3>1 DEF JumpToApp, TypeInv
  <2>2. stage' \in {"SetCur", "App"} /\ failed' = FALSE /\ raw' = FALSE
    BY <1>a DEF JumpToApp, Begin
  <2> QED
    BY <1>a, <2>1, <2>2 DEF JumpToApp, TypeInv, Stages, host, counters
<1>3. CASE UsbInit
  <2>1. 0 \in 0..ImageLen /\ 0 < ImageLen
    BY UpdateAssumption
  <2> QED
    BY <1>3, <2>1 DEF UsbInit, Begin, TypeInv, Stages, host, counters
<1>4. CASE ExtInitReturns
  <2>1. /\ stage = "ExtInit" /\ stage' \in {"ReRun", "Packet"} /\ failed' = FALSE /\ raw' = FALSE
        /\ transferState' \in {"ERROR", "ACTIVE"}
    BY <1>4 DEF ExtInitReturns, Begin, Returns
  <2> QED
    BY <1>4, <2>1 DEF ExtInitReturns, TypeInv, Stages, host, counters
<1>5. CASE PacketReturns
  <2>1. /\ stage = "Packet" /\ dataWritten \in 0..ImageLen /\ dataWritten < ImageLen
        /\ dataWritten' = (IF failed THEN dataWritten ELSE dataWritten + 1)
        /\ UNCHANGED <<flash, table, s_fica, s_newAppImgType, packet, running, host, counters>>
    BY <1>5 DEF PacketReturns, Returns, TypeInv
  <2>2. dataWritten' \in 0..ImageLen
    BY <2>1, UpdateAssumption
  <2>3. /\ stage' \in {"ReRun", "Finalize", "Usb"} /\ failed' = FALSE /\ raw' = FALSE
        /\ transferState' \in {"ERROR", "FINAL", transferState}
        /\ stage' = "Usb" => dataWritten' < ImageLen
    <3>1. CASE failed
      BY <1>5, <3>1 DEF PacketReturns, Begin
    <3>2. CASE ~failed /\ dataWritten' >= ImageLen
      BY <1>5, <3>2 DEF PacketReturns, Begin
    <3>3. CASE ~failed /\ ~(dataWritten' >= ImageLen)
      <4>1. dataWritten' < ImageLen
        BY <2>2, <3>3, UpdateAssumption
      <4> QED
        BY <1>5, <3>3, <4>1 DEF PacketReturns, Begin
    <3> QED
      BY <3>1, <3>2, <3>3
  <2> QED
    BY <2>1, <2>2, <2>3 DEF TypeInv, Stages, host, counters
<1>6. CASE FinalizeReturns
  <2>1. /\ stage' = "ReRun" /\ failed' = FALSE /\ raw' = FALSE
        /\ transferState' \in {"ERROR", transferState}
    BY <1>6 DEF FinalizeReturns, Begin
  <2> QED
    BY <1>6, <2>1 DEF FinalizeReturns, TypeInv, Stages, host, counters
<1>7. CASE ReRunBootloader
  <2>1. CASE Start
    BY <1>7, <2>1, StartTypes DEF ReRunBootloader, TypeInv
  <2>2. CASE ~Start
    BY <1>7, <2>2 DEF ReRunBootloader, Begin, TypeInv, Stages, host
  <2> QED
    BY <2>1, <2>2
<1>8. CASE Reset
  BY <1>8, StartTypes DEF Reset, TypeInv
<1>9. CASE Crash
  <2>1. table' \in Headers /\ crashes' \in Nat
    BY <1>9, HeaderFacts DEF Crash, TypeInv
  <2> QED
    BY <1>9, <2>1, StartTypes DEF Crash
<1> QED
  BY <1>1, <1>2, <1>a, <1>3, <1>4, <1>5, <1>6, <1>7, <1>8, <1>9

\* The host.
LEMMA SentTypes ==
  ASSUME TypeInv, NEW i \in Sendable, file' = [file EXCEPT !.sent = @ \union ({i} \ Others)]
  PROVE  /\ file' \in [bank : Banks, sent : SUBSET (1..ImageLen)]
         /\ i \in 0..(BankSize + BlockSize) /\ i \in Others \union 1..ImageLen
<1>1. i \in Others \union 1..ImageLen
  BY DEF Sendable
<1>2. {i} \ Others \subseteq 1..ImageLen
  BY <1>1
<1>3. i \in 0..(BankSize + BlockSize)
  BY <1>1, UpdateAssumption
<1> QED
  BY <1>1, <1>2, <1>3 DEF TypeInv

\* The host sends what fits the types.
LEMMA HostTypes ==
  ASSUME TypeInv, Host
  PROVE  TypeInv'
<1>1. CASE WriteDirectory
  <2>1. file' \in [bank : Banks, sent : SUBSET (1..ImageLen)]
    BY <1>1 DEF WriteDirectory
  <2>2. transfers' \in 0..MaxTransfers
    BY <1>1, UpdateAssumption DEF WriteDirectory, TypeInv
  <2> QED
    BY <1>1, <2>1, <2>2 DEF WriteDirectory, TypeInv, counters
<1>2. CASE \E i \in Sectors : WriteFirst(i)
  <2>1. PICK i \in Sectors : WriteFirst(i)
    BY <1>2
  <2>2. /\ i \in Sendable /\ file' = [file EXCEPT !.sent = @ \union ({i} \ Others)]
        /\ UNCHANGED <<flash, table, s_fica, transferState, dataWritten, running,
                       transfers, counters>>
    BY <2>1 DEF WriteFirst
  <2>3. /\ file' \in [bank : Banks, sent : SUBSET (1..ImageLen)]
        /\ i \in 0..(BankSize + BlockSize) /\ i \in Others \union 1..ImageLen
    BY <2>2, SentTypes
  <2>4. CASE i = 1
    <3>1. /\ packet' = i /\ s_newAppImgType' = file.bank /\ stage' = "ExtInit"
          /\ failed' = FALSE /\ raw' = FALSE
      BY <2>1, <2>4 DEF WriteFirst, Begin
    <3>2. dataWritten < ImageLen
      BY <2>1 DEF WriteFirst, TypeInv
    <3> QED
      BY <2>2, <2>3, <3>1, <3>2 DEF TypeInv, Stages, counters
  <2>5. CASE i # 1
    <3>1. UNCHANGED <<packet, s_newAppImgType, stage, failed, raw>>
      BY <2>1, <2>5 DEF WriteFirst
    <3> QED
      BY <2>2, <2>3, <3>1 DEF TypeInv, Stages, counters
  <2> QED
    BY <2>4, <2>5
<1>3. CASE \E i \in Sectors : WritePacket(i)
  <2>1. PICK i \in Sectors : WritePacket(i)
    BY <1>3
  <2>2. /\ i \in Sendable /\ file' = [file EXCEPT !.sent = @ \union ({i} \ Others)]
        /\ stage = "Usb" /\ packet' = i /\ stage' = "Packet" /\ failed' = FALSE /\ raw' = FALSE
        /\ UNCHANGED <<flash, table, s_fica, s_newAppImgType, transferState, dataWritten, running,
                       transfers, counters>>
    BY <2>1 DEF WritePacket, Begin
  <2>3. /\ file' \in [bank : Banks, sent : SUBSET (1..ImageLen)]
        /\ i \in 0..(BankSize + BlockSize) /\ i \in Others \union 1..ImageLen
    BY <2>2, SentTypes
  <2> QED
    BY <2>2, <2>3 DEF TypeInv, Stages, counters
<1> QED
  BY <1>1, <1>2, <1>3 DEF Host

\* Every step keeps the types.
LEMMA NextTypes ==
  ASSUME TypeInv, PlaceInv, [Next]_vars
  PROVE  TypeInv'
<1>1. CASE UNCHANGED vars
  BY <1>1 DEF vars, TypeInv
<1> QED
  BY <1>1, TableTypes, FlashTypes, CheckTypes, TaskTypes, HostTypes DEF Next, Loader

-----------------------------------------------------------------------------
(* Types, places and the end of a transfer.                                *)

\* The task is always at one of the places.
LEMMA AlwaysPlaced == Spec => [](TypeInv /\ PlaceInv)
<1>1. Init => TypeInv /\ PlaceInv
  BY InitTypes, InitPlace
<1>2. TypeInv /\ PlaceInv /\ [Next]_vars => (TypeInv /\ PlaceInv)'
  BY NextTypes, NextPlaces
<1> QED
  BY <1>1, <1>2, PTL DEF Spec

\* Every variable has its type: among others, no type but that of a bank is
\* started or becomes that of the new image, and no packet makes dataWritten
\* overrun the image, whatever is cut off, fails or is sent.
THEOREM TypeCorrect == Spec => []TypeOK
<1>1. TypeInv => TypeOK
  BY DEF TypeInv, TypeOK, Headers
<1> QED
  BY <1>1, AlwaysPlaced, PTL

\* FICA_app_program_ext_finalize, FICA_app_program_ext_set_reset_vector: when
\* they return without an error, they have made the image current and left none
\* of its bits, whatever interrupted the transfers before it and whatever the
\* check of the flash has done to the table on the way.
THEOREM FinishedCurrent == Spec => []FinishedIsCurrent
<1>1. TypeInv /\ PlaceInv => FinishedIsCurrent
  <2> SUFFICES ASSUME TypeInv, PlaceInv, Returns("Finalize"), ~failed
               PROVE  /\ table.valid /\ table.currType = file.bank
                      /\ table.comm \intersect {"NAV", "NAP", "NAI"} = {}
    BY DEF FinishedIsCurrent, MadeCurrent
  <2>1. table.valid /\ table.currType = file.bank /\ Clear(table, {"NAI", "NAV", "NAP"})
    BY DonePlaces DEF Returns, Ending, Settled
  <2> QED
    BY <2>1 DEF Clear
<1> QED
  BY <1>1, AlwaysPlaced, PTL

-----------------------------------------------------------------------------
(* The bank that a transfer changes.                                       *)

\* Multiples of the block size.
LEMMA Multiple ==
  ASSUME NEW a \in Nat, NEW b \in Nat \ {0}, a % b = 0
  PROVE  \E q \in Nat : a = b * q
<1>1. a = b * (a \div b)
  OBVIOUS
<1>2. a \div b \in Nat
  OBVIOUS
<1> QED
  BY <1>1, <1>2

\* The next multiple is at least a block further.
LEMMA NextMultiple ==
  ASSUME NEW b \in Nat \ {0}, NEW q \in Nat, NEW s \in Nat, b * q < b * s
  PROVE  b * q + b <= b * s
<1>1. q < s
  <2> SUFFICES ASSUME q >= s PROVE FALSE
    OBVIOUS
  <2>1. b * q >= b * s
    OBVIOUS
  <2> QED
    BY <2>1
<1>2. PICK d \in Nat : s = q + 1 + d
  <2>1. s - q - 1 \in Nat /\ s = q + 1 + (s - q - 1)
    BY <1>1
  <2> QED
    BY <2>1
<1>3. b * s = b * q + b + b * d
  BY <1>2
<1>4. b * d \in Nat /\ b * q \in Nat
  OBVIOUS
<1> QED
  BY <1>3, <1>4

\* What FICA_Erase_Bank erases for a place in a bank is in the bank, and not
\* before the place.
LEMMA ErasedInBank ==
  ASSUME NEW b \in Banks, NEW p \in 1..BankSize, NEW a \in ErasedBy(Addr(b, p))
  PROVE  \E i \in p..BankSize : a = Addr(b, i)
<1> DEFINE base == IF b = "A" THEN 0 ELSE BankSize
<1>1. /\ BlockSize \in Nat \ {0} /\ BankSize \in Nat /\ BankSize % BlockSize = 0 /\ p \in Nat
      /\ base \in {0, BankSize}
  BY UpdateAssumption
<1>2. Addr(b, p) = base + p
  BY DEF Addr
<1>3. \A i : Addr(b, i) = base + i
  BY DEF Addr
<1> HIDE DEF base
<1>4. CASE (Addr(b, p) - 1) % BlockSize = 0
  <2>1. a \in (base + p) .. (base + p + BlockSize - 1)
    BY <1>2, <1>4 DEF ErasedBy
  <2>2. PICK s \in Nat : BankSize = BlockSize * s
    BY <1>1, Multiple
  <2>3. PICK z \in {0, 1} : base = BankSize * z
    BY <1>1
  <2>4. base + p - 1 \in Nat /\ (base + p - 1) % BlockSize = 0
    BY <1>1, <1>2, <1>4
  <2>5. PICK q \in Nat : base + p - 1 = BlockSize * q
    BY <1>1, <2>4, Multiple
  <2>6. PICK t \in Nat : base + BankSize = BlockSize * t
    <3>1. CASE z = 0
      BY <1>1, <2>2, <2>3, <3>1
    <3>2. CASE z = 1
      <4>1. base + BankSize = BlockSize * (s + s)
        BY <1>1, <2>2, <2>3, <3>2
      <4> QED
        BY <4>1
    <3> QED
      BY <3>1, <3>2
  <2>7. BlockSize * q < BlockSize * t
    BY <1>1, <2>5, <2>6
  <2>8. BlockSize * q + BlockSize <= BlockSize * t
    BY <1>1, <2>7, NextMultiple
  <2>9. base + p - 1 + BlockSize <= base + BankSize
    BY <2>5, <2>6, <2>8
  <2>10. a - base \in p..BankSize /\ a = base + (a - base)
    BY <1>1, <2>1, <2>9
  <2> QED
    BY <1>3, <2>10
<1>5. CASE (Addr(b, p) - 1) % BlockSize # 0
  <2>1. a = base + p
    BY <1>2, <1>5 DEF ErasedBy
  <2>2. p \in p..BankSize
    BY <1>1
  <2> QED
    BY <1>3, <2>1, <2>2
<1> QED
  BY <1>4, <1>5

\* FICA_app_program_ext_abs, FICA_Erase_Bank: whatever is sent within the size
\* of a bank, in any order and more than once, a transfer changes nothing but
\* the bank it is for.  (What is sent beyond it erases what follows the bank,
\* before the check: the run that shows it is a finding.)
THEOREM NewBankOnly ==
  ASSUME Others \subseteq 1..BankSize
  PROVE  Spec => OnlyNewBankChanges
<1>1. ASSUME TypeInv, PlaceInv, [Next]_vars
      PROVE  [\A a \in Sectors : flash'[a] # flash[a] =>
                \E i \in 1..BankSize : a = Addr(s_newAppImgType, i)]_vars
  <2> SUFFICES ASSUME NEW a \in Sectors, flash'[a] # flash[a]
               PROVE  \E i \in 1..BankSize : a = Addr(s_newAppImgType, i)
    OBVIOUS
  <2>1. EraseBank \/ Program
    BY <1>1 DEF Next, Loader, Table, Host, vars, DoInitialize, DoGetCur, DoSetFlag, DoClrFlag,
                DoNewType, DoActivate, WriteTable, BlankTable, CheckFails, GotAppType,
                JumpToApp, UsbInit, ExtInitReturns, PacketReturns, FinalizeReturns,
                ReRunBootloader, CheckForUpdate, WriteDirectory,
                WriteFirst, WritePacket, Reset, Fault, Crash, Start
  <2>2. s_newAppImgType \in Banks /\ packet \in 1..BankSize
    <3>1. stage = "Packet" /\ Programming
      BY <1>1, <2>1, PacketPlaces DEF EraseBank, Program
    <3>2. packet \in Others \union 1..ImageLen
      BY <1>1, <3>1 DEF TypeInv
    <3>3. packet \in 1..BankSize
      BY <3>2, UpdateAssumption
    <3> QED
      BY <1>1, <3>1, <3>3 DEF TypeInv, Programming
  <2>3. flash \in [Sectors -> 0..(MaxTransfers + 1)]
    BY <1>1 DEF TypeInv
  <2>4. CASE EraseBank
    <3>1. a \in ErasedBy(Addr(s_newAppImgType, packet))
      BY <2>4 DEF EraseBank
    <3>2. PICK i \in packet..BankSize : a = Addr(s_newAppImgType, i)
      BY <2>2, <3>1, ErasedInBank
    <3>3. i \in 1..BankSize
      BY <2>2, UpdateAssumption
    <3> QED
      BY <3>2, <3>3
  <2>5. CASE Program
    <3>1. a = Addr(s_newAppImgType, packet)
      BY <2>3, <2>5 DEF Program
    <3> QED
      BY <2>2, <3>1
  <2> QED
    BY <2>1, <2>4, <2>5
<1> QED
  BY <1>1, AlwaysPlaced, PTL DEF Spec, OnlyNewBankChanges

-----------------------------------------------------------------------------
(* What the steps do to the table.                                         *)

\* No write of the table is under way.
Quiet == ~At("erase") /\ ~At("header") /\ ~At("pages")
\* The operation that comes first.
Leading(t, op) == t # <<>> /\ Head(t).op = op

\* No remainder begins with a write, and every writing with the erasure.
LEMMA LeadingFacts ==
  /\ \A t \in Rest \union {<<>>} : \A op \in WriteOps : ~Leading(t, op)
  /\ \A t \in Code : \A x \in {FICA_write_db, Records} : Leading(x \o t, "erase")
<1>1. \A t \in Rest \union {<<>>} : \A op \in WriteOps : ~Leading(t, op)
  BY RestFacts DEF FirstOp, Leading, WriteOps
<1>2. ASSUME NEW t \in Code, NEW x \in {FICA_write_db, Records}
      PROVE  Leading(x \o t, "erase")
  <2>1. x \in Writes /\ x # <<>> /\ Head(x).op = "erase"
    BY NewWrites
  <2>2. t \in Seq(Instructions)
    BY DEF Code
  <2>3. x \o t # <<>> /\ Head(x \o t) = Head(x)
    BY <2>1, <2>2, PrefixFacts
  <2> QED
    BY <2>1, <2>3 DEF Leading
<1> QED
  BY <1>1, <1>2

\* At is about the first instruction, before and after a step.
LEMMA AtLeading ==
  /\ \A op : At(op) <=> Leading(todo, op)
  /\ \A op : At(op)' <=> Leading(todo', op)
BY DEF At, Leading

\* At a remainder no write is under way, and the table in flash counts.
LEMMA QuietFacts ==
  /\ todo \in Rest \union {<<>>} => Quiet /\ ~Writing /\ Target = table
  /\ todo' \in Rest \union {<<>>} => Quiet' /\ ~Writing' /\ Target' = table'
<1>1. /\ todo \in Rest \union {<<>>} => Quiet
      /\ todo' \in Rest \union {<<>>} => Quiet'
  BY AtLeading, LeadingFacts DEF Quiet, WriteOps
<1> QED
  BY <1>1 DEF Quiet, Writing, Target

\* The kinds of steps on the table: it is read or not found, a write begins or
\* goes on, or its sector is erased for a new one.
ReadTable == table' = table /\ s_fica' \in {table, Zeroed} /\ Quiet /\ Quiet'
BeginWrite ==
  /\ table' = table /\ Quiet /\ Writing' /\ s_fica'.valid
  /\ \/ /\ table.valid /\ table.currType \notin Banks
        /\ s_fica'.currType = "A" /\ s_fica'.comm = table.comm
     \/ /\ stage \in {"SetUsbMode", "ExtInit"} /\ table.valid
        /\ s_fica'.currType = table.currType
        /\ \E f \in {"USB", "NAI"} : f \notin table.comm /\ s_fica'.comm = table.comm \union {f}
     \/ /\ stage = "Finalize" /\ table.valid /\ s_newAppImgType = file.bank
        /\ s_fica'.currType \in {table.currType, file.bank}
        /\ "USB" \in s_fica'.comm <=> "USB" \in table.comm
GoOn ==
  /\ s_fica' = s_fica
  /\ \/ At("erase") /\ table' = Erased /\ Writing'
     \/ At("header") /\ table' = s_fica /\ ~Writing'
     \/ At("pages") /\ table' = s_fica /\ table' = table

EraseTable ==
  /\ Quiet /\ Writing' /\ table' = Erased /\ s_fica' = Factory
  /\ ~replaced => ~table.valid

\* What a step on the table can be.
TableKinds == ReadTable \/ BeginWrite \/ GoOn \/ EraseTable

\* A new table begins with nothing written.
LEMMA NewTableKind ==
  ASSUME PlaceInv, At("init"), NewTable, table' = table
  PROVE  ReadTable
<1>1. s_fica' = Zeroed
  BY DEF NewTable
<1>2. todo' # <<>> /\ Head(todo').op = "blank"
  BY NewTableTodo
<1>3. Quiet'
  BY <1>2 DEF Quiet, At
<1>4. Quiet
  BY DEF Quiet, At
<1> QED
  BY <1>1, <1>3, <1>4 DEF ReadTable

\* Its sector is erased only if it holds none.
LEMMA BlankTableKind ==
  ASSUME TypeInv, PlaceInv, BlankTable
  PROVE  EraseTable
<1>1. At("blank") /\ table' = Erased /\ s_fica' = Factory /\ todo' = Tail(todo)
  BY DEF BlankTable
<1>2. PICK r \in Code : Tail(todo) = Records \o r
  BY <1>1, BlankPlaces
<1>3. Leading(Records \o r, "erase")
  BY LeadingFacts
<1>4. Writing'
  BY <1>1, <1>2, <1>3, AtLeading DEF Writing
<1>5. Quiet
  BY <1>1 DEF Quiet, At
<1>6. ~replaced => ~table.valid
  BY <1>1, BlankPlaces
<1> QED
  BY <1>1, <1>4, <1>5, <1>6 DEF EraseTable

\* FICA_initialize reads the table or does not find one.
LEMMA DoInitializeKind ==
  ASSUME TypeInv, PlaceInv, DoInitialize
  PROVE  ReadTable
<1>1. At("init") /\ table' = table
  BY DEF DoInitialize
<1>2. todo \in {J2, U2, E3, E4, F5}
  BY <1>1, InitPlaces
<1>3. todo \in Rest /\ todo \notin {F4, F8}
  BY <1>1, <1>2, FirstOps DEF At, FirstOp, Rest
<1>4. Tail(todo) \in Code /\ Tail(todo) \in Rest \union {<<>>}
  BY <1>3, RestTails
<1>5. Quiet
  BY <1>3, QuietFacts
<1>6. CASE table.valid
  <2>1. s_fica' = table /\ todo' = Tail(todo)
    BY <1>6 DEF DoInitialize
  <2>2. Quiet'
    BY <1>4, <2>1, QuietFacts
  <2> QED
    BY <1>1, <1>5, <2>1, <2>2 DEF ReadTable
<1>7. CASE ~table.valid
  BY <1>1, <1>7, NewTableKind DEF DoInitialize
<1> QED
  BY <1>6, <1>7

\* FICA_GetCurAppStartType reads the table or repairs its type.
LEMMA DoGetCurKind ==
  ASSUME TypeInv, PlaceInv, DoGetCur
  PROVE  ReadTable \/ BeginWrite
<1>1. At("getcur") /\ table' = table
  BY DEF DoGetCur
<1>2. todo \in {J1, E2} /\ Settled /\ s_fica \in Headers
  BY <1>1, GetCurPlaces DEF TypeInv
<1>3. todo \in Rest /\ todo \notin {F4, F8}
  BY <1>1, <1>2, FirstOps DEF At, FirstOp, Rest
<1>4. Tail(todo) \in Code /\ Tail(todo) \in Rest \union {<<>>}
  BY <1>3, RestTails
<1>5. Quiet
  BY <1>3, QuietFacts
<1>6. CASE s_fica.currType \in Banks
  <2>1. s_fica' = table /\ todo' = Tail(todo)
    BY <1>2, <1>6 DEF DoGetCur, Settled
  <2>2. Quiet'
    BY <1>4, <2>1, QuietFacts
  <2> QED
    BY <1>1, <1>5, <2>1, <2>2 DEF ReadTable
<1>7. CASE s_fica.currType \notin Banks
  <2>1. s_fica' = [s_fica EXCEPT !.currType = "A"] /\ todo' = FICA_write_db \o Tail(todo)
    BY <1>7 DEF DoGetCur
  <2>2. Leading(FICA_write_db \o Tail(todo), "erase")
    BY <1>4, LeadingFacts
  <2>3. Writing'
    BY <2>1, <2>2, AtLeading DEF Writing
  <2>4. s_fica'.currType = "A" /\ s_fica'.comm = table.comm /\ s_fica'.valid
    BY <1>2, <2>1 DEF Headers, Settled
  <2> QED
    BY <1>1, <1>2, <1>5, <1>7, <2>3, <2>4 DEF BeginWrite, Settled
<1> QED
  BY <1>6, <1>7

\* FICA_set_comm_flag reads the table or begins to write it with one bit more.
LEMMA DoSetFlagKind ==
  ASSUME TypeInv, PlaceInv, DoSetFlag
  PROVE  ReadTable \/ BeginWrite
<1>1. At("set") /\ table' = table
  BY DEF DoSetFlag
<1>2. /\ todo \in {U1, E1, F9, F7, F1} /\ Settled /\ table \in Headers
      /\ \/ stage = "SetUsbMode" /\ todo = U1
         \/ stage = "ExtInit" /\ todo = E1
         \/ Ending /\ todo \in {F9, F7, F1}
  BY <1>1, SetPlaces DEF TypeInv
<1>3. todo \in Rest /\ todo \notin {F4, F8}
  BY <1>1, <1>2, FirstOps DEF At, FirstOp, Rest
<1>4. Tail(todo) \in Code /\ Tail(todo) \in Rest \union {<<>>}
  BY <1>3, RestTails
<1>5. Quiet
  BY <1>3, QuietFacts
<1>6. PICK f \in Flags : f = Head(todo).arg
  BY <1>1, ArgFacts
<1>7. /\ s_fica' = [table EXCEPT !.comm = @ \union {f}]
      /\ todo' = (IF f \in table.comm THEN <<>> ELSE FICA_write_db) \o Tail(todo)
  BY <1>6 DEF DoSetFlag
<1>8. /\ s_fica'.comm = table.comm \union {f} /\ s_fica'.currType = table.currType
      /\ s_fica'.valid /\ (f \in table.comm => s_fica' = table)
  <2> DEFINE new == [table EXCEPT !.comm = @ \union {f}]
  <2>1. /\ new.comm = table.comm \union {f} /\ new.valid = table.valid
        /\ new.currType = table.currType /\ (f \in table.comm => new = table)
    BY <1>2, BitFacts
  <2>2. s_fica' = new /\ table.valid
    BY <1>2, <1>7 DEF Settled
  <2> HIDE DEF new
  <2> QED
    BY <2>1, <2>2
<1>9. CASE f \in table.comm
  <2>1. todo' = Tail(todo)
    BY <1>4, <1>7, <1>9 DEF Code
  <2>2. Quiet'
    BY <1>4, <2>1, QuietFacts
  <2> QED
    BY <1>1, <1>5, <1>8, <1>9, <2>2 DEF ReadTable
<1>10. CASE f \notin table.comm
  <2>1. Leading(FICA_write_db \o Tail(todo), "erase")
    BY <1>4, LeadingFacts
  <2>2. todo' = FICA_write_db \o Tail(todo)
    BY <1>7, <1>10
  <2>3. Writing'
    BY <2>1, <2>2, AtLeading DEF Writing
  <2>4. table.valid
    BY <1>2 DEF Settled
  <2>5. CASE stage = "SetUsbMode" /\ todo = U1
    <3>1. f = "USB"
      BY <1>6, <2>5, Heads
    <3> QED
      BY <1>1, <1>5, <1>8, <1>10, <2>3, <2>4, <2>5, <3>1 DEF BeginWrite
  <2>6. CASE stage = "ExtInit" /\ todo = E1
    <3>1. f = "NAI"
      BY <1>6, <2>6, Heads
    <3> QED
      BY <1>1, <1>5, <1>8, <1>10, <2>3, <2>4, <2>6, <3>1 DEF BeginWrite
  <2>7. CASE Ending /\ todo \in {F9, F7, F1}
    <3>1. f \in {"NAV", "NAP", "OTA"}
      BY <1>6, <2>7, Heads
    <3>2. "USB" \in s_fica'.comm <=> "USB" \in table.comm
      BY <1>8, <3>1
    <3> QED
      BY <1>1, <1>5, <1>8, <2>3, <2>4, <2>7, <3>2 DEF BeginWrite, Ending
  <2> QED
    BY <1>2, <2>5, <2>6, <2>7
<1> QED
  BY <1>9, <1>10

\* FICA_clr_comm_flag reads the table or begins to write it with one bit less.
LEMMA DoClrFlagKind ==
  ASSUME TypeInv, PlaceInv, DoClrFlag
  PROVE  ReadTable \/ BeginWrite
<1>1. At("clr") /\ table' = table
  BY DEF DoClrFlag
<1>2. todo \in {F6, F3, F2} /\ Ending /\ Settled /\ table \in Headers
  BY <1>1, ClrPlaces DEF TypeInv, Ending
<1>3. todo \in Rest /\ todo \notin {F4, F8}
  BY <1>1, <1>2, FirstOps DEF At, FirstOp, Rest
<1>4. Tail(todo) \in Code /\ Tail(todo) \in Rest \union {<<>>}
  BY <1>3, RestTails
<1>5. Quiet
  BY <1>3, QuietFacts
<1>6. PICK f \in Flags : f = Head(todo).arg
  BY <1>1, ArgFacts
<1>7. /\ s_fica' = [table EXCEPT !.comm = @ \ {f}]
      /\ todo' = (IF f \in table.comm THEN FICA_write_db ELSE <<>>) \o Tail(todo)
  BY <1>6 DEF DoClrFlag
<1>8. /\ s_fica'.comm = table.comm \ {f} /\ s_fica'.currType = table.currType
      /\ s_fica'.valid /\ (f \notin table.comm => s_fica' = table)
  <2> DEFINE new == [table EXCEPT !.comm = @ \ {f}]
  <2>1. /\ new.comm = table.comm \ {f} /\ new.valid = table.valid
        /\ new.currType = table.currType /\ (f \notin table.comm => new = table)
    BY <1>2, BitFacts
  <2>2. s_fica' = new /\ table.valid
    BY <1>2, <1>7 DEF Settled
  <2> HIDE DEF new
  <2> QED
    BY <2>1, <2>2
<1>9. CASE f \notin table.comm
  <2>1. todo' = Tail(todo)
    BY <1>4, <1>7, <1>9 DEF Code
  <2>2. Quiet'
    BY <1>4, <2>1, QuietFacts
  <2> QED
    BY <1>1, <1>5, <1>8, <1>9, <2>2 DEF ReadTable
<1>10. CASE f \in table.comm
  <2>1. Leading(FICA_write_db \o Tail(todo), "erase")
    BY <1>4, LeadingFacts
  <2>2. todo' = FICA_write_db \o Tail(todo)
    BY <1>7, <1>10
  <2>3. Writing'
    BY <2>1, <2>2, AtLeading DEF Writing
  <2>4. f \in {"NAI", "NAV", "NAP"}
    BY <1>2, <1>6, Heads
  <2>5. "USB" \in s_fica'.comm <=> "USB" \in table.comm
    BY <1>8, <2>4
  <2> QED
    BY <1>1, <1>2, <1>5, <1>8, <2>3, <2>5 DEF BeginWrite, Ending, Settled
<1> QED
  BY <1>9, <1>10

\* Storing the new type begins to write the table.
LEMMA DoNewTypeKind ==
  ASSUME TypeInv, PlaceInv, DoNewType
  PROVE  BeginWrite
<1>1. At("newtype") /\ table' = table
  BY DEF DoNewType
<1>2. todo = F8 /\ Ending /\ Settled /\ s_fica \in Headers
  BY <1>1, NewTypePlaces DEF TypeInv, Ending
<1>3. Quiet
  BY <1>2, QuietFacts DEF Rest
<1>4. todo' = FICA_write_db \o F7 /\ F7 \in Code
  BY <1>2, Heads DEF DoNewType, Leads
<1>5. Leading(FICA_write_db \o F7, "erase")
  BY <1>4, LeadingFacts
<1>6. Writing'
  BY <1>4, <1>5, AtLeading DEF Writing
<1>7. s_fica'.valid /\ s_fica'.currType = table.currType /\ s_fica'.comm = table.comm
  BY <1>2 DEF DoNewType, Headers, Settled
<1> QED
  BY <1>1, <1>2, <1>3, <1>6, <1>7 DEF BeginWrite, Ending, Settled

\* Activation reads the table, and begins to write it if the bit is there.
LEMMA DoActivateKind ==
  ASSUME TypeInv, PlaceInv, DoActivate
  PROVE  ReadTable \/ BeginWrite
<1>1. At("activate") /\ table' = table
  BY DEF DoActivate
<1>2. todo = F4 /\ Ending /\ Settled /\ table \in Headers
  BY <1>1, ActivatePlaces DEF TypeInv, Ending
<1>3. Quiet
  BY <1>2, QuietFacts DEF Rest
<1>4. CASE "NAP" \notin table.comm
  <2>1. todo' = <<>> /\ s_fica' = table
    BY <1>4 DEF DoActivate
  <2>2. Quiet'
    BY <2>1, QuietFacts
  <2> QED
    BY <1>1, <1>3, <2>1, <2>2 DEF ReadTable
<1>5. CASE "NAP" \in table.comm
  <2>1. table.newType = file.bank /\ table.newType # "NONE"
    BY <1>1, <1>2, <1>5, ActivatePlaces DEF TypeInv, Settled, Banks
  <2>2. /\ todo' = FICA_write_db \o F3 /\ F3 \in Code
        /\ s_fica' = [table EXCEPT !.currType = table.newType]
    BY <1>2, <1>5, <2>1, Heads DEF DoActivate, Leads
  <2>3. Leading(FICA_write_db \o F3, "erase")
    BY <2>2, LeadingFacts
  <2>4. Writing'
    BY <2>2, <2>3, AtLeading DEF Writing
  <2>5. s_fica'.valid /\ s_fica'.currType = file.bank /\ s_fica'.comm = table.comm
    BY <1>2, <2>1, <2>2 DEF Headers, Settled
  <2> QED
    BY <1>1, <1>2, <1>3, <2>4, <2>5 DEF BeginWrite, Ending, Settled
<1> QED
  BY <1>4, <1>5

\* FICA_write_db goes on.
LEMMA WriteTableKind ==
  ASSUME TypeInv, PlaceInv, WriteTable
  PROVE  GoOn
<1>1. /\ \/ At("erase") /\ table' = Erased
         \/ At("header") /\ table' = s_fica
         \/ At("pages") /\ table' = table
      /\ todo' = Tail(todo) /\ s_fica' = s_fica
  BY DEF WriteTable
<1>2. PICK x \in Writes, r \in Code :
        /\ x # <<>> /\ Head(x) = Head(todo) /\ Tail(x) \in Writes
        /\ todo = x \o r /\ Tail(todo) = Tail(x) \o r /\ Place(x, r) /\ Ready(x)
  BY <1>1, WritePlaces
<1>3. /\ Head(x).op = "erase" => Tail(x) # <<>> /\ Head(Tail(x)).op = "header"
      /\ Head(x).op = "header" => Tail(x) # <<>> /\ Head(Tail(x)).op = "pages"
  <2>1. x # <<>>
    BY <1>2
  <2> QED
    BY <2>1, WritesFacts
<1>4. Tail(x) # <<>> => Head(todo') = Head(Tail(x)) /\ todo' # <<>>
  <2>1. r \in Seq(Instructions) /\ Tail(x) \in Writes /\ todo' = Tail(x) \o r
    BY <1>1, <1>2 DEF Code
  <2> QED
    BY <2>1, PrefixFacts
<1>5. CASE At("erase") /\ table' = Erased
  <2>1. Head(x).op = "erase"
    BY <1>2, <1>5 DEF At
  <2>2. todo' # <<>> /\ Head(todo').op = "header"
    BY <1>3, <1>4, <2>1
  <2> QED
    BY <1>1, <1>5, <2>2 DEF GoOn, Writing, At
<1>6. CASE At("header") /\ table' = s_fica
  <2>1. Head(x).op = "header"
    BY <1>2, <1>6 DEF At
  <2>2. todo' # <<>> /\ Head(todo').op = "pages"
    BY <1>3, <1>4, <2>1
  <2> QED
    BY <1>1, <1>6, <2>2 DEF GoOn, Writing, At
<1>7. CASE At("pages") /\ table' = table
  <2>1. table = s_fica
    BY <1>2, <1>7 DEF Ready, At
  <2> QED
    BY <1>1, <1>7, <2>1 DEF GoOn
<1> QED
  BY <1>1, <1>5, <1>6, <1>7

\* What all of them leave alone; only the activation can fail.
LEMMA TableEffect ==
  ASSUME TypeInv, PlaceInv, Table
  PROVE  /\ TableKinds /\ ~failed /\ (failed' => stage = "Finalize")
         /\ stage \in {"Jump", "Again", "SetCur", "SetUsbMode", "ExtInit", "Finalize"}
         /\ UNCHANGED <<flash, transferState, dataWritten, packet, stage, running, file,
                        transfers, faults, replaced>>
<1>1. TableKinds
  BY DoInitializeKind, DoGetCurKind, DoSetFlagKind, DoClrFlagKind, DoNewTypeKind, DoActivateKind,
     WriteTableKind, BlankTableKind DEF Table, TableKinds
<1>2. UNCHANGED <<flash, transferState, dataWritten, packet, stage, running, file, transfers,
                  faults, replaced>>
  BY DEF Table, DoInitialize, DoGetCur, DoSetFlag, DoClrFlag, DoNewType, DoActivate, WriteTable,
         BlankTable, host, counters
<1>3. ~failed /\ stage \in {"Jump", "Again", "SetCur", "SetUsbMode", "ExtInit", "Finalize"}
  BY InitPlaces, GetCurPlaces, SetPlaces, ClrPlaces, NewTypePlaces, ActivatePlaces, WritePlaces,
     BlankPlaces
     DEF Table, DoInitialize, DoGetCur, DoSetFlag, DoClrFlag, DoNewType, DoActivate, WriteTable,
         BlankTable, Ending
<1>4. failed' => stage = "Finalize"
  <2>1. CASE DoActivate
    BY <2>1, ActivatePlaces DEF DoActivate, Ending
  <2>2. CASE ~DoActivate
    BY <1>3, <2>2 DEF Table, DoInitialize, DoGetCur, DoSetFlag, DoClrFlag, DoNewType, WriteTable,
                      BlankTable
  <2> QED
    BY <2>1, <2>2
<1> QED
  BY <1>1, <1>2, <1>3, <1>4

\* A failed check finds no table; a valid one is replaced.
LEMMA CheckEffect ==
  ASSUME TypeInv, PlaceInv, CheckFails
  PROVE  /\ ReadTable /\ s_fica' = Zeroed /\ ~failed /\ ~failed'
         /\ faults' = faults + 1 /\ faults \in Nat
         /\ stage \in {"Jump", "Again", "SetUsbMode", "ExtInit", "Finalize"}
         /\ UNCHANGED <<flash, table, transferState, dataWritten, packet, stage, running, file,
                        transfers>>
<1>1. /\ At("init") /\ NewTable /\ faults' = faults + 1
      /\ UNCHANGED <<flash, table, transferState, dataWritten, packet, stage, failed, running, file,
                     transfers>>
  BY DEF CheckFails, host
<1>2. ReadTable /\ s_fica' = Zeroed
  BY <1>1, NewTableKind DEF NewTable
<1>3. ~failed /\ stage \in {"Jump", "Again", "SetUsbMode", "ExtInit", "Finalize"}
  BY <1>1, InitPlaces DEF Ending
<1> QED
  BY <1>1, <1>2, <1>3 DEF TypeInv

\* A replaced table stays one, and errors are only added.
LEMMA Counting ==
  ASSUME TypeInv, [Next]_vars
  PROVE  /\ replaced => replaced'
         /\ faults' = faults \/ faults' = faults + 1
<1>1. CASE Fault
  <2>1. replaced' = replaced /\ faults' = faults + 1
    BY <1>1 DEF Fault
  <2> QED
    BY <2>1
<1>2. CASE CheckFails
  <2>1. replaced' = (replaced \/ table.valid) /\ faults' = faults + 1
    BY <1>2 DEF CheckFails
  <2> QED
    BY <2>1
<1>3. CASE ~Fault /\ ~CheckFails
  <2>1. faults' = faults
    BY <1>3 DEF Next, Loader, Table, Host, vars, DoInitialize, DoGetCur, DoSetFlag, DoClrFlag,
                DoNewType, DoActivate, WriteTable, BlankTable, EraseBank, Program, GotAppType,
                JumpToApp, UsbInit, ExtInitReturns, PacketReturns, FinalizeReturns,
                ReRunBootloader, CheckForUpdate, WriteDirectory, WriteFirst, WritePacket, Reset,
                Crash, Start, counters
  <2>2. replaced' = replaced
    BY <1>3 DEF Next, Loader, Table, Host, vars, DoInitialize, DoGetCur, DoSetFlag, DoClrFlag,
                DoNewType, DoActivate, WriteTable, BlankTable, EraseBank, Program, GotAppType,
                JumpToApp, UsbInit, ExtInitReturns, PacketReturns, FinalizeReturns,
                ReRunBootloader, CheckForUpdate, WriteDirectory, WriteFirst, WritePacket, Reset,
                Crash, Start, counters
  <2> QED
    BY <2>1, <2>2
<1> QED
  BY <1>1, <1>2, <1>3

-----------------------------------------------------------------------------
(* The USB bit.                                                            *)

\* A table that was lost does not name bank B.
LEMMA NoBits ==
  ~NoUsbBit(Erased) /\ ~NoUsbBit(Torn) /\ ~NoUsbBit(Zeroed) /\ ~NoUsbBit(Factory)
BY DEF NoUsbBit, Erased, Torn, Zeroed, Factory

\* The steps on the table keep the count of errors behind a missing USB bit.
LEMMA TableUsbBit ==
  ASSUME TypeInv, PlaceInv, ~replaced, UsbBit, Table
  PROVE  UsbBit'
<1>1. /\ ReadTable \/ BeginWrite \/ GoOn \/ EraseTable
      /\ failed' => stage = "Finalize"
      /\ UNCHANGED <<stage, faults>> /\ faults \in Nat
      /\ stage \in {"Jump", "Again", "SetCur", "SetUsbMode", "ExtInit", "Finalize"}
  BY TableEffect DEF TableKinds, TypeInv
<1>2. /\ NoUsbBit(table) \/ NoUsbBit(s_fica) => faults >= 1
      /\ stage \in {"ExtInit", "Finalize"} => faults >= 1 \/ (Target.valid /\ "USB" \in Target.comm)
      /\ stage = "ExtInit" => (NoUsbBit(table) \/ (Writing /\ NoUsbBit(s_fica)) => faults >= 2)
  BY DEF UsbBit
<1>3. SUFFICES
        /\ NoUsbBit(table') \/ NoUsbBit(s_fica') => faults >= 1
        /\ stage \in {"ExtInit", "Finalize"} =>
             faults >= 1 \/ (Target'.valid /\ "USB" \in Target'.comm)
        /\ stage = "ExtInit" => (NoUsbBit(table') \/ (Writing' /\ NoUsbBit(s_fica')) => faults >= 2)
  BY <1>1 DEF UsbBit, NoUsbBit
<1>4. CASE ReadTable
  <2>1. /\ table' = table /\ s_fica' \in {table, Zeroed} /\ ~Writing /\ ~Writing'
        /\ Target = table /\ Target' = table
    BY <1>4 DEF ReadTable, Quiet, Writing, Target
  <2> QED
    BY <1>2, <2>1, NoBits
<1>5. CASE BeginWrite
  <2>1. table' = table /\ ~Writing /\ Writing' /\ Target = table /\ Target' = s_fica' /\ s_fica'.valid
    BY <1>5 DEF BeginWrite, Quiet, Writing, Target
  <2>3. CASE s_fica'.currType = "A" /\ s_fica'.comm = table.comm
    BY <1>2, <2>1, <2>3 DEF NoUsbBit
  <2>4. CASE /\ stage \in {"SetUsbMode", "ExtInit"} /\ table.valid
             /\ s_fica'.currType = table.currType
             /\ \E f \in {"USB", "NAI"} : s_fica'.comm = table.comm \union {f}
    <3>1. NoUsbBit(s_fica') => NoUsbBit(table)
      BY <2>4 DEF NoUsbBit
    <3>2. "USB" \in table.comm => "USB" \in s_fica'.comm
      BY <2>4
    <3> QED
      BY <1>2, <2>1, <3>1, <3>2
  <2>5. CASE /\ stage = "Finalize" /\ table.valid
             /\ "USB" \in s_fica'.comm <=> "USB" \in table.comm
    <3>1. faults >= 1 \/ "USB" \in table.comm
      BY <1>2, <2>1, <2>5
    <3>2. NoUsbBit(s_fica') => "USB" \notin table.comm
      BY <2>5 DEF NoUsbBit
    <3> QED
      BY <1>2, <2>1, <2>5, <3>1, <3>2
  <2> QED
    BY <1>5, <2>3, <2>4, <2>5 DEF BeginWrite
<1>6. CASE GoOn
  <2>1. CASE At("erase") /\ table' = Erased /\ Writing'
    <3>1. Writing /\ Target = s_fica /\ Target' = s_fica
      BY <1>6, <2>1 DEF GoOn, Writing, Target
    <3> QED
      BY <1>2, <1>6, <2>1, <3>1, NoBits DEF GoOn
  <2>2. CASE At("header") /\ table' = s_fica /\ ~Writing'
    <3>1. Writing /\ Target = s_fica /\ Target' = s_fica
      BY <1>6, <2>2 DEF GoOn, Writing, Target
    <3> QED
      BY <1>2, <1>6, <2>2, <3>1 DEF GoOn
  <2>3. CASE At("pages") /\ table' = s_fica /\ table' = table
    <3>1. Target = table /\ Target' = table
      BY <1>6, <2>3 DEF GoOn, Target
    <3> QED
      BY <1>2, <1>6, <2>3, <3>1 DEF GoOn
  <2> QED
    BY <1>6, <2>1, <2>2, <2>3 DEF GoOn
<1>7. CASE EraseTable
  <2>1. /\ table' = Erased /\ s_fica' = Factory /\ ~table.valid /\ Target = table
    BY <1>7 DEF EraseTable, Quiet, Writing, Target
  <2> QED
    BY <1>2, <2>1, NoBits
<1> QED
  BY <1>1, <1>4, <1>5, <1>6, <1>7

\* So does a restart, also with a torn table.
LEMMA StartUsbBit ==
  ASSUME UsbBit, Start, table' \in {table, Torn}
  PROVE  UsbBit'
<1>1. stage' = "Boot" /\ s_fica' = Erased /\ faults' = faults
  BY DEF Start, Begin
<1>2. NoUsbBit(table') \/ NoUsbBit(s_fica') => faults' >= 1
  BY <1>1, NoBits DEF UsbBit
<1> QED
  BY <1>1, <1>2 DEF UsbBit, NoUsbBit

\* A task that is done, or has not begun, writes nothing.
LEMMA CallQuiet ==
  ASSUME PlaceInv,
         \/ CheckForUpdate \/ GotAppType \/ (JumpToApp /\ stage' = "App") \/ UsbInit
         \/ ExtInitReturns \/ FinalizeReturns \/ ReRunBootloader \/ WriteDirectory
         \/ \E i \in Sectors : WriteFirst(i) \/ WritePacket(i)
         \/ EraseBank \/ Program
  PROVE  /\ Quiet /\ ~Writing /\ Target = table
         /\ Quiet' /\ ~Writing' /\ Target' = table'
<1>1. todo \in Rest \union {<<>>}
  <2>1. CASE EraseBank \/ Program
    BY <2>1, PacketPlaces DEF EraseBank, Program, Rest
  <2>2. CASE \/ GotAppType \/ JumpToApp \/ UsbInit \/ ExtInitReturns \/ FinalizeReturns
    BY <2>2 DEF GotAppType, JumpToApp, UsbInit, ExtInitReturns, FinalizeReturns, Returns
  <2>3. CASE \/ CheckForUpdate \/ ReRunBootloader \/ WriteDirectory
             \/ \E i \in Sectors : WriteFirst(i) \/ WritePacket(i)
    <3>1. stage \in {"Boot", "ReRun", "Usb"}
      BY <2>3 DEF CheckForUpdate, ReRunBootloader, WriteDirectory, WriteFirst, WritePacket
    <3> QED
      BY <3>1, IdlePlaces
  <2> QED
    BY <2>1, <2>2, <2>3
<1>2. todo' \in Rest \union {<<>>}
  <2>1. CASE EraseBank
    <3>1. todo = P2 /\ todo' = Tail(todo)
      BY <2>1, PacketPlaces DEF EraseBank
    <3> QED
      BY <3>1, Heads DEF Leads, Rest
  <2>a. CASE GotAppType
    BY <2>a, Programs DEF GotAppType, Start, Begin, Rest
  <2>2. CASE \/ Program \/ (JumpToApp /\ stage' = "App") \/ UsbInit \/ FinalizeReturns
             \/ ReRunBootloader
    BY <2>2 DEF Program, JumpToApp, UsbInit, FinalizeReturns, ReRunBootloader, Start, Begin
  <2>3. CASE CheckForUpdate
    BY <2>3, Programs DEF CheckForUpdate, Begin, Rest
  <2>4. CASE ExtInitReturns
    BY <2>4, Programs DEF ExtInitReturns, Begin, Rest
  <2>5. CASE WriteDirectory
    BY <1>1, <2>5 DEF WriteDirectory
  <2>6. CASE \E i \in Sectors : WriteFirst(i)
    BY <1>1, <2>6, Programs DEF WriteFirst, Begin, Rest
  <2>7. CASE \E i \in Sectors : WritePacket(i)
    BY <2>7, Programs DEF WritePacket, Begin, Rest
  <2> QED
    BY <2>1, <2>a, <2>2, <2>3, <2>4, <2>5, <2>6, <2>7
<1> QED
  BY <1>1, <1>2, QuietFacts DEF Quiet

\* A flash error changes nothing but the status and the count of errors.
LEMMA FaultEffect ==
  ASSUME TypeInv, PlaceInv, Fault
  PROVE  /\ Quiet' /\ ~Writing' /\ Target' = table /\ failed' = TRUE /\ faults' = faults + 1
         /\ faults \in Nat /\ todo' = <<>>
         /\ UNCHANGED <<flash, table, s_fica, s_newAppImgType, transferState, dataWritten, packet,
                        stage, running, file, transfers>>
<1>1. /\ UNCHANGED <<flash, table, s_fica, s_newAppImgType, transferState, dataWritten, packet,
                     stage, running, file, transfers>>
      /\ todo' = <<>> /\ failed' = TRUE /\ faults' = faults + 1 /\ faults \in Nat
  BY DEF Fault, host, TypeInv
<1> QED
  BY <1>1, QuietFacts DEF Quiet

\* The end of a packet.
LEMMA PacketEffect ==
  ASSUME TypeInv, PlaceInv, PacketReturns
  PROVE  /\ ~Writing /\ Target = table /\ Target' = table /\ stage = "Packet" /\ todo = <<>>
         /\ UNCHANGED <<flash, table, s_fica, s_newAppImgType, packet, running, file, transfers,
                        faults>>
         /\ ~failed => table' = s_fica'
         /\ \/ failed /\ stage' = "ReRun" /\ Quiet'
            \/ /\ ~failed /\ stage' = "Finalize" /\ dataWritten + 1 = ImageLen
            \/ /\ ~failed /\ stage' = "Usb" /\ Quiet' /\ transferState' = transferState
               /\ dataWritten' = dataWritten + 1
<1>1. /\ UNCHANGED <<flash, table, s_fica, s_newAppImgType, packet, running, file, transfers,
                     faults>>
      /\ stage = "Packet" /\ todo = <<>> /\ failed \in BOOLEAN
  BY DEF PacketReturns, Returns, host, counters, TypeInv
<1>2. ~Writing /\ Target = table
  BY <1>1, QuietFacts
<1>3. ~failed => table = s_fica
  BY <1>1, DonePlaces DEF Programming
<1>4. CASE failed
  <2>1. stage' = "ReRun" /\ todo' = <<>>
    BY <1>4 DEF PacketReturns, Begin
  <2>2. Quiet' /\ Target' = table'
    BY <2>1, QuietFacts
  <2> QED
    BY <1>1, <1>2, <1>4, <2>1, <2>2
<1>5. CASE ~failed /\ dataWritten' >= ImageLen
  <2>1. stage' = "Finalize" /\ dataWritten' = dataWritten + 1
    BY <1>5 DEF PacketReturns, Begin
  <2>2. dataWritten + 1 = ImageLen
    BY <1>1, <1>5, <2>1, UpdateAssumption DEF TypeInv
  <2>3. Target' = table
    BY <1>1, <1>3, <1>5 DEF Target
  <2> QED
    BY <1>1, <1>2, <1>3, <1>5, <2>1, <2>2, <2>3
<1>6. CASE ~failed /\ ~(dataWritten' >= ImageLen)
  <2>1. /\ stage' = "Usb" /\ todo' = <<>> /\ transferState' = transferState
        /\ dataWritten' = dataWritten + 1
    BY <1>6 DEF PacketReturns, Begin
  <2>2. Quiet' /\ Target' = table'
    BY <2>1, QuietFacts
  <2> QED
    BY <1>1, <1>2, <1>3, <1>6, <2>1, <2>2
<1> QED
  BY <1>1, <1>4, <1>5, <1>6

\* The type that was asked for twice is the same, unless the table was
\* replaced.
LEMMA SameType ==
  ASSUME PlaceInv, ~replaced, Returns("Again"), ~failed
  PROVE  s_fica.currType = running
<1>1. Settled /\ Kept(<<>>)
  BY DonePlaces DEF Returns
<1> QED
  BY <1>1 DEF Settled, Kept

\* Every step keeps the count of errors behind a missing USB bit.
LEMMA NextUsbBit ==
  ASSUME TypeInv, PlaceInv, ~replaced, UsbBit, [Next]_vars
  PROVE  UsbBit'
<1>a. CASE CheckFails
  <2>1. /\ table' = table /\ s_fica' = Zeroed /\ ~failed' /\ faults' >= 1 /\ stage' = stage
        /\ ~Writing' /\ Target' = table /\ (faults >= 2 => faults' >= 2)
        /\ stage \notin {"Usb", "Packet"}
    BY <1>a, CheckEffect DEF ReadTable, Quiet, Writing, Target
  <2> QED
    BY <2>1, NoBits DEF UsbBit, NoUsbBit
<1>1. CASE Table
  BY <1>1, TableUsbBit
<1>2. CASE Reset \/ Crash
  <2>1. Start /\ table' \in {table, Torn}
    BY <1>2 DEF Reset, Crash
  <2> QED
    BY <2>1, StartUsbBit
<1>3. CASE Fault
  BY <1>3, FaultEffect DEF UsbBit, NoUsbBit
<1>4. CASE EraseBank \/ Program
  <2>1. ~Writing' /\ Target = table /\ Target' = table' /\ stage = "Packet"
    BY <1>4, CallQuiet, PacketPlaces DEF EraseBank, Program
  <2>2. table' = table /\ stage' = stage /\ faults' = faults /\ s_fica' \in {s_fica, table}
    BY <1>4 DEF EraseBank, Program, counters
  <2> QED
    BY <2>1, <2>2 DEF UsbBit, NoUsbBit
<1>5. CASE PacketReturns
  BY <1>5, PacketEffect DEF UsbBit, NoUsbBit
<1>6. CASE CheckForUpdate
  <2>1. /\ table' = table /\ s_fica' = s_fica /\ faults' = faults /\ failed' = FALSE
        /\ stage' \in {"SetUsbMode", "Jump"}
    BY <1>6 DEF CheckForUpdate, Begin, counters
  <2> QED
    BY <2>1 DEF UsbBit, NoUsbBit
<1>7. CASE GotAppType
  <2>1. CASE failed
    BY <1>7, <2>1, StartUsbBit DEF GotAppType
  <2>2. CASE ~failed
    <3>1. table' = table /\ s_fica' = s_fica /\ faults' = faults /\ stage' = "Again"
      BY <1>7, <2>2 DEF GotAppType, Begin, counters
    <3> QED
      BY <3>1 DEF UsbBit, NoUsbBit
  <2> QED
    BY <2>1, <2>2
<1>b. CASE JumpToApp
  <2>1. table' = table /\ s_fica' = s_fica /\ faults' = faults /\ stage' = "App"
    BY <1>b, SameType DEF JumpToApp, Begin, counters
  <2> QED
    BY <2>1 DEF UsbBit, NoUsbBit
<1>8. CASE UsbInit
  <2>1. /\ table' = table /\ s_fica' = s_fica /\ faults' = faults /\ stage' = "Usb"
        /\ stage = "SetUsbMode" /\ todo = <<>> /\ failed \in BOOLEAN
    BY <1>8 DEF UsbInit, Begin, Returns, counters, TypeInv
  <2>2. ~Writing' /\ Target' = table
    BY <1>8, <2>1, CallQuiet
  <2>3. CASE failed
    BY <2>1, <2>2, <2>3 DEF UsbBit, NoUsbBit
  <2>4. CASE ~failed
    <3>1. table.valid /\ "USB" \in table.comm
      BY <2>1, <2>4, DonePlaces DEF Settled
    <3> QED
      BY <2>1, <2>2, <3>1 DEF UsbBit, NoUsbBit
  <2> QED
    BY <2>1, <2>3, <2>4
<1>9. CASE ExtInitReturns
  <2>1. /\ table' = table /\ s_fica' = s_fica /\ faults' = faults /\ stage = "ExtInit"
        /\ stage' \in {"ReRun", "Packet"}
    BY <1>9 DEF ExtInitReturns, Begin, Returns, counters
  <2>2. ~Writing' /\ Target = table /\ Target' = table'
    BY <1>9, CallQuiet
  <2> QED
    BY <2>1, <2>2 DEF UsbBit, NoUsbBit
<1>10. CASE FinalizeReturns
  <2>1. table' = table /\ s_fica' = s_fica /\ faults' = faults /\ stage' = "ReRun"
    BY <1>10 DEF FinalizeReturns, Begin, counters
  <2> QED
    BY <2>1 DEF UsbBit, NoUsbBit
<1>11. CASE ReRunBootloader
  <2>1. CASE Start
    BY <1>11, <2>1, StartUsbBit DEF ReRunBootloader
  <2>2. CASE ~Start
    <3>1. table' = table /\ s_fica' = s_fica /\ faults' = faults /\ stage' = "Lost"
      BY <1>11, <2>2 DEF ReRunBootloader, Begin
    <3> QED
      BY <3>1 DEF UsbBit, NoUsbBit
  <2> QED
    BY <2>1, <2>2
<1>12. CASE Host
  <2>1. /\ table' = table /\ s_fica' = s_fica /\ faults' = faults /\ stage = "Usb"
        /\ stage' \in {"Usb", "ExtInit", "Packet"}
    BY <1>12 DEF Host, WriteDirectory, WriteFirst, WritePacket, Begin, counters
  <2>2. ~Writing' /\ Target = table /\ Target' = table'
    BY <1>12, CallQuiet DEF Host
  <2> QED
    BY <2>1, <2>2 DEF UsbBit, NoUsbBit
<1>13. CASE UNCHANGED vars
  BY <1>13 DEF vars, UsbBit, NoUsbBit, Target, Writing, At
<1> QED
  BY <1>a, <1>1, <1>2, <1>3, <1>4, <1>5, <1>6, <1>7, <1>b, <1>8, <1>9, <1>10, <1>11, <1>12, <1>13
     DEF Next, Loader

-----------------------------------------------------------------------------
(* The blocks of an image, in order.                                       *)

\* The host sends the blocks of one file, each once and in order.
OneFile == Ordered /\ Others = {}

\* Ranges that are equal have equal ends.
LEMMA SameRange ==
  ASSUME NEW n \in Nat, NEW i \in Nat \ {0}, 1..n = 1..(i - 1)
  PROVE  i = n + 1
<1>1. n >= i - 1
  <2> SUFFICES ASSUME n < i - 1 PROVE FALSE
    OBVIOUS
  <2>1. i - 1 \in 1..(i - 1) /\ i - 1 \notin 1..n
    OBVIOUS
  <2> QED
    BY <2>1
<1>2. n <= i - 1
  <2> SUFFICES ASSUME n > i - 1 PROVE FALSE
    OBVIOUS
  <2>1. n \in 1..n /\ n \notin 1..(i - 1)
    OBVIOUS
  <2> QED
    BY <2>1
<1> QED
  BY <1>1, <1>2

\* So the block sent is the one after those sent.
LEMMA NextBlock ==
  ASSUME OneFile, TypeInv, NEW n \in Nat, file.sent = 1..n, NEW i \in Sendable,
         file' = [file EXCEPT !.sent = @ \union ({i} \ Others)]
  PROVE  i = n + 1 /\ file'.sent = 1..i /\ file'.bank = file.bank
<1>1. i \in 1..ImageLen /\ file.sent = 1..(i - 1)
  BY DEF OneFile, Sendable
<1>2. i \in Nat \ {0}
  BY <1>1, UpdateAssumption
<1>3. i = n + 1
  BY <1>1, <1>2, SameRange
<1>4. file'.sent = file.sent \union {i} /\ file'.bank = file.bank
  BY DEF OneFile, TypeInv
<1>5. 1..n \union {i} = 1..i
  BY <1>3
<1> QED
  BY <1>3, <1>4, <1>5

\* Two places of the banks are one only if they are the same.
LEMMA AddrFacts ==
  ASSUME NEW b \in Banks, NEW c \in Banks, NEW i \in 1..BankSize, NEW j \in 1..BankSize
  PROVE  /\ Addr(b, i) \in Sectors
         /\ Addr(b, i) = Addr(c, j) => b = c /\ i = j
BY UpdateAssumption DEF Addr, Banks, Sectors

\* What the steps on the banks leave as it was.
LEMMA BankEffect ==
  ASSUME OneFile, TypeInv, PlaceInv, EraseBank \/ Program
  PROVE  /\ stage = "Packet" /\ Programming /\ packet \in 1..ImageLen /\ ~failed
         /\ \A b \in Banks : \A i \in 1..BankSize :
              b # file.bank \/ i < packet => flash'[Addr(b, i)] = flash[Addr(b, i)]
         /\ Program /\ ~failed' => flash'[Addr(file.bank, packet)] = transfers + 1
         /\ EraseBank => todo' # <<>>
         /\ UNCHANGED <<table, transferState, dataWritten, packet, stage, running, file,
                        transfers, faults>>
<1>1. stage = "Packet" /\ Programming /\ ~failed
  BY PacketPlaces DEF EraseBank, Program
<1>2. /\ UNCHANGED <<table, transferState, dataWritten, packet, stage, running, file, transfers,
                     faults>>
  BY DEF EraseBank, Program, host, counters
<1>3. packet \in 1..ImageLen /\ packet \in 1..BankSize
  BY <1>1, UpdateAssumption DEF OneFile, TypeInv
<1>4. /\ s_newAppImgType = file.bank /\ file.bank \in Banks
      /\ flash \in [Sectors -> 0..(MaxTransfers + 1)]
  BY <1>1 DEF Programming, TypeInv
<1>5. ASSUME NEW b \in Banks, NEW i \in 1..BankSize, b # file.bank \/ i < packet
      PROVE  flash'[Addr(b, i)] = flash[Addr(b, i)]
  <2>1. Addr(b, i) \in Sectors
    BY AddrFacts
  <2>2. CASE EraseBank
    <3>1. Addr(b, i) \notin ErasedBy(Addr(file.bank, packet))
      <4> SUFFICES ASSUME Addr(b, i) \in ErasedBy(Addr(file.bank, packet)) PROVE FALSE
        OBVIOUS
      <4>1. PICK j \in packet..BankSize : Addr(b, i) = Addr(file.bank, j)
        BY <1>3, <1>4, ErasedInBank
      <4>2. j \in 1..BankSize /\ ~(j < packet)
        BY <1>3, UpdateAssumption
      <4>3. b = file.bank /\ i = j
        BY <1>4, <4>1, <4>2, AddrFacts
      <4> QED
        BY <1>5, <4>2, <4>3
    <3> QED
      BY <1>4, <2>1, <2>2, <3>1 DEF EraseBank
  <2>3. CASE Program
    <3>1. Addr(b, i) # Addr(file.bank, packet)
      <4>1. ~(packet < packet)
        BY <1>3, UpdateAssumption
      <4> QED
        BY <1>3, <1>4, <1>5, <4>1, AddrFacts
    <3> QED
      BY <1>4, <2>1, <2>3, <3>1 DEF Program
  <2> QED
    BY <2>2, <2>3
<1>6. Program /\ ~failed' => flash'[Addr(file.bank, packet)] = transfers + 1
  <2>1. Addr(file.bank, packet) \in Sectors
    BY <1>3, <1>4, AddrFacts
  <2> QED
    BY <1>4, <2>1 DEF Program
<1>7. EraseBank => todo' # <<>>
  <2> SUFFICES ASSUME EraseBank PROVE todo' # <<>>
    OBVIOUS
  <2>1. todo = P2 /\ todo' = Tail(todo)
    BY PacketPlaces DEF EraseBank
  <2> QED
    BY <2>1, Heads DEF Leads
<1> QED
  BY <1>1, <1>2, <1>3, <1>5, <1>6, <1>7

\* Every step keeps what was sent in order and in flash.
LEMMA NextInOrder ==
  ASSUME OneFile, TypeInv, PlaceInv, InOrder, [Next]_vars
  PROVE  InOrder'
<1>1. CASE Table \/ CheckFails
  <2>1. /\ stage \in {"Jump", "Again", "SetCur", "SetUsbMode", "ExtInit", "Finalize"}
        /\ UNCHANGED <<stage, transferState, dataWritten, packet, file>>
    BY <1>1, TableEffect, CheckEffect
  <2> QED
    BY <2>1 DEF InOrder
<1>2. CASE stage' \notin {"Usb", "ExtInit", "Packet"}
  BY <1>2 DEF InOrder
<1>3. CASE Fault
  BY <1>3, FaultEffect DEF InOrder
<1>4. CASE EraseBank \/ Program
  <2>1. /\ stage = "Packet" /\ packet \in 1..ImageLen
        /\ UNCHANGED <<transferState, dataWritten, packet, stage, file, transfers>>
    BY <1>4, BankEffect
  <2>2. /\ transferState = "ACTIVE" /\ packet = dataWritten + 1 /\ file.sent = 1..packet
        /\ \A i \in 1..dataWritten : flash[Addr(file.bank, i)] = transfers + 1
    BY <2>1 DEF InOrder
  <2>3. \A i \in 1..dataWritten : flash'[Addr(file.bank, i)] = transfers + 1
    <3> SUFFICES ASSUME NEW i \in 1..dataWritten
                 PROVE  flash'[Addr(file.bank, i)] = transfers + 1
      OBVIOUS
    <3>1. i \in 1..BankSize /\ i < packet /\ file.bank \in Banks
      BY <2>1, <2>2, UpdateAssumption DEF TypeInv
    <3>2. flash'[Addr(file.bank, i)] = flash[Addr(file.bank, i)]
      BY <1>4, <3>1, BankEffect
    <3> QED
      BY <2>2, <3>2
  <2>4. todo' = <<>> /\ ~failed' => flash'[Addr(file.bank, packet)] = transfers + 1
    BY <1>4, BankEffect
  <2> QED
    BY <2>1, <2>2, <2>3, <2>4 DEF InOrder, Addr
<1>5. CASE PacketReturns /\ stage' = "Usb"
  <2>1. /\ UNCHANGED <<flash, packet, file, transfers>> /\ ~failed /\ todo = <<>>
        /\ stage = "Packet" /\ transferState' = transferState /\ dataWritten' = dataWritten + 1
    BY <1>5, PacketEffect
  <2>2. /\ transferState = "ACTIVE" /\ packet = dataWritten + 1 /\ file.sent = 1..packet
        /\ \A i \in 1..dataWritten : flash[Addr(file.bank, i)] = transfers + 1
        /\ flash[Addr(file.bank, packet)] = transfers + 1
    BY <2>1 DEF InOrder
  <2>3. \A i \in 1..(dataWritten + 1) : flash[Addr(file.bank, i)] = transfers + 1
    <3>1. \A i \in 1..(dataWritten + 1) : i \in 1..dataWritten \/ i = packet
      BY <2>2 DEF TypeInv
    <3> QED
      BY <2>2, <3>1
  <2> QED
    BY <1>5, <2>1, <2>2, <2>3 DEF InOrder, Addr
<1>6. CASE UsbInit
  <2>1. stage' = "Usb" /\ transferState' = "IDLE" /\ dataWritten' = 0
    BY <1>6 DEF UsbInit, Begin
  <2> QED
    BY <2>1 DEF InOrder
<1>7. CASE WriteDirectory
  <2>1. /\ stage = "Usb" /\ stage' = "Usb" /\ transferState' = "START" /\ dataWritten' = dataWritten
        /\ transferState = "IDLE" /\ file'.sent = {}
    BY <1>7 DEF WriteDirectory
  <2> QED
    BY <2>1 DEF InOrder
<1>8. CASE \E i \in Sectors : WriteFirst(i)
  <2>1. PICK i \in Sectors : WriteFirst(i)
    BY <1>8
  <2>2. /\ stage = "Usb" /\ transferState = "START" /\ i \in Sendable
        /\ file' = [file EXCEPT !.sent = @ \union ({i} \ Others)]
        /\ transferState' = transferState /\ dataWritten' = dataWritten
    BY <2>1 DEF WriteFirst
  <2>3. file.sent = {} /\ dataWritten = 0
    BY <2>2 DEF InOrder
  <2>4. file.sent = 1..0 /\ 0 \in Nat
    BY <2>3
  <2>5. i = 0 + 1 /\ file'.sent = 1..i
    BY <2>2, <2>4, NextBlock
  <2>6. packet' = 1 /\ stage' = "ExtInit"
    BY <2>1, <2>5 DEF WriteFirst, Begin
  <2> QED
    BY <2>2, <2>3, <2>5, <2>6 DEF InOrder
<1>9. CASE ExtInitReturns /\ stage' = "Packet"
  <2>1. /\ stage = "ExtInit" /\ transferState' = "ACTIVE" /\ todo' = P2
        /\ UNCHANGED <<dataWritten, packet, file>>
    BY <1>9, Programs DEF ExtInitReturns, Begin, Returns, host
  <2>2. packet = 1 /\ dataWritten = 0 /\ file.sent = 1..1
    BY <2>1 DEF InOrder
  <2>3. todo' # <<>>
    BY <2>1, Heads DEF Leads
  <2> QED
    BY <1>9, <2>1, <2>2, <2>3 DEF InOrder
<1>10. CASE \E i \in Sectors : WritePacket(i)
  <2>1. PICK i \in Sectors : WritePacket(i)
    BY <1>10
  <2>2. /\ stage = "Usb" /\ transferState = "ACTIVE" /\ i \in Sendable
        /\ file' = [file EXCEPT !.sent = @ \union ({i} \ Others)]
        /\ packet' = i /\ stage' = "Packet" /\ todo' = P2
        /\ UNCHANGED <<flash, transferState, dataWritten, transfers>>
    BY <2>1, Programs DEF WritePacket, Begin
  <2>3. /\ file.sent = 1..dataWritten /\ dataWritten \in Nat
        /\ \A k \in 1..dataWritten : flash[Addr(file.bank, k)] = transfers + 1
    BY <2>2 DEF InOrder, TypeInv
  <2>4. i = dataWritten + 1 /\ file'.sent = 1..i /\ file'.bank = file.bank
    BY <2>2, <2>3, NextBlock
  <2>5. todo' # <<>>
    BY <2>2, Heads DEF Leads
  <2> QED
    BY <2>2, <2>3, <2>4, <2>5 DEF InOrder, Addr
<1>11. CASE UNCHANGED vars
  BY <1>11 DEF vars, InOrder, Addr
<1>12. \/ Table \/ CheckFails \/ Fault \/ EraseBank \/ Program \/ PacketReturns \/ UsbInit \/ Host
       \/ ExtInitReturns \/ UNCHANGED vars \/ stage' \notin {"Usb", "ExtInit", "Packet"}
  BY DEF Next, Loader, CheckForUpdate, GotAppType, JumpToApp, FinalizeReturns, ReRunBootloader, Reset, Crash,
         Start, Begin
<1>13. /\ PacketReturns => stage' \in {"Usb", "ReRun", "Finalize"}
       /\ ExtInitReturns => stage' \in {"Packet", "ReRun"}
  BY PacketEffect DEF ExtInitReturns, Begin
<1> QED
  BY <1>1, <1>2, <1>3, <1>4, <1>5, <1>6, <1>7, <1>8, <1>9, <1>10, <1>11, <1>12, <1>13 DEF Host

-----------------------------------------------------------------------------
(* The bank in use is whole.                                               *)

\* Guarded, of a flash, a table, the table to come, a stage and an application.
ImageIn(fl, b) ==
  \E v \in 1..(MaxTransfers + 1) : \A i \in 1..ImageLen : fl[Addr(b, i)] = v
\* Guarded, of given values.
GuardedIn(fl, tb, tg, st, rn) ==
  /\ ImageIn(fl, Boots(tb)) /\ ImageIn(fl, Boots(tg))
  /\ ~ImageIn(fl, "A") => /\ tb.valid /\ tb.currType = "B"
                          /\ {"USB", "NAI"} \subseteq tb.comm
  /\ st = "Finalize" => ImageIn(fl, "A") /\ ImageIn(fl, "B")
  /\ st \in {"Again", "SetCur", "App"} => ImageIn(fl, rn)

\* Guarded, as a predicate of the values it is about.
LEMMA GuardedIs ==
  /\ Guarded <=> /\ GuardedIn(flash, table, Target, stage, running)
                 /\ ~ImageIn(flash, "A") => Quiet
  /\ Guarded' <=> /\ GuardedIn(flash', table', Target', stage', running')
                  /\ ~ImageIn(flash', "A") => Quiet'
<1>1. /\ \A b : Whole(b) <=> ImageIn(flash, b)
      /\ Whole("A")' <=> ImageIn(flash', "A")
      /\ Whole("B")' <=> ImageIn(flash', "B")
      /\ Whole(Boots(table))' <=> ImageIn(flash', Boots(table'))
      /\ Whole(Boots(Target))' <=> ImageIn(flash', Boots(Target'))
      /\ Whole(running)' <=> ImageIn(flash', running')
  BY DEF Whole, ImageIn, Addr, Boots
<1>2. Quiet <=> ~At("erase") /\ ~At("header") /\ ~At("pages")
  BY DEF Quiet
<1>3. Quiet' <=> ~At("erase")' /\ ~At("header")' /\ ~At("pages")'
  BY DEF Quiet
<1>4. Guarded <=> /\ GuardedIn(flash, table, Target, stage, running)
                  /\ ~ImageIn(flash, "A") => Quiet
  BY <1>1, <1>2 DEF Guarded, GuardedIn
<1>5. Guarded' <=> /\ GuardedIn(flash', table', Target', stage', running')
                   /\ ~ImageIn(flash', "A") => Quiet'
  BY <1>1, <1>3 DEF Guarded, GuardedIn
<1> QED
  BY <1>4, <1>5

\* Every header boots a bank, and a lost one bank A.
LEMMA BootsFacts ==
  /\ \A h : Boots(h) \in Banks
  /\ Boots(Erased) = "A" /\ Boots(Torn) = "A" /\ Boots(Factory) = "A"
  /\ \A h : ~h.valid => Boots(h) = "A"
BY DEF Boots, Banks, Erased, Torn, Zeroed, Factory

\* While the table is written, the bank that is started stays the same, unless
\* a transfer is at its end.
LEMMA TableBoots ==
  ASSUME TypeInv, PlaceInv, ~replaced, Table, stage # "Finalize"
  PROVE  Boots(Target') = Boots(Target)
<1>1. ReadTable \/ BeginWrite \/ GoOn \/ EraseTable
  BY TableEffect DEF TableKinds
<1>2. CASE ReadTable
  BY <1>2 DEF ReadTable, Quiet, Target, Writing
<1>3. CASE BeginWrite
  <2>1. Target = table /\ Target' = s_fica' /\ s_fica'.valid
    BY <1>3 DEF BeginWrite, Quiet, Target, Writing
  <2> QED
    BY <1>3, <2>1, BootsFacts DEF BeginWrite, Boots, Banks
<1>4. CASE GoOn
  <2>1. Target' = Target
    BY <1>4 DEF GoOn, Target, Writing, At
  <2> QED
    BY <2>1
<1>5. CASE EraseTable
  <2>1. ~table.valid /\ Target = table /\ Target' = Factory
    BY <1>5 DEF EraseTable, Quiet, Target, Writing
  <2> QED
    BY <2>1, BootsFacts
<1> QED
  BY <1>1, <1>2, <1>3, <1>4, <1>5

\* The steps on the table keep the bank in use whole: none is begun with bank
\* A in part.
LEMMA TableGuarded ==
  ASSUME TypeInv, PlaceInv, ~replaced, InOrder, OtherBank, Guarded, Table
  PROVE  OtherBank' /\ Guarded'
<1>1. /\ ReadTable \/ BeginWrite \/ GoOn \/ EraseTable
      /\ ~failed /\ UNCHANGED <<flash, transferState, stage, running, file>>
      /\ stage \in {"Jump", "Again", "SetCur", "SetUsbMode", "ExtInit", "Finalize"}
  BY TableEffect DEF TableKinds
<1>2. OtherBank'
  <2>1. CASE stage = "ExtInit"
    <3>1. Boots(Target') = Boots(Target)
      BY <2>1, TableBoots
    <3> QED
      BY <1>1, <2>1, <3>1 DEF OtherBank, Boots
  <2>2. CASE stage # "ExtInit"
    BY <1>1, <2>2 DEF OtherBank
  <2> QED
    BY <2>1, <2>2
<1>3. /\ GuardedIn(flash, table, Target, stage, running)
      /\ ~ImageIn(flash, "A") => Quiet
  BY GuardedIs
<1>4. CASE ReadTable
  <2>1. table' = table /\ Target' = table /\ Quiet'
    BY <1>4 DEF ReadTable, Quiet, Target, Writing
  <2> QED
    BY <1>1, <1>2, <1>3, <2>1, GuardedIs DEF GuardedIn
<1>5. CASE BeginWrite
  <2>1. table' = table /\ Target = table /\ Target' = s_fica' /\ s_fica'.valid
    BY <1>5 DEF BeginWrite, Quiet, Target, Writing
  <2>2. ImageIn(flash, "A")
    BY <1>3, <1>5 DEF BeginWrite, GuardedIn, Banks
  <2>3. ImageIn(flash, Boots(s_fica'))
    <3>1. CASE stage = "Finalize"
      BY <1>3, <3>1, BootsFacts DEF GuardedIn, Banks
    <3>2. CASE stage # "Finalize"
      <4>1. Boots(s_fica') = Boots(Target)
        BY <2>1, <3>2, TableBoots
      <4> QED
        BY <1>3, <4>1 DEF GuardedIn
    <3> QED
      BY <3>1, <3>2
  <2> QED
    BY <1>1, <1>2, <1>3, <2>1, <2>2, <2>3, GuardedIs DEF GuardedIn
<1>6. CASE GoOn
  <2>1. ImageIn(flash, "A")
    BY <1>3, <1>6 DEF GoOn, Quiet
  <2>2. Target' = Target
    BY <1>6 DEF GoOn, Target, Writing, At
  <2>3. table' \in {Erased, Target, table}
    BY <1>6 DEF GoOn, Target, Writing
  <2> QED
    BY <1>1, <1>2, <1>3, <2>1, <2>2, <2>3, GuardedIs, BootsFacts DEF GuardedIn
<1>7. CASE EraseTable
  <2>1. ~table.valid /\ table' = Erased /\ Target' = Factory
    BY <1>7 DEF EraseTable, Quiet, Target, Writing
  <2>2. ImageIn(flash, "A")
    BY <1>3, <2>1 DEF GuardedIn
  <2> QED
    BY <1>1, <1>2, <1>3, <2>1, <2>2, GuardedIs, BootsFacts DEF GuardedIn
<1> QED
  BY <1>1, <1>4, <1>5, <1>6, <1>7

\* A restart, also with a torn table, finds a whole bank.
LEMMA StartGuarded ==
  ASSUME Guarded, Start, table' \in {table} \union (IF At("header") THEN {Torn} ELSE {})
  PROVE  OtherBank' /\ Guarded'
<1>1. stage' = "Boot" /\ todo' = <<>> /\ flash' = flash /\ running' = running
  BY DEF Start, Begin
<1>2. Quiet' /\ Target' = table'
  BY <1>1, QuietFacts
<1>3. /\ GuardedIn(flash, table, Target, stage, running)
      /\ ~ImageIn(flash, "A") => Quiet
  BY GuardedIs
<1>4. OtherBank'
  BY <1>1 DEF OtherBank
<1>5. CASE table' = table
  BY <1>1, <1>2, <1>3, <1>4, <1>5, GuardedIs DEF GuardedIn
<1>6. CASE At("header") /\ table' = Torn
  <2>1. ImageIn(flash, "A")
    BY <1>3, <1>6 DEF Quiet
  <2> QED
    BY <1>1, <1>2, <1>4, <1>6, <2>1, GuardedIs, BootsFacts DEF GuardedIn
<1> QED
  BY <1>5, <1>6

\* A block is erased or programmed: not in the bank in use, and if that makes
\* bank A incomplete, its guards are there.
LEMMA BankGuarded ==
  ASSUME OneFile, TypeInv, PlaceInv, InOrder, UsbBit, faults < 2, OtherBank, Guarded,
         EraseBank \/ Program
  PROVE  OtherBank' /\ Guarded'
<1>1. /\ stage = "Packet" /\ Programming /\ ~failed
      /\ UNCHANGED <<table, transferState, stage, running, file>>
      /\ \A b \in Banks : \A i \in 1..BankSize :
           b # file.bank => flash'[Addr(b, i)] = flash[Addr(b, i)]
  BY BankEffect
<1>2. Target = table /\ Target' = table /\ Quiet'
  BY <1>1, CallQuiet
<1>3. transferState = "ACTIVE" /\ file.bank \in Banks /\ file.bank # Boots(table)
  BY <1>1, <1>2 DEF InOrder, OtherBank, TypeInv
<1>4. OtherBank'
  BY <1>1, <1>2, <1>3 DEF OtherBank, Boots
<1>5. GuardedIn(flash, table, table, stage, running)
  BY <1>2, GuardedIs
<1>6. \A b \in Banks : b # file.bank => (ImageIn(flash', b) <=> ImageIn(flash, b))
  <2> SUFFICES ASSUME NEW b \in Banks, b # file.bank
               PROVE  ImageIn(flash', b) <=> ImageIn(flash, b)
    OBVIOUS
  <2>1. \A i \in 1..ImageLen : flash'[Addr(b, i)] = flash[Addr(b, i)]
    <3>1. \A i \in 1..ImageLen : i \in 1..BankSize
      BY UpdateAssumption
    <3> QED
      BY <1>1, <3>1
  <2> QED
    BY <2>1 DEF ImageIn
<1>7. ImageIn(flash', Boots(table))
  BY <1>3, <1>5, <1>6, BootsFacts DEF GuardedIn
<1>8. ~ImageIn(flash', "A") => /\ table.valid /\ table.currType = "B"
                               /\ {"USB", "NAI"} \subseteq table.comm
  <2>1. CASE file.bank = "A"
    <3>1. table.valid /\ table.currType = "B"
      BY <1>3, <2>1 DEF Boots, Banks
    <3>2. "USB" \in table.comm
      <4>1. ~(faults >= 2)
        BY DEF TypeInv
      <4> QED
        BY <1>1, <3>1, <4>1 DEF UsbBit, NoUsbBit
    <3>3. "NAI" \in table.comm
      BY <1>1 DEF Programming
    <3> QED
      BY <3>1, <3>2, <3>3
  <2>2. CASE file.bank = "B"
    <3>1. ImageIn(flash', "A") <=> ImageIn(flash, "A")
      BY <1>6, <2>2 DEF Banks
    <3> QED
      BY <1>5, <3>1 DEF GuardedIn
  <2> QED
    BY <1>3, <2>1, <2>2 DEF Banks
<1>9. GuardedIn(flash', table', Target', stage', running')
  BY <1>1, <1>2, <1>7, <1>8 DEF GuardedIn
<1> QED
  BY <1>2, <1>4, <1>9, GuardedIs

\* The last block makes the image whole, and with the bank in use both are.
LEMMA PacketGuarded ==
  ASSUME TypeInv, PlaceInv, InOrder, OtherBank, Guarded, PacketReturns
  PROVE  OtherBank' /\ Guarded'
<1>1. /\ Target = table /\ Target' = table /\ stage = "Packet" /\ todo = <<>>
      /\ UNCHANGED <<flash, table, running, file, transfers>>
  BY PacketEffect
<1>2. GuardedIn(flash, table, table, stage, running)
  BY <1>1, GuardedIs
<1>3. CASE failed /\ stage' = "ReRun" /\ Quiet'
  <2>1. OtherBank'
    BY <1>3 DEF OtherBank
  <2> QED
    BY <1>1, <1>2, <1>3, <2>1, GuardedIs DEF GuardedIn
<1>4. CASE ~failed /\ stage' = "Usb" /\ Quiet' /\ transferState' = transferState
  <2>1. transferState = "ACTIVE" /\ file.bank # Boots(table)
    BY <1>1, <1>4 DEF InOrder, OtherBank
  <2>2. OtherBank'
    BY <1>1, <1>4, <2>1 DEF OtherBank, Boots
  <2> QED
    BY <1>1, <1>2, <1>4, <2>2, GuardedIs DEF GuardedIn
<1>5. CASE ~failed /\ stage' = "Finalize" /\ dataWritten + 1 = ImageLen
  <2>1. /\ transferState = "ACTIVE" /\ packet = dataWritten + 1 /\ file.bank # Boots(table)
        /\ \A i \in 1..dataWritten : flash[Addr(file.bank, i)] = transfers + 1
        /\ flash[Addr(file.bank, packet)] = transfers + 1
    BY <1>1, <1>5 DEF InOrder, OtherBank
  <2>2. \A i \in 1..ImageLen : flash[Addr(file.bank, i)] = transfers + 1
    <3>1. \A i \in 1..ImageLen : i \in 1..dataWritten \/ i = packet
      BY <1>5, <2>1 DEF TypeInv
    <3> QED
      BY <2>1, <3>1
  <2>3. transfers + 1 \in 1..(MaxTransfers + 1)
    BY UpdateAssumption DEF TypeInv
  <2>4. ImageIn(flash, file.bank)
    BY <2>2, <2>3 DEF ImageIn
  <2>5. ImageIn(flash, "A") /\ ImageIn(flash, "B")
    <3>1. file.bank \in Banks /\ Boots(table) \in Banks
      BY BootsFacts DEF TypeInv
    <3>2. ImageIn(flash, Boots(table))
      BY <1>2 DEF GuardedIn
    <3> QED
      BY <2>1, <2>4, <3>1, <3>2 DEF Banks
  <2>6. OtherBank'
    BY <1>5 DEF OtherBank
  <2> QED
    BY <1>1, <1>2, <1>5, <2>5, <2>6, GuardedIs DEF GuardedIn
<1> QED
  BY PacketEffect, <1>3, <1>4, <1>5

\* Every step with at most one error keeps the banks in use whole.
LEMMA NextGuarded ==
  ASSUME OneFile, ~AnyBank, TypeInv, PlaceInv, ~replaced, InOrder, UsbBit,
         faults < 2 => OtherBank /\ Guarded, [Next]_vars, faults' < 2
  PROVE  OtherBank' /\ Guarded'
<1>1. faults < 2
  <2>1. faults' = faults \/ faults' = faults + 1
    BY Counting
  <2> QED
    BY <2>1 DEF TypeInv
<1>2. OtherBank /\ Guarded
  BY <1>1
<1>3. /\ GuardedIn(flash, table, Target, stage, running)
      /\ ~ImageIn(flash, "A") => Quiet
  BY <1>2, GuardedIs
\* A step that leaves flash and table alone, and does not begin a write.
<1>4. ASSUME flash' = flash, table' = table, Target' = table', Quiet', stage' # "Finalize",
             stage' \in {"Again", "SetCur", "App"} => ImageIn(flash, running')
      PROVE  Guarded'
  <2>1. GuardedIn(flash', table', Target', stage', running')
    BY <1>3, <1>4 DEF GuardedIn
  <2> QED
    BY <1>4, <2>1, GuardedIs
<1>5. CASE Table
  BY <1>2, <1>5, TableGuarded
<1>6. CASE EraseBank \/ Program
  BY <1>1, <1>2, <1>6, BankGuarded
<1>7. CASE PacketReturns
  BY <1>2, <1>7, PacketGuarded
<1>8. CASE Reset \/ Crash
  <2>1. Start /\ table' \in {table} \union (IF At("header") THEN {Torn} ELSE {})
    BY <1>8 DEF Reset, Crash
  <2> QED
    BY <1>2, <2>1, StartGuarded
<1>9. CASE Fault
  <2>1. OtherBank'
    BY <1>9, FaultEffect DEF OtherBank
  <2>2. /\ GuardedIn(flash', table', Target', stage', running') /\ Quiet'
    BY <1>3, <1>9, FaultEffect DEF GuardedIn
  <2> QED
    BY <2>1, <2>2, GuardedIs
<1>a. CASE CheckFails
  <2>1. /\ table' = table /\ Target = table /\ Target' = table /\ Quiet' /\ ~failed
        /\ UNCHANGED <<flash, transferState, stage, running, file>>
    BY <1>a, CheckEffect DEF ReadTable, Quiet, Writing, Target
  <2>2. OtherBank'
    BY <1>2, <2>1 DEF OtherBank, Boots
  <2>3. GuardedIn(flash', table', Target', stage', running')
    BY <1>3, <2>1 DEF GuardedIn
  <2> QED
    BY <2>1, <2>2, <2>3, GuardedIs
<1>10. CASE CheckForUpdate
  <2>1. flash' = flash /\ table' = table /\ stage' \in {"SetUsbMode", "Jump"}
    BY <1>10 DEF CheckForUpdate, Begin
  <2>2. Quiet' /\ Target' = table'
    BY <1>10, CallQuiet
  <2> QED
    BY <1>4, <2>1, <2>2 DEF OtherBank
<1>11. CASE GotAppType
  <2>1. CASE failed
    BY <1>2, <1>11, <2>1, StartGuarded DEF GotAppType
  <2>2. CASE ~failed
    <3>1. /\ flash' = flash /\ table' = table /\ stage' = "Again" /\ running' = s_fica.currType
          /\ stage = "Jump" /\ todo = <<>>
      BY <1>11, <2>2 DEF GotAppType, Begin, Returns
    <3>2. Quiet' /\ Target' = table'
      BY <1>11, CallQuiet
    <3>3. running' = Boots(table)
      BY <2>2, <3>1, DonePlaces DEF Settled, Boots
    <3>4. ImageIn(flash, running')
      BY <1>3, <3>3 DEF GuardedIn
    <3> QED
      BY <1>4, <3>1, <3>2, <3>4 DEF OtherBank
  <2> QED
    BY <2>1, <2>2
<1>b. CASE JumpToApp
  <2>1. /\ flash' = flash /\ table' = table /\ stage' = "App" /\ running' = running
        /\ stage \in {"Again", "SetCur"}
    BY <1>b, SameType DEF JumpToApp, Begin, Returns
  <2>2. Quiet' /\ Target' = table'
    BY <1>b, <2>1, CallQuiet
  <2>3. ImageIn(flash, running')
    BY <1>3, <2>1 DEF GuardedIn
  <2> QED
    BY <1>4, <2>1, <2>2, <2>3 DEF OtherBank
<1>12. CASE UsbInit
  <2>1. flash' = flash /\ table' = table /\ stage' = "Usb" /\ transferState' = "IDLE"
    BY <1>12 DEF UsbInit, Begin
  <2>2. Quiet' /\ Target' = table'
    BY <1>12, CallQuiet
  <2> QED
    BY <1>4, <2>1, <2>2 DEF OtherBank
<1>13. CASE ExtInitReturns
  <2>1. /\ flash' = flash /\ table' = table /\ stage' \in {"ReRun", "Packet"} /\ file' = file
        /\ stage = "ExtInit" /\ (stage' = "Packet" => ~failed)
    BY <1>13 DEF ExtInitReturns, Begin, Returns, host
  <2>2. Quiet' /\ Target' = table' /\ Target = table
    BY <1>13, CallQuiet
  <2>3. OtherBank'
    BY <1>2, <2>1, <2>2 DEF OtherBank, InOrder, Boots
  <2> QED
    BY <1>4, <2>1, <2>2, <2>3
<1>14. CASE FinalizeReturns
  <2>1. flash' = flash /\ table' = table /\ stage' = "ReRun"
    BY <1>14 DEF FinalizeReturns, Begin
  <2>2. Quiet' /\ Target' = table'
    BY <1>14, CallQuiet
  <2> QED
    BY <1>4, <2>1, <2>2 DEF OtherBank
<1>15. CASE ReRunBootloader
  <2>1. CASE Start
    BY <1>2, <1>15, <2>1, StartGuarded DEF ReRunBootloader
  <2>2. CASE ~Start
    <3>1. flash' = flash /\ table' = table /\ stage' = "Lost"
      BY <1>15, <2>2 DEF ReRunBootloader, Begin
    <3>2. Quiet' /\ Target' = table'
      BY <1>15, CallQuiet
    <3> QED
      BY <1>4, <3>1, <3>2 DEF OtherBank
  <2> QED
    BY <2>1, <2>2
<1>16. CASE WriteDirectory
  <2>1. /\ flash' = flash /\ table' = table /\ stage' = "Usb"
        /\ file'.bank # Current
    BY <1>16 DEF WriteDirectory
  <2>2. Quiet' /\ Target' = table'
    BY <1>16, CallQuiet
  <2>3. file'.bank # Boots(table')
    <3>1. Current = Boots(table)
      BY DEF Current, Boots
    <3> QED
      BY <2>1, <3>1
  <2> QED
    BY <1>4, <2>1, <2>2, <2>3 DEF OtherBank, Boots
<1>17. CASE \E i \in Sectors : WriteFirst(i) \/ WritePacket(i)
  <2>1. /\ flash' = flash /\ table' = table /\ stage' \in {"Usb", "ExtInit", "Packet"}
        /\ stage = "Usb" /\ transferState \in {"START", "ACTIVE"}
    BY <1>17 DEF WriteFirst, WritePacket, Begin
  <2>2. Quiet' /\ Target' = table' /\ Target = table
    BY <1>17, CallQuiet
  <2>3. file'.bank = file.bank /\ ~failed
    BY <1>17, <2>1, IdlePlaces DEF WriteFirst, WritePacket, TypeInv
  <2>4. OtherBank'
    BY <1>2, <2>1, <2>2, <2>3 DEF OtherBank, Boots
  <2> QED
    BY <1>4, <2>1, <2>2, <2>4
<1>18. CASE UNCHANGED vars
  <2>1. flash' = flash /\ table' = table /\ Target' = Target /\ stage' = stage /\ running' = running
    BY <1>18 DEF vars, Target, Writing, At
  <2>2. Quiet' <=> Quiet
    BY <1>18 DEF vars, Quiet, At
  <2>3. Guarded'
    BY <1>3, <2>1, <2>2, GuardedIs
  <2>4. OtherBank'
    BY <1>2, <1>18, <2>1 DEF vars, OtherBank, Boots
  <2> QED
    BY <2>3, <2>4
<1> QED
  BY <1>5, <1>6, <1>7, <1>8, <1>9, <1>a, <1>10, <1>11, <1>b, <1>12, <1>13, <1>14, <1>15, <1>16, <1>17, <1>18
     DEF Next, Loader, Host

\* The state at the first start.
LEMMA InitBoot ==
  ASSUME Init
  PROVE  BootInv
<1>1. /\ table = Erased /\ s_fica = Erased /\ stage = "Boot" /\ todo = <<>> /\ faults = 0
  BY DEF Init
<1>2. Quiet /\ Target = table
  BY <1>1, QuietFacts
<1>3. ImageIn(flash, "A")
  <2>1. 1 \in 1..(MaxTransfers + 1)
    BY UpdateAssumption
  <2>2. \A i \in 1..ImageLen : flash[Addr("A", i)] = 1
    <3> SUFFICES ASSUME NEW i \in 1..ImageLen PROVE flash[Addr("A", i)] = 1
      OBVIOUS
    <3>1. i \in 1..BankSize /\ Addr("A", i) = i
      BY UpdateAssumption DEF Addr
    <3>2. i \in Sectors /\ i \notin BankSize+1 .. 2*BankSize
      BY <3>1, UpdateAssumption DEF Sectors
    <3> QED
      BY <3>1, <3>2 DEF Init
  <2> QED
    BY <2>1, <2>2 DEF ImageIn
<1>4. Guarded
  BY <1>1, <1>2, <1>3, GuardedIs, BootsFacts DEF GuardedIn
<1>5. InOrder /\ OtherBank
  BY <1>1 DEF InOrder, OtherBank
<1>6. UsbBit
  BY <1>1, NoBits DEF UsbBit
<1> QED
  BY <1>4, <1>5, <1>6 DEF BootInv

\* jumpToMainAppTask starts whole images only, whatever is cut off, with at most
\* one flash error, and as long as no failed check of the flash has replaced a
\* valid table: of a host that sends the blocks of a file once and in order, for
\* the bank that is not in use, for any sizes, any number of files and any
\* number of power cuts.
THEOREM WholeImages ==
  ASSUME Ordered, Others = {}, ~AnyBank
  PROVE  Spec => []BootsWholeImage
<1>1. OneFile
  BY DEF OneFile
<1>2. Init => BootInv
  BY InitBoot
<1>3. TypeInv /\ PlaceInv /\ BootInv /\ [Next]_vars => BootInv'
  <2> SUFFICES ASSUME TypeInv, PlaceInv, BootInv, [Next]_vars PROVE BootInv'
    OBVIOUS
  <2>1. InOrder
    BY DEF BootInv
  <2>2. InOrder'
    BY <1>1, <2>1, NextInOrder
  <2>3. ASSUME ~replaced'
        PROVE  UsbBit' /\ (faults' < 2 => OtherBank' /\ Guarded')
    <3>1. ~replaced
      BY <2>3, Counting
    <3>2. UsbBit /\ (faults < 2 => OtherBank /\ Guarded)
      BY <3>1 DEF BootInv
    <3>3. UsbBit'
      BY <3>1, <3>2, NextUsbBit
    <3>4. faults' < 2 => OtherBank' /\ Guarded'
      BY <1>1, <2>1, <3>1, <3>2, NextGuarded
    <3> QED
      BY <3>3, <3>4
  <2> QED
    BY <2>2, <2>3 DEF BootInv
<1>4. BootInv => BootsWholeImage
  BY DEF BootInv, Guarded, BootsWholeImage
<1> QED
  BY <1>2, <1>3, <1>4, AlwaysPlaced, PTL DEF Spec

=============================================================================
