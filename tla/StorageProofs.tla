----------------------------- MODULE StorageProofs -----------------------------
(***************************************************************************)
(* The storage of the configuration, proved for any number of pages and    *)
(* any register values: what the EEPROM, the live image and the address in *)
(* force have to do with each other, wherever transfers fail and whenever  *)
(* the power goes.                                                         *)
(*                                                                         *)
(* The second half carries the theorems of ModbusProofs and I2cProofs over *)
(* to the composition of MCStorage: what its runs check for small bytes    *)
(* and short accesses holds for all of them.                               *)
(***************************************************************************)
EXTENDS MCStorage, TLAPS

\* Pages are numbered from 0 to Last, and no content is the corrupt sum.
LEMMA PageFacts ==
  /\ 0 \in Pages /\ Last \in Pages
  /\ \A p \in Pages : p \in Nat /\ p <= Last
  /\ \A p \in Pages : p # Last => p + 1 \in Pages
  /\ Corrupt \notin Contents
  /\ Defaults \in Contents
<1>1. NPages \in Nat /\ NPages >= 1 /\ Default \in Values
  BY ConfigAssumption
<1>2. 0 \in Pages /\ Last \in Pages
  BY <1>1 DEF Pages, Last
<1>3. /\ \A p \in Pages : p \in Nat /\ p <= Last
      /\ \A p \in Pages : p # Last => p + 1 \in Pages
  BY <1>1 DEF Pages, Last
<1>4. Corrupt \notin Contents
  <2>1. DOMAIN Corrupt = {}
    BY DEF Corrupt
  <2>2. \A e \in Contents : DOMAIN e = Pages
    BY DEF Contents
  <2>3. QED
    BY <1>2, <2>1, <2>2
<1>5. Defaults \in Contents
  BY <1>1 DEF Defaults, Contents
<1>6. QED
  BY <1>2, <1>3, <1>4, <1>5

\* The outcomes of a page transfer, in the EEPROM and in memory.
LEMMA StoreFacts ==
  ASSUME TypeOK, Store(page)
  PROVE  /\ e_para' \in Contents /\ e_chksum' \in Sums
         /\ e_para'[page] = para[page]
         /\ \A p \in Pages : p # page => e_para'[p] = e_para[p]
         /\ page = 0 => e_chksum' = chksum
         /\ page # 0 => e_chksum' = e_chksum
  BY DEF TypeOK, Store, Contents, Sums

\* A page write that fails may have reached the EEPROM: what is there is still an image.
LEMMA MayStoreFacts ==
  ASSUME TypeOK, MayStore(page)
  PROVE  e_para' \in Contents /\ e_chksum' \in Sums
  BY DEF TypeOK, MayStore, Contents, Sums

\* A page read brings its page, and page 0 the stored sum with it.
LEMMA LoadFacts ==
  ASSUME TypeOK, Load(page)
  PROVE  /\ para' \in Contents /\ chksum' \in Sums
         /\ para'[page] = e_para[page]
         /\ \A p \in Pages : p # page => para'[p] = para[p]
         /\ page = 0 => chksum' = e_chksum
         /\ page # 0 => chksum' = chksum
  BY DEF TypeOK, Load, Contents, Sums

\* A page read that breaks off leaves an image in memory, its sum old, stored or torn.
LEMMA MayLoadFacts ==
  ASSUME TypeOK, MayLoad(page)
  PROVE  /\ para' \in Contents /\ chksum' \in Sums
         /\ chksum' \in {chksum, e_chksum, Corrupt}
  BY DEF TypeOK, MayLoad, Contents, Sums

\* An image of which every page agrees with another is that other one.
LEMMA SameImage ==
  ASSUME NEW e \in Contents, NEW d \in Contents, \A p \in Pages : e[p] = d[p]
  PROVE  e = d
  BY DEF Contents

--------------------------------------------------------------------------------
(* One lemma per action.                                                   *)

\* A unit that has never run is about to load whatever its EEPROM holds.
LEMMA InitInv == Init => IInv
<1> SUFFICES ASSUME Init PROVE IInv
  OBVIOUS
<1>1. TypeOK
  <2>1. /\ para \in Contents /\ chksum \in Sums /\ e_para \in Contents /\ e_chksum \in Sums
        /\ page \in Pages /\ retry_numb \in 0 .. Retries
    BY PageFacts DEF Init, Sums, Retries
  <2>2. slave \in Values /\ events \in [BOOLEAN -> 0 .. MaxEvents]
    BY ConfigAssumption DEF Init
  <2>3. crc \in Seq(Values) /\ Len(crc) <= NPages
    BY ConfigAssumption DEF Init
  <2>4. QED
    BY <2>1, <2>2, <2>3 DEF Init, TypeOK, Transfers
<1>2. SaveSound /\ BootSound /\ AddressSound
  BY PageFacts DEF Init, SaveSound, BootSound, AddressSound, Idle
<1>3. QED
  BY <1>1, <1>2 DEF IInv

\* Boot leaves what the saves and the address are about alone.
LEMMA BootAddress ==
  ASSUME IInv, pc \in {"load", "verify", "rewrite"}, BootFrame
  PROVE  AddressSound' /\ Idle'
  BY DEF IInv, BootFrame, AddressSound, BootSound, Idle

\* A page read has been added to those that agree with the EEPROM.
LEMMA LoadPageInv == ASSUME IInv, LoadPage PROVE IInv'
<1> USE DEF IInv
<1>1. pc = "load" /\ Load(page) /\ page \in Pages
  BY DEF LoadPage, TypeOK
<1>2. \A p \in Pages : p <= page => para'[p] = e_para[p]
  <2> SUFFICES ASSUME NEW p \in Pages, p <= page PROVE para'[p] = e_para[p]
    OBVIOUS
  <2>1. CASE p = page
    BY <2>1, <1>1, LoadFacts
  <2>2. CASE p # page
    <3>1. p < page
      BY <2>2, <1>1, PageFacts
    <3>2. QED
      BY <2>2, <3>1, <1>1, LoadFacts DEF BootSound
  <2>3. QED
    BY <2>1, <2>2
<1>3. chksum' = e_chksum
  BY <1>1, LoadFacts, PageFacts DEF BootSound
<1>4. TypeOK'
  <2>1. para' \in Contents /\ chksum' \in Sums /\ e_para' \in Contents /\ e_chksum' \in Sums
    BY <1>1, LoadFacts DEF TypeOK, LoadPage, eeprom
  <2>2. page' \in Pages /\ retry_numb' \in 0 .. Retries
    BY PageFacts DEF TypeOK, LoadPage, NextPage, Complete, Retries
  <2>3. /\ pc' \in Transfers \cup {"verify", "run", "sum"} /\ m_status' \in {"OK", "DATUM_FAILED"}
      /\ recover' \in BOOLEAN /\ apply' \in BOOLEAN /\ failed' \in BOOLEAN /\ addressed' \in BOOLEAN
    BY DEF TypeOK, LoadPage, NextPage, Complete, BootFrame, Transfers
  <2>4. /\ slave' \in Values /\ events' \in [BOOLEAN -> 0 .. MaxEvents]
      /\ crc' \in Seq(Values) /\ Len(crc') <= NPages
    BY DEF TypeOK, LoadPage, BootFrame
  <2>5. QED
    BY <2>1, <2>2, <2>3, <2>4 DEF TypeOK
<1>5. AddressSound' /\ Idle'
  BY <1>1, BootAddress DEF LoadPage
<1>6. SaveSound'
  BY <1>1 DEF LoadPage, SaveSound, NextPage, Complete
<1>7. BootSound'
  <2>1. CASE NextPage
    <3>1. page' = page + 1 /\ pc' = "load" /\ eeprom' = eeprom
      BY <2>1, <1>1 DEF LoadPage, NextPage
    <3>2. \A p \in Pages : p < page' => para'[p] = e_para'[p]
      BY <3>1, <1>1, <1>2, PageFacts DEF eeprom
    <3>3. QED
      BY <3>1, <3>2, <1>1, <1>3, <1>5 DEF BootSound, LoadPage, BootFrame, eeprom
  <2>2. CASE Complete(TRUE) /\ pc' = "verify"
    <3>1. \A p \in Pages : para'[p] = e_para[p]
      BY <2>2, <1>1, <1>2, PageFacts DEF Complete
    <3>2. para' = e_para
      BY <3>1, <1>1, LoadFacts, SameImage DEF TypeOK
    <3>3. QED
      BY <2>2, <3>2, <1>1, <1>3, <1>5 DEF BootSound, LoadPage, BootFrame, eeprom
  <2>3. QED
    BY <2>1, <2>2 DEF LoadPage
<1>8. QED
  BY <1>4, <1>5, <1>6, <1>7

\* A page read that fails: tried again, taken for read, or the end of the boot.
LEMMA LoadFailsInv == ASSUME IInv, LoadFails PROVE IInv'
<1> USE DEF IInv
<1>1. pc = "load" /\ MayLoad(page) /\ page \in Pages
  BY DEF LoadFails, TypeOK
<1>2. TypeOK'
  <2>1. para' \in Contents /\ chksum' \in Sums /\ e_para' \in Contents /\ e_chksum' \in Sums
    BY <1>1, MayLoadFacts DEF TypeOK, LoadFails, eeprom
  <2>2. page' \in Pages /\ retry_numb' \in 0 .. Retries
    BY PageFacts DEF TypeOK, LoadFails, TryAgain, Complete, Abandon, Retries
  <2>3. /\ pc' \in Transfers \cup {"verify", "run", "sum"} /\ m_status' \in {"OK", "DATUM_FAILED"}
      /\ recover' \in BOOLEAN /\ apply' \in BOOLEAN /\ failed' \in BOOLEAN /\ addressed' \in BOOLEAN
    BY DEF TypeOK, LoadFails, TryAgain, Complete, Abandon, BootFrame, Transfers
  <2>4. /\ slave' \in Values /\ events' \in [BOOLEAN -> 0 .. MaxEvents]
      /\ crc' \in Seq(Values) /\ Len(crc') <= NPages
    BY DEF TypeOK, LoadFails, BootFrame
  <2>5. QED
    BY <2>1, <2>2, <2>3, <2>4 DEF TypeOK
<1>3. AddressSound' /\ Idle'
  BY <1>1, BootAddress DEF LoadFails
<1>4. SaveSound'
  BY <1>1 DEF LoadFails, SaveSound, TryAgain, Complete, Abandon
<1>5. BootSound'
  <2>1. addressed' = addressed /\ e_chksum' = e_chksum /\ recover' = recover
    BY DEF LoadFails, BootFrame, eeprom
  <2>2. recover => chksum' \in {e_chksum, Corrupt}
    BY <1>1, MayLoadFacts DEF BootSound
  <2>3. CASE TryAgain
    <3>1. page' = 0 /\ pc' = "load"
      BY <2>3, <1>1 DEF TryAgain
    <3>2. \A p \in Pages : ~(p < page')
      BY <3>1, PageFacts
    <3>3. QED
      BY <3>1, <3>2, <2>1, <2>2, <1>1, <1>3 DEF BootSound
  <2>4. CASE Complete(FALSE) /\ pc' = "verify"
    BY <2>4, <2>1, <2>2, <1>1, <1>3 DEF BootSound, Complete
  <2>5. CASE Abandon
    BY <2>5 DEF BootSound, Abandon
  <2>6. QED
    BY <2>3, <2>4, <2>5 DEF LoadFails
<1>6. QED
  BY <1>2, <1>3, <1>4, <1>5

\* What is accepted without an error is what the EEPROM holds.
LEMMA AcceptInv == ASSUME IInv, Accept PROVE IInv'
<1> USE DEF IInv
<1>1. TypeOK'
  BY DEF Accept, TypeOK, image, eeprom, access, BootFrame, Transfers
<1>2. AddressSound' /\ Idle'
  BY BootAddress DEF Accept
<1>3. SaveSound'
  BY DEF Accept, Verified, SaveSound, BootSound, image, eeprom
<1>4. BootSound'
  BY DEF Accept, BootSound
<1>5. QED
  BY <1>1, <1>2, <1>3, <1>4

\* A rejected image is replaced by the defaults, whose sum fits them.
LEMMA FallBackInv == ASSUME IInv, FallBack PROVE IInv'
<1> USE DEF IInv
<1>1. TypeOK'
  <2>1. para' \in Contents /\ chksum' \in Sums /\ e_para' \in Contents /\ e_chksum' \in Sums
    BY PageFacts DEF TypeOK, FallBack, eeprom, Sums
  <2>2. page' \in Pages /\ retry_numb' \in 0 .. Retries
    BY PageFacts DEF TypeOK, FallBack, Begin, Abandon, Retries
  <2>3. /\ pc' \in Transfers \cup {"verify", "run", "sum"} /\ m_status' \in {"OK", "DATUM_FAILED"}
      /\ recover' \in BOOLEAN /\ apply' \in BOOLEAN /\ failed' \in BOOLEAN /\ addressed' \in BOOLEAN
    BY DEF TypeOK, FallBack, Begin, Abandon, BootFrame, Transfers
  <2>4. /\ slave' \in Values /\ events' \in [BOOLEAN -> 0 .. MaxEvents]
      /\ crc' \in Seq(Values) /\ Len(crc') <= NPages
    BY DEF TypeOK, FallBack, BootFrame
  <2>5. QED
    BY <2>1, <2>2, <2>3, <2>4 DEF TypeOK
<1>2. AddressSound' /\ Idle'
  BY BootAddress DEF FallBack
<1>3. SaveSound' /\ BootSound'
  BY <1>2 DEF FallBack, SaveSound, BootSound, Begin, Abandon, BootFrame
<1>4. QED
  BY <1>1, <1>2, <1>3

\* A page of the defaults is written; after the last one they are read back.
LEMMA RewritePageInv == ASSUME IInv, RewritePage PROVE IInv'
<1> USE DEF IInv
<1>1. pc = "rewrite" /\ Store(page) /\ page \in Pages
  BY DEF RewritePage, TypeOK
<1>2. TypeOK'
  <2>1. para' \in Contents /\ chksum' \in Sums /\ e_para' \in Contents /\ e_chksum' \in Sums
    BY <1>1, StoreFacts DEF TypeOK, RewritePage, image
  <2>2. page' \in Pages /\ retry_numb' \in 0 .. Retries
    BY PageFacts DEF TypeOK, RewritePage, NextPage, ReadBack, Begin, Retries
  <2>3. /\ pc' \in Transfers \cup {"verify", "run", "sum"} /\ m_status' \in {"OK", "DATUM_FAILED"}
      /\ recover' \in BOOLEAN /\ apply' \in BOOLEAN /\ failed' \in BOOLEAN /\ addressed' \in BOOLEAN
    BY DEF TypeOK, RewritePage, NextPage, ReadBack, Begin, BootFrame, Transfers
  <2>4. /\ slave' \in Values /\ events' \in [BOOLEAN -> 0 .. MaxEvents]
      /\ crc' \in Seq(Values) /\ Len(crc') <= NPages
    BY DEF TypeOK, RewritePage, BootFrame
  <2>5. QED
    BY <2>1, <2>2, <2>3, <2>4 DEF TypeOK
<1>3. AddressSound' /\ Idle'
  BY <1>1, BootAddress DEF RewritePage
<1>4. SaveSound' /\ BootSound'
  BY <1>1, <1>3, PageFacts
     DEF RewritePage, SaveSound, BootSound, NextPage, ReadBack, Begin, BootFrame
<1>5. QED
  BY <1>2, <1>3, <1>4

\* Writing the defaults fails: tried again, read back all the same, or given up.
LEMMA RewriteFailsInv == ASSUME IInv, RewriteFails PROVE IInv'
<1> USE DEF IInv
<1>1. pc = "rewrite" /\ MayStore(page) /\ page \in Pages
  BY DEF RewriteFails, TypeOK
<1>2. TypeOK'
  <2>1. para' \in Contents /\ chksum' \in Sums /\ e_para' \in Contents /\ e_chksum' \in Sums
    BY <1>1, MayStoreFacts DEF TypeOK, RewriteFails, image
  <2>2. page' \in Pages /\ retry_numb' \in 0 .. Retries
    BY PageFacts DEF TypeOK, RewriteFails, TryAgain, ReadBack, Begin, Abandon, Retries
  <2>3. /\ pc' \in Transfers \cup {"verify", "run", "sum"} /\ m_status' \in {"OK", "DATUM_FAILED"}
      /\ recover' \in BOOLEAN /\ apply' \in BOOLEAN /\ failed' \in BOOLEAN /\ addressed' \in BOOLEAN
    BY DEF TypeOK, RewriteFails, TryAgain, ReadBack, Begin, Abandon, BootFrame, Transfers
  <2>4. /\ slave' \in Values /\ events' \in [BOOLEAN -> 0 .. MaxEvents]
      /\ crc' \in Seq(Values) /\ Len(crc') <= NPages
    BY DEF TypeOK, RewriteFails, BootFrame
  <2>5. QED
    BY <2>1, <2>2, <2>3, <2>4 DEF TypeOK
<1>3. AddressSound' /\ Idle'
  BY <1>1, BootAddress DEF RewriteFails
<1>4. SaveSound' /\ BootSound'
  BY <1>1, <1>3, PageFacts
     DEF RewriteFails, SaveSound, BootSound, TryAgain, ReadBack, Abandon, Begin, BootFrame
<1>5. QED
  BY <1>2, <1>3, <1>4

--------------------------------------------------------------------------------
\* A write ends the agreement with the EEPROM, but it queues a save.
LEMMA WriteRegsInv ==
  ASSUME IInv, NEW from \in Pages, NEW upto \in 0 .. NPages, NEW start \in BOOLEAN,
         NEW content \in [from .. upto - 1 -> Values], WriteRegs(from, upto, content, start)
  PROVE  IInv'
<1> USE DEF IInv
<1>1. para' \in Contents
  BY ConfigAssumption DEF WriteRegs, TypeOK, Contents, Pages
<1>2. events' \in [BOOLEAN -> 0 .. MaxEvents] /\ events'[start] > 0
  BY ConfigAssumption DEF WriteRegs, TypeOK
<1>3. TypeOK'
  BY <1>1, <1>2 DEF WriteRegs, TypeOK, eeprom, access
<1>4. ~Idle'
  BY <1>2 DEF Idle
<1>5. SaveSound'
  BY <1>4 DEF SaveSound
<1>6. BootSound'
  BY DEF WriteRegs, BootSound
<1>7. AddressSound'
  <2>1. \A e \in BOOLEAN : events[e] > 0 => events'[e] > 0
    BY ConfigAssumption DEF WriteRegs, TypeOK
  <2>2. CASE from = 0 /\ upto > 0
    BY <2>2, <1>2 DEF WriteRegs, AddressSound
  <2>3. CASE ~(from = 0 /\ upto > 0)
    <3>1. addressed' = addressed /\ slave' = slave /\ apply' = apply /\ pc' = pc /\ crc' = crc
      BY <2>3 DEF WriteRegs, TypeOK
    <3>2. from \in Nat /\ upto \in Nat /\ 0 \in Pages
      BY ConfigAssumption DEF Pages
    <3>3. para'[0] = para[0]
      BY <2>3, <3>2 DEF WriteRegs
    <3>4. events[TRUE] > 0 => events'[TRUE] > 0
      BY <2>1, Zenon
    <3>5. addressed' => slave' = para'[0] \/ events'[TRUE] > 0 \/ apply'
      BY <3>1, <3>3, <3>4 DEF AddressSound
    <3>6. QED
      BY <3>1, <3>5 DEF AddressSound
  <2>4. QED
    BY <2>2, <2>3
<1>8. QED
  BY <1>3, <1>5, <1>6, <1>7

--------------------------------------------------------------------------------
\* The last save queued starts with nothing summed yet.
LEMMA SaveBeginInv == ASSUME IInv, NEW start \in BOOLEAN, SaveBegin(start) PROVE IInv'
<1> USE DEF IInv
<1>1. events' \in [BOOLEAN -> 0 .. MaxEvents] /\ \A e \in BOOLEAN : e # start => events'[e] = events[e]
  BY ConfigAssumption DEF SaveBegin, TypeOK
<1>2. TypeOK'
  BY <1>1 DEF SaveBegin, SaveFrame, TypeOK, eeprom, access, Transfers
<1>3. crc = <<>>
  BY DEF SaveBegin, AddressSound
<1>4. SaveSound' /\ BootSound'
  <2>1. pc' = "sum" /\ \A p \in Pages : ~(p < Len(crc'))
    BY <1>3, PageFacts DEF SaveBegin
  <2>2. QED
    BY <2>1 DEF SaveSound, BootSound
<1>5. AddressSound'
  BY <1>1 DEF SaveBegin, SaveFrame, AddressSound
<1>6. QED
  BY <1>2, <1>4, <1>5

\* The checksum takes in one more page of an image that may have changed.
LEMMA SumPageInv == ASSUME IInv, SumPage PROVE IInv'
<1> USE DEF IInv
<1>1. /\ crc \in Seq(Values) /\ Len(crc) \in Nat /\ Len(crc) < NPages
      /\ crc' = Append(crc, para[Len(crc)]) /\ NPages \in Nat
  BY ConfigAssumption DEF SumPage, TypeOK
<1>2. Len(crc) \in Pages /\ para[Len(crc)] \in Values
  BY <1>1 DEF Pages, TypeOK, Contents
<1>3. crc' \in Seq(Values) /\ Len(crc') = Len(crc) + 1
  BY <1>1, <1>2
<1>4. TypeOK'
  BY <1>1, <1>3 DEF SumPage, SaveFrame, TypeOK, eeprom, access
<1>5. Idle' => \A p \in Pages : p < Len(crc') => crc'[p + 1] = para'[p]
  <2> SUFFICES ASSUME Idle', NEW p \in Pages, p < Len(crc') PROVE crc'[p + 1] = para'[p]
    OBVIOUS
  <2>1. p \in Nat /\ p < Len(crc) + 1 /\ Idle /\ para' = para
    BY <1>3, PageFacts DEF SumPage, SaveFrame, Idle
  <2>2. CASE p = Len(crc)
    BY <2>1, <2>2, <1>1, <1>2
  <2>3. CASE p < Len(crc)
    <3>1. crc'[p + 1] = crc[p + 1]
      BY <2>1, <2>3, <1>1, <1>2
    <3>2. crc[p + 1] = para[p]
      BY <2>1, <2>3 DEF SumPage, SaveSound
    <3>3. QED
      BY <3>1, <3>2, <2>1
  <2>4. QED
    BY <2>1, <2>2, <2>3, <1>1
<1>6. SaveSound'
  BY <1>5 DEF SumPage, SaveSound
<1>7. BootSound' /\ AddressSound'
  BY DEF SumPage, SaveFrame, BootSound, AddressSound
<1>8. QED
  BY <1>4, <1>6, <1>7

\* The check sum is that of the live image, unless there was a write.
LEMMA SumDoneInv == ASSUME IInv, SumDone PROVE IInv'
<1> USE DEF IInv
<1>1. /\ crc \in Seq(Values) /\ Len(crc) = NPages /\ NPages \in Nat
      /\ chksum' = [p \in Pages |-> crc[p + 1]]
  BY ConfigAssumption DEF SumDone, TypeOK
<1>2. \A p \in Pages : p < Len(crc) /\ crc[p + 1] \in Values
  BY <1>1 DEF Pages
<1>3. chksum' \in Contents
  BY <1>1, <1>2 DEF Contents
<1>4. TypeOK'
  <2>1. para' \in Contents /\ chksum' \in Sums /\ e_para' \in Contents /\ e_chksum' \in Sums
    BY <1>3 DEF TypeOK, SumDone, SaveFrame, eeprom, Sums
  <2>2. page' \in Pages /\ retry_numb' \in 0 .. Retries
    BY PageFacts DEF TypeOK, SumDone, Begin, Retries
  <2>3. /\ pc' \in Transfers \cup {"verify", "run", "sum"} /\ m_status' \in {"OK", "DATUM_FAILED"}
      /\ recover' \in BOOLEAN /\ apply' \in BOOLEAN /\ failed' \in BOOLEAN /\ addressed' \in BOOLEAN
    BY DEF TypeOK, SumDone, SaveFrame, Begin, Transfers
  <2>4. /\ slave' \in Values /\ events' \in [BOOLEAN -> 0 .. MaxEvents]
      /\ crc' \in Seq(Values) /\ Len(crc') <= NPages
    BY DEF TypeOK, SumDone, SaveFrame
  <2>5. QED
    BY <2>1, <2>2, <2>3, <2>4 DEF TypeOK
<1>5. Idle' => chksum' = para'
  <2> SUFFICES ASSUME Idle' PROVE chksum' = para
    BY DEF SumDone, SaveFrame
  <2>1. \A p \in Pages : p < Len(crc) => crc[p + 1] = para[p]
    BY DEF SumDone, SaveSound, Idle
  <2>2. \A p \in Pages : chksum'[p] = para[p]
    BY <2>1, <1>1, <1>2
  <2>3. QED
    BY <2>2, <1>3, SameImage DEF TypeOK
<1>6. SaveSound'
  BY <1>5, PageFacts DEF SumDone, SaveSound, Begin
<1>7. BootSound' /\ AddressSound'
  BY DEF SumDone, SaveFrame, BootSound, AddressSound
<1>8. QED
  BY <1>4, <1>6, <1>7

\* A save that is done has the address in force.
LEMMA SaveDoneAddress ==
  ASSUME IInv, NEW ok \in BOOLEAN, SaveDone(ok), SaveFrame, UNCHANGED <<events, crc, addressed>>,
         pc = "save"
  PROVE  AddressSound'
  BY DEF IInv, SaveDone, SaveFrame, Applied, AddressSound, TypeOK

\* A page of the image is saved; the last one ends the save.
LEMMA SavePageInv == ASSUME IInv, SavePage PROVE IInv'
<1> USE DEF IInv
<1>1. pc = "save" /\ Store(page) /\ page \in Pages /\ SaveFrame /\ UNCHANGED <<chksum, events, crc, addressed>>
  BY DEF SavePage, TypeOK
<1>2. TypeOK'
  <2>1. para' \in Contents /\ chksum' \in Sums /\ e_para' \in Contents /\ e_chksum' \in Sums
    BY <1>1, StoreFacts DEF TypeOK, SaveFrame
  <2>2. page' \in Pages /\ retry_numb' \in 0 .. Retries
    BY PageFacts DEF TypeOK, SavePage, NextPage, SaveDone, Complete, Retries
  <2>3. /\ pc' \in Transfers \cup {"verify", "run", "sum"} /\ m_status' \in {"OK", "DATUM_FAILED"}
      /\ recover' \in BOOLEAN /\ apply' \in BOOLEAN /\ failed' \in BOOLEAN /\ addressed' \in BOOLEAN
    BY DEF TypeOK, SavePage, SaveFrame, NextPage, SaveDone, Complete, Transfers
  <2>4. /\ slave' \in Values /\ events' \in [BOOLEAN -> 0 .. MaxEvents]
      /\ crc' \in Seq(Values) /\ Len(crc') <= NPages
    BY PageFacts DEF TypeOK, SavePage, SaveDone, Applied, Contents
  <2>5. QED
    BY <2>1, <2>2, <2>3, <2>4 DEF TypeOK
<1>3. Idle => \A p \in Pages : p <= page => e_para'[p] = para[p]
  <2> SUFFICES ASSUME Idle, NEW p \in Pages, p <= page PROVE e_para'[p] = para[p]
    OBVIOUS
  <2>1. CASE p = page
    BY <2>1, <1>1, StoreFacts
  <2>2. CASE p # page
    <3>1. p < page
      BY <2>2, <1>1, PageFacts
    <3>2. QED
      BY <2>2, <3>1, <1>1, StoreFacts DEF SaveSound
  <2>3. QED
    BY <2>1, <2>2
<1>4. Idle => chksum = para /\ e_chksum' = para
  BY <1>1, StoreFacts, PageFacts DEF SaveSound
<1>5. para' = para /\ Idle' = Idle
  BY <1>1 DEF SaveFrame, Idle
<1>6. CASE NextPage /\ UNCHANGED <<slave, apply>>
  <2>1. page' = page + 1 /\ pc' = "save"
    BY <1>6, <1>1 DEF NextPage
  <2>2. Idle => \A p \in Pages : p < page' => e_para'[p] = para'[p]
    BY <2>1, <1>1, <1>3, <1>5, PageFacts
  <2>3. SaveSound'
    BY <2>1, <2>2, <1>1, <1>4, <1>5 DEF SaveSound
  <2>4. BootSound' /\ AddressSound'
    BY <2>1, <1>1, <1>5, <1>6 DEF SaveFrame, BootSound, AddressSound
  <2>5. QED
    BY <1>2, <2>3, <2>4
<1>7. CASE SaveDone(TRUE)
  <2>1. pc' = "run" /\ page = Last
    BY <1>7 DEF SaveDone, Complete
  <2>2. Idle => e_para' = para'
    <3>1. Idle => \A p \in Pages : e_para'[p] = para[p]
      BY <2>1, <1>3, PageFacts
    <3>2. QED
      BY <3>1, <1>1, <1>5, StoreFacts, SameImage DEF TypeOK
  <2>3. SaveSound'
    BY <2>1, <2>2, <1>4, <1>5 DEF SaveSound
  <2>4. BootSound'
    BY <2>1 DEF BootSound
  <2>5. AddressSound'
    BY <1>1, <1>7, SaveDoneAddress
  <2>6. QED
    BY <1>2, <2>3, <2>4, <2>5
<1>8. QED
  BY <1>6, <1>7 DEF SavePage

\* A page write fails: a retry, or the save counts as done.
LEMMA SaveFailsInv == ASSUME IInv, SaveFails PROVE IInv'
<1> USE DEF IInv
<1>1. pc = "save" /\ MayStore(page) /\ page \in Pages /\ SaveFrame /\ UNCHANGED <<chksum, events, crc>>
  BY DEF SaveFails, TypeOK
<1>2. TypeOK'
  <2>1. para' \in Contents /\ chksum' \in Sums /\ e_para' \in Contents /\ e_chksum' \in Sums
    BY <1>1, MayStoreFacts DEF TypeOK, SaveFrame
  <2>2. page' \in Pages /\ retry_numb' \in 0 .. Retries
    BY PageFacts DEF TypeOK, SaveFails, TryAgain, SaveDone, Complete, Abandon, Retries
  <2>3. /\ pc' \in Transfers \cup {"verify", "run", "sum"} /\ m_status' \in {"OK", "DATUM_FAILED"}
      /\ recover' \in BOOLEAN /\ apply' \in BOOLEAN /\ failed' \in BOOLEAN /\ addressed' \in BOOLEAN
    BY DEF TypeOK, SaveFails, SaveFrame, TryAgain, SaveDone, Complete, Abandon, Transfers
  <2>4. /\ slave' \in Values /\ events' \in [BOOLEAN -> 0 .. MaxEvents]
      /\ crc' \in Seq(Values) /\ Len(crc') <= NPages
    BY PageFacts DEF TypeOK, SaveFails, SaveDone, Applied, Contents
  <2>5. QED
    BY <2>1, <2>2, <2>3, <2>4 DEF TypeOK
<1>3. SaveSound' /\ BootSound'
  <2>1. para' = para /\ chksum' = chksum /\ Idle' = Idle
    BY <1>1 DEF SaveFrame, Idle
  <2>2. CASE TryAgain
    <3>1. page' = 0 /\ pc' = "save"
      BY <2>2, <1>1 DEF TryAgain
    <3>2. \A p \in Pages : ~(p < page')
      BY <3>1, PageFacts
    <3>3. QED
      BY <3>1, <3>2, <2>1, <1>1 DEF SaveSound, BootSound
  <2>3. CASE Abandon \/ SaveDone(FALSE)
    <3>1. pc' = "run" /\ failed'
      BY <2>3 DEF Abandon, SaveDone, Complete
    <3>2. QED
      BY <3>1 DEF SaveSound, BootSound
  <2>4. QED
    BY <2>2, <2>3 DEF SaveFails
<1>4. AddressSound'
  <2>1. CASE TryAgain /\ UNCHANGED <<slave, apply, addressed>>
    BY <2>1, <1>1 DEF TryAgain, SaveFrame, AddressSound
  <2>2. CASE SaveDone(FALSE) /\ UNCHANGED addressed
    BY <2>2, <1>1, SaveDoneAddress
  <2>3. CASE GivesUp /\ Abandon /\ apply' = FALSE /\ addressed' = FALSE /\ UNCHANGED slave
    BY <2>3, <1>1 DEF Abandon, AddressSound
  <2>4. QED
    BY <2>1, <2>2, <2>3 DEF SaveFails
<1>5. QED
  BY <1>2, <1>3, <1>4

\* Power goes: memory is lost, the EEPROM keeps what reached it.
LEMMA PowerCutInv == ASSUME IInv, PowerCut PROVE IInv'
<1> USE DEF IInv
<1>1. e_para' \in Contents /\ e_chksum' \in Sums
  BY MayStoreFacts DEF PowerCut, TypeOK, eeprom
<1>2. TypeOK'
  <2>1. /\ para' \in Contents /\ chksum' \in Sums
        /\ page' \in Pages /\ retry_numb' \in 0 .. Retries
    BY PageFacts DEF PowerCut, PowerUp, Begin, Sums, Retries
  <2>2. slave' \in Values /\ events' \in [BOOLEAN -> 0 .. MaxEvents]
    BY ConfigAssumption DEF PowerCut, PowerUp
  <2>3. crc' \in Seq(Values) /\ Len(crc') <= NPages
    BY ConfigAssumption DEF PowerCut, PowerUp
  <2>4. QED
    BY <1>1, <2>1, <2>2, <2>3 DEF PowerCut, PowerUp, Begin, TypeOK, Transfers
<1>3. Idle'
  BY DEF PowerCut, PowerUp, Idle
<1>4. SaveSound' /\ BootSound' /\ AddressSound'
  BY <1>3, PageFacts DEF PowerCut, PowerUp, Begin, SaveSound, BootSound, AddressSound
<1>5. QED
  BY <1>2, <1>4

\* Every step keeps the invariant.
LEMMA NextInv == IInv /\ [Next]_vars => IInv'
<1> SUFFICES ASSUME IInv, [Next]_vars PROVE IInv'
  OBVIOUS
<1>1. CASE Boot
  BY <1>1, LoadPageInv, LoadFailsInv, AcceptInv, FallBackInv, RewritePageInv, RewriteFailsInv
     DEF Boot
<1>2. CASE Save
  BY <1>2, SaveBeginInv, SumPageInv, SumDoneInv, SavePageInv, SaveFailsInv DEF Save
<1>3. CASE \E from \in Pages, upto \in 0 .. NPages, start \in BOOLEAN :
             \E content \in [from .. upto - 1 -> Values] : WriteRegs(from, upto, content, start)
  BY <1>3, WriteRegsInv
<1>4. CASE PowerCut
  BY <1>4, PowerCutInv
<1>5. CASE UNCHANGED vars
  <2>1. /\ UNCHANGED <<para, chksum, e_para, e_chksum, slave, m_status, events, pc>>
        /\ UNCHANGED <<recover, page, retry_numb, crc, apply, failed, addressed>>
    BY <1>5 DEF vars, image, eeprom, access
  <2>2. TypeOK'
    BY <2>1 DEF IInv, TypeOK
  <2>3. SaveSound'
    BY <2>1 DEF IInv, SaveSound, Idle
  <2>4. BootSound'
    BY <2>1 DEF IInv, BootSound, Idle
  <2>5. AddressSound'
    BY <2>1 DEF IInv, AddressSound
  <2>6. QED
    BY <2>2, <2>3, <2>4, <2>5 DEF IInv
<1>6. QED
  BY <1>1, <1>2, <1>3, <1>4, <1>5 DEF Next, Foreground

\* The invariant holds of every reachable state.
THEOREM Invariance == Spec => []IInv
<1>1. IInv /\ [Next]_vars => IInv'
  BY NextInv
<1>2. QED
  BY InitInv, <1>1, PTL DEF Spec

\* Type correctness: the retries never go below zero, the page counter never
\* leaves the image and the check sum never takes in more pages than there are.
THEOREM TypeCorrect == Spec => []TypeOK
<1>1. IInv => TypeOK
  BY DEF IInv
<1>2. QED
  BY Invariance, <1>1, PTL

\* With the saves run and no error in the last access, the EEPROM holds the
\* live image and its check sum, and the link address last written is in force,
\* however writes, saves and power cuts were interleaved (datum_save,
\* package_event_handler).
THEOREM SavesCatchUp == Spec => []CaughtUp
<1>1. IInv => SavedWhenQuiet
  BY DEF IInv, SaveSound, SavedWhenQuiet, Quiet
<1>2. IInv => AddressApplied
  BY DEF IInv, TypeOK, AddressSound, AddressApplied, Quiet, Idle
<1>3. IInv => CaughtUp
  BY <1>1, <1>2 DEF CaughtUp
<1>4. QED
  BY Invariance, <1>3, PTL

\* A boot reported as good runs on the content the check sum in the EEPROM
\* was computed from: no defaults, no torn save, no half-read page in it.
THEOREM BootsWhole == Spec => BootWhole
<1>1. IInv /\ [Next]_vars => [pc = "verify" /\ pc' = "run" /\ m_status' = "OK" => para' = e_chksum]_vars
  <2> SUFFICES ASSUME IInv, Next, pc = "verify", pc' = "run", m_status' = "OK"
               PROVE  para' = e_chksum
    OBVIOUS
  <2>1. Accept \/ FallBack
    BY DEF Next, Foreground, Boot, Save, LoadPage, LoadFails, RewritePage, RewriteFails,
           SaveBegin, SumPage, SumDone, SavePage, SaveFails, WriteRegs, PowerCut, PowerUp
  <2>2. CASE Accept
    <3>1. recover /\ chksum = para /\ para' = para
      BY <2>2 DEF Accept, Verified, image
    <3>2. chksum # Corrupt
      BY <3>1, PageFacts DEF IInv, TypeOK
    <3>3. QED
      BY <3>1, <3>2 DEF IInv, BootSound
  <2>3. CASE FallBack
    BY <2>3 DEF FallBack, Abandon
  <2>4. QED
    BY <2>1, <2>2, <2>3
<1>2. QED
  BY Invariance, <1>1, PTL DEF Spec, BootWhole

--------------------------------------------------------------------------------
(* The registers and the transfers, in the composition.                    *)

(* The inductive invariants of the parts.  The registers are in their      *)
(* initial state in the other parts, so theirs needs no condition.         *)
StorageInv ==
    /\ MB!IInv
    /\ part = "transfer" => T!IInv
    /\ part = "late" => L!IInv

--------------------------------------------------------------------------------
(* The parts one at a time.                                                *)

LEMMA TransferSame == ASSUME UNCHANGED transfervars PROVE UNCHANGED T!vars
BY DEF transfervars, T!vars, T!eeprom

LEMMA LateSame == ASSUME UNCHANGED transfervars PROVE UNCHANGED L!vars
BY DEF transfervars, L!vars, L!eeprom

LEMMA TransferStep ==
    ASSUME [MCNext]_mcvars, part = "transfer" PROVE [T!Next]_T!vars /\ part' = "transfer"
<1>1. CASE MCNext
  BY <1>1 DEF MCNext
<1>2. CASE UNCHANGED mcvars
  BY <1>2, TransferSame DEF mcvars
<1>3. QED
  BY <1>1, <1>2

LEMMA LateStep ==
    ASSUME [MCNext]_mcvars, part = "late" PROVE [L!Next]_L!vars /\ part' = "late"
<1>1. CASE MCNext
  BY <1>1 DEF MCNext
<1>2. CASE UNCHANGED mcvars
  BY <1>2, LateSame DEF mcvars
<1>3. QED
  BY <1>1, <1>2

LEMMA RegisterStep == ASSUME [MCNext]_mcvars PROVE [MB!Next]_MB!vars
<1>1. UNCHANGED registervars => UNCHANGED MB!vars
  BY DEF registervars, MB!vars
<1>2. CASE MCNext
  BY <1>1, <1>2 DEF MCNext
<1>3. CASE UNCHANGED mcvars
  BY <1>1, <1>3 DEF mcvars
<1>4. QED
  BY <1>2, <1>3

LEMMA SamePart == ASSUME [MCNext]_mcvars PROVE part' = part
BY DEF MCNext, mcvars

--------------------------------------------------------------------------------
(* StorageInv is inductive.                                                *)

LEMMA StorageInit == ASSUME StorageAssumption, MCInit PROVE StorageInv
<1>1. MB!IInv
  BY MB!InitInv DEF MCInit, StorageAssumption
<1>2. ASSUME part = "transfer" PROVE T!IInv
  BY <1>2, T!InitIInv DEF MCInit, StorageAssumption
<1>3. ASSUME part = "late" PROVE L!IInv
  BY <1>3, L!InitIInv DEF MCInit, StorageAssumption
<1>4. QED
  BY <1>1, <1>2, <1>3 DEF StorageInv

LEMMA StorageNext ==
    ASSUME StorageAssumption, StorageInv, [MCNext]_mcvars PROVE StorageInv'
<1>1. MB!IInv'
  BY RegisterStep, MB!NextStep, MB!Stutter DEF StorageInv, StorageAssumption
<1>2. ASSUME part' = "transfer" PROVE T!IInv'
  BY <1>2, SamePart, TransferStep, T!NextInv DEF StorageInv, StorageAssumption
<1>3. ASSUME part' = "late" PROVE L!IInv'
  BY <1>3, SamePart, LateStep, L!NextInv DEF StorageInv, StorageAssumption
<1>4. QED
  BY <1>1, <1>2, <1>3 DEF StorageInv

THEOREM Composed == ASSUME StorageAssumption PROVE MCSpec => []StorageInv
<1>1. MCInit => StorageInv
  BY StorageInit
<1>2. StorageInv /\ [MCNext]_mcvars => StorageInv'
  BY StorageNext
<1>3. QED
  BY <1>1, <1>2, PTL DEF MCSpec

--------------------------------------------------------------------------------
(* The theorems.                                                           *)

(* Whatever requests come, the registers keep to their widths and to the   *)
(* ranges of t_hold_reg_0_6 (datum.cpp:162), for every radix of a byte and *)
(* every map of registers.                                                 *)
THEOREM RangesHold == ASSUME StorageAssumption PROVE MCSpec => []RangesSound
<1>1. StorageInv => RangesSound
  BY DEF StorageInv, RangesSound, MB!IInv
<1>2. QED
  BY <1>1, Composed, PTL

(* modbus_reply implements RegisterBank: bytes, shorts and halves of longs *)
(* are one array to a master.                                              *)
THEOREM RegistersAreBank == ASSUME StorageAssumption PROVE MCSpec => BankSpec
<1>1. MCInit => MB!Bank!Init
  BY MB!BankInit DEF MCInit, StorageAssumption
<1>2. StorageInv /\ [MCNext]_mcvars =>
        [MB!Bank!Next]_<<[r \in MB!Hold |-> MB!hold_reg_get(m_para, r)], reply>>
  BY RegisterStep, MB!NextStep DEF StorageInv, StorageAssumption, MB!vars
<1>3. QED
  BY <1>1, <1>2, Composed, PTL DEF MCSpec, BankSpec, MB!BankSpec, MB!Bank!Spec

(* What a request has changed is queued to be saved, also if a later value *)
(* of the same request was refused (modbus.cpp:219).                       *)
THEOREM ChangesSaved == ASSUME StorageAssumption PROVE MCSpec => ChangesAreSaved
<1>1. StorageInv /\ [MCNext]_mcvars => [m_para' # m_para => MB!Saves]_MB!vars
  BY RegisterStep, MB!NextStep DEF StorageInv, StorageAssumption
<1>2. QED
  BY <1>1, Composed, PTL DEF MCSpec, ChangesAreSaved, MB!ChangesAreSaved, MB!Saves

(* A transfer reported as done was done, whatever was not acknowledged or  *)
(* timed out before it; the EEPROM changes by front parts of what is being *)
(* written only; a missing acknowledge is reported (cpu_iic.cpp:147).  On  *)
(* a controller with late stops, until one has come and again after the    *)
(* next timeout.                                                           *)
THEOREM TransfersSound == ASSUME StorageAssumption PROVE MCSpec => TransferSound
<1>1. ASSUME StorageAssumption, StorageInv, [MCNext]_mcvars, part = "late"
      PROVE  L!TypeOK' /\ L!Done /\ L!Front /\ L!NackFails
  <2>1. L!I2cAssumption /\ L!IInv /\ [L!Next]_L!vars
    BY <1>1, LateStep DEF StorageInv, StorageAssumption
  <2>2. L!TypeOK'
    BY <1>1, LateStep, StorageNext DEF StorageInv, L!IInv
  <2>3. QED
    BY <2>1, <2>2, L!DoneStep, L!FrontStep, L!NackStep
<1>2. ASSUME StorageAssumption, StorageInv, [MCNext]_mcvars, part = "transfer"
      PROVE  T!TypeOK' /\ T!Done /\ T!Front /\ T!NackFails
  <2>1. T!I2cAssumption /\ T!IInv /\ [T!Next]_T!vars
    BY <1>2, TransferStep DEF StorageInv, StorageAssumption
  <2>2. T!TypeOK'
    BY <1>2, TransferStep, StorageNext DEF StorageInv, T!IInv
  <2>3. QED
    BY <2>1, <2>2, T!DoneStep, T!FrontStep, T!NackStep
<1>3. QED
  BY <1>1, <1>2, Composed, PTL DEF MCSpec, TransferSound
================================================================================
