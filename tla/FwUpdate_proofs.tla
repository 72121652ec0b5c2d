-------------------------- MODULE FwUpdate_proofs --------------------------
(***************************************************************************)
(* Proofs about the firmware update, for every geometry of the flash whose *)
(* image area starts at a block, every payload and every number of power   *)
(* cuts.                                                                   *)
(***************************************************************************)
EXTENDS FwUpdate, TLAPS

-----------------------------------------------------------------------------
(* Division                                                                *)

LEMMA DivMod ==
  ASSUME NEW B \in Nat \ {0}, NEW n \in Nat
  PROVE  n \div B \in Nat /\ n % B \in 0..B - 1 /\ n = B * (n \div B) + (n % B)
  OBVIOUS

LEMMA DivUnique ==
  ASSUME NEW B \in Nat \ {0}, NEW q \in Nat, NEW r \in 0..B - 1
  PROVE  (B * q + r) \div B = q /\ (B * q + r) % B = r
  OBVIOUS

\* Adding whole blocks does not change the place in the block.
LEMMA ModShift ==
  ASSUME NEW B \in Nat \ {0}, NEW b \in Nat, b % B = 0, NEW n \in Nat
  PROVE  (b + n) % B = n % B
<1>1. PICK k \in Nat : b = B * k
  <2>1. b \div B \in Nat /\ b = B * (b \div B) + (b % B)  BY DivMod
  <2> QED BY <2>1
<1>2. PICK q \in Nat, r \in 0..B - 1 : n = B * q + r /\ n % B = r  BY DivMod
<1>3. b + n = B * (k + q) + r  BY <1>1, <1>2
<1>4. (B * (k + q) + r) % B = r  BY DivUnique
<1> QED BY <1>2, <1>3, <1>4

\* The pages before the first page of a block lie in other blocks.
LEMMA FirstOfBlock ==
  ASSUME NEW n \in Nat, n % BlockPages = 0, NEW p \in 0..n - 1
  PROVE  Block(BasePage + p) # Block(BasePage + n)
<1> USE FlashAssumption DEF FlashAssumption
<1> DEFINE a == BasePage + n
           c == BasePage + p
<1>1. a % BlockPages = 0  BY ModShift
<1>2. a \in Nat /\ c \in Nat /\ c < a  OBVIOUS
<1> HIDE DEF a, c
<1>3. a = BlockPages * (a \div BlockPages)
  <2>1. a = BlockPages * (a \div BlockPages) + (a % BlockPages)  BY <1>2, DivMod
  <2> QED BY <1>1, <1>2, <2>1, DivMod
<1>4. c = BlockPages * (c \div BlockPages) + (c % BlockPages) /\ c % BlockPages \in Nat
  BY <1>2, DivMod
<1>5. c \div BlockPages # a \div BlockPages  BY <1>2, <1>3, <1>4
<1> QED BY <1>5 DEF Block, a, c

\* Any other page lies in the block of its predecessor.
LEMMA WithinBlock ==
  ASSUME NEW n \in Nat, n % BlockPages # 0
  PROVE  n > 0 /\ Block(BasePage + n - 1) = Block(BasePage + n)
<1> USE FlashAssumption DEF FlashAssumption
<1>1. n > 0  OBVIOUS
<1> DEFINE a == BasePage + n
<1>2. a % BlockPages # 0  BY ModShift
<1>3. a \in Nat \ {0}  BY <1>1
<1> HIDE DEF a
<1>4. (a - 1) \div BlockPages = a \div BlockPages  BY <1>2, <1>3
<1> QED BY <1>1, <1>4 DEF Block, a

-----------------------------------------------------------------------------
(* Chunks                                                                  *)

\* The length of a payload.
LEMMA LengthRange ==
  ASSUME NEW byte \in Offsets
  PROVE  Length(byte) \in 1..PageBytes
  BY FlashAssumption DEF FlashAssumption, Length, Offsets, PageBytes

\* A payload of L bytes is programmed from its first byte to its last without
\* gap or overlap, in one chunk or in two, and no chunk is longer than half a
\* page, the limit flash_fp.c states for Flash_write_one_channel_User.
THEOREM ChunksCoverPayload ==
  ASSUME NEW L \in 1..PageBytes
  PROVE  /\ Chunk(L, 0) \in 1..Half
         /\ L <= Half => Chunk(L, 0) = L
         /\ L > Half => /\ Chunk(L, 0) = Half
                        /\ Chunk(L, Half) \in 1..Half
                        /\ Half + Chunk(L, Half) = L
<1> USE FlashAssumption DEF FlashAssumption
<1>1. L \in 1..2 * Half  BY DEF PageBytes
<1>2. CASE L <= Half
  BY <1>1, <1>2 DEF Chunk
<1>3. CASE L > Half
  <2>1. Chunk(L, 0) = Half  BY <1>3 DEF Chunk
  <2>2. Chunk(L, Half) = L - Half
    <3>1. CASE L = 2 * Half  BY <1>3, <3>1 DEF Chunk, PageBytes
    <3>2. CASE L # 2 * Half
      <4>1. L - Half \in 0..Half - 1  BY <1>1, <1>3, <3>2
      <4>2. (Half * 1 + (L - Half)) % Half = L - Half  BY <4>1, DivUnique
      <4>3. Half * 1 + (L - Half) = L  BY <1>1
      <4> QED BY <4>2, <4>3, <1>3, <3>2 DEF Chunk, PageBytes
    <3> QED BY <3>1, <3>2
  <2> QED BY <1>1, <1>3, <2>1, <2>2
<1> QED BY <1>1, <1>2, <1>3

-----------------------------------------------------------------------------
(* The invariant                                                           *)

Inv == TypeOK /\ FlashInv

\* Pages of the image area are pages of the flash.
LEMMA ImageInFlash == \A p \in ImageRange : BasePage + p \in FlashPages /\ p \in Nat
  BY FlashAssumption DEF FlashAssumption, ImageRange, FlashPages

LEMMA InitTypes == NoCommand \in [page : ImageRange, length : Offsets, data : Payloads \cup {Erased}]
                    /\ 0 \in 0..PageBytes
  BY FlashAssumption DEF FlashAssumption, NoCommand, ImageRange, Offsets, PageBytes

LEMMA InitInv == Init => Inv
<1> USE FlashAssumption DEF FlashAssumption
<1> SUFFICES ASSUME Init PROVE Inv
  OBVIOUS
<1>1. TypeOK
  <2>1. flash \in [FlashPages -> [Offsets -> Bytes]]  BY DEF Init, Bytes
  <2>2. cmd \in [page : ImageRange, length : Offsets, data : Payloads \cup {Erased}]
    BY DEF Init, NoCommand, ImageRange, Offsets, PageBytes
  <2>3. written \in 0..PageBytes  BY DEF Init, PageBytes
  <2> QED BY <2>1, <2>2, <2>3 DEF Init, TypeOK, Steps
<1>2. CountInv /\ FreshInv /\ PageInv /\ AckedInv /\ AckedPagesPresent
  BY DEF Init, CountInv, FreshInv, PageInv, AckedInv, AckedPagesPresent
<1> QED BY <1>1, <1>2 DEF Inv, FlashInv

\* An accepted page is the one page_old expects, and a page that is not the
\* first of its block finds its block erased.
LEMMA ReceiveInv == Inv /\ Receive => Inv'
<1> USE FlashAssumption DEF FlashAssumption
<1> SUFFICES ASSUME TypeOK, CountInv, FreshInv, PageInv, AckedInv, AckedPagesPresent, Receive
             PROVE  Inv'
  BY DEF Inv, FlashInv
<1>1. PICK page \in ImageRange, length \in Offsets, data \in Payloads :
        LET expected == IF page = 0 THEN 0 ELSE page_old
        IN  /\ cmd' = [page |-> page, length |-> length, data |-> data]
            /\ acked' = IF page = 0 THEN <<>> ELSE acked
            /\ IF page # expected
                 THEN retval' = 1 /\ pc' = "reply" /\ page_old' = page_old
                 ELSE /\ page_old' = expected + 1
                      /\ retval' = 0
                      /\ pc' = IF page % BlockPages = 0 THEN "erase" ELSE "write"
  BY DEF Receive
<1>2. page \in Nat /\ page + 1 \in 0..ImagePages  BY DEF ImageRange
<1>3. cmd'.page = page /\ cmd'.length = length /\ cmd'.data = data  BY <1>1
<1>4. flash' = flash /\ written' = 0 /\ crashes' = crashes
  BY DEF Receive, CountInv
<1>5. DOMAIN acked' \subseteq DOMAIN acked  BY <1>1
<1>6. \A p \in DOMAIN acked' : acked'[p] = acked[p]  BY <1>1
<1>7. TypeOK'
  <2>1. cmd' \in [page : ImageRange, length : Offsets, data : Payloads \cup {Erased}]
    BY <1>1
  <2>2. page_old' \in 0..ImagePages  BY <1>1, <1>2 DEF TypeOK
  <2>3. DOMAIN acked' \subseteq ImageRange  BY <1>5 DEF TypeOK
  <2>4. retval' \in {0, 1} /\ pc' \in Steps /\ written' \in 0..PageBytes
    BY <1>1, <1>4 DEF Steps, PageBytes
  <2> QED BY <1>4, <2>1, <2>2, <2>3, <2>4 DEF TypeOK
<1>8. AckedPagesPresent'  BY <1>4, <1>5, <1>6 DEF AckedPagesPresent
<1>9. CASE retval' = 1
  <2>1. pc' = "reply" /\ page_old' = page_old /\ page # 0  BY <1>1, <1>9
  <2>2. CountInv'  BY <1>3, <1>9, <2>1 DEF CountInv
  <2>3. FreshInv'  BY <1>4, <2>1 DEF FreshInv, Receive
  <2>4. PageInv'  BY <1>9, <2>1 DEF PageInv
  <2>5. AckedInv'  BY <1>1, <2>1 DEF AckedInv
  <2> QED BY <1>7, <1>8, <2>2, <2>3, <2>4, <2>5 DEF Inv, FlashInv
<1>10. CASE retval' = 0
  <2>1. page_old' = page + 1 /\ (page # 0 => page_old = page)  BY <1>1, <1>10
  <2>2. pc' = IF page % BlockPages = 0 THEN "erase" ELSE "write"  BY <1>1, <1>10
  <2>3. CountInv'  BY <1>3, <1>4, <1>10, <2>1, <2>2 DEF CountInv
  <2>4. ASSUME page % BlockPages # 0
        PROVE  \A p \in ImageRange : p >= page /\ Block(BasePage + p) = Block(BasePage + page)
                                       => flash[BasePage + p] = Blank
    <3>1. page > 0 /\ Block(BasePage + page - 1) = Block(BasePage + page)
      BY <1>2, <2>4, WithinBlock
    <3> QED BY <1>2, <2>1, <3>1 DEF FreshInv, Receive
  <2>5. FreshInv'
    <3> SUFFICES ASSUME page % BlockPages # 0, NEW p \in ImageRange, p >= page + 1,
                        Block(BasePage + p) = Block(BasePage + (page + 1) - 1)
                 PROVE  flash[BasePage + p] = Blank
      BY <1>4, <2>1, <2>2 DEF FreshInv
    <3>1. BasePage + (page + 1) - 1 = BasePage + page  BY <1>2
    <3>2. p >= page  BY <1>2 DEF ImageRange
    <3> QED BY <2>4, <3>1, <3>2
  <2>6. PageInv'
    <3> SUFFICES ASSUME page % BlockPages # 0
                 PROVE  flash[BasePage + page] = [i \in Offsets |-> IF i < 0 THEN data ELSE Erased]
      BY <1>3, <1>4, <2>2 DEF PageInv
    <3>1. flash[BasePage + page] = Blank  BY <1>2, <2>4
    <3>2. \A i \in Offsets : ~(i < 0)  BY DEF Offsets
    <3> QED BY <3>1, <3>2 DEF Blank
  <2>7. AckedInv'
    <3>1. page # 0 => DOMAIN acked \subseteq 0..page - 1  BY <1>2, <2>1 DEF AckedInv
    <3>2. DOMAIN acked' \subseteq 0..page - 1  BY <1>1, <3>1
    <3> QED BY <1>2, <1>3, <2>1, <3>2 DEF AckedInv
  <2> QED BY <1>7, <1>8, <2>3, <2>5, <2>6, <2>7 DEF Inv, FlashInv
<1> QED BY <1>1, <1>9, <1>10

\* The block that is erased holds no acknowledged page.
LEMMA EraseInv == Inv /\ Erase => Inv'
<1> USE FlashAssumption DEF FlashAssumption
<1> SUFFICES ASSUME TypeOK, CountInv, FreshInv, PageInv, AckedInv, AckedPagesPresent, Erase
             PROVE  Inv'
  BY DEF Inv, FlashInv
<1> DEFINE n == cmd.page
<1>1. n \in ImageRange /\ n \in Nat /\ page_old = n + 1 /\ written = 0 /\ retval = 0
  BY DEF Erase, CountInv, TypeOK, ImageRange
<1>2. \A p \in FlashPages : flash'[p] = IF Block(p) = Block(BasePage + n) THEN Blank ELSE flash[p]
  BY DEF Erase, Blank
<1>3. TypeOK'
  <2>1. flash' \in [FlashPages -> [Offsets -> Bytes]]  BY DEF Erase, TypeOK, Bytes
  <2> QED BY <2>1 DEF Erase, TypeOK, Steps
<1>4. CountInv'  BY DEF Erase, CountInv
<1>5. FreshInv'
  <2> SUFFICES ASSUME NEW p \in ImageRange, Block(BasePage + p) = Block(BasePage + page_old - 1)
               PROVE  flash'[BasePage + p] = Blank
    BY DEF FreshInv, Erase
  <2>1. BasePage + page_old - 1 = BasePage + n  BY <1>1
  <2> QED BY <1>2, <2>1, ImageInFlash
<1>6. PageInv'
  <2>1. flash'[BasePage + n] = Blank  BY <1>1, <1>2, ImageInFlash
  <2>2. Blank = [i \in Offsets |-> IF i < 0 THEN cmd.data ELSE Erased]
    BY DEF Blank, Offsets
  <2> QED BY <1>1, <2>1, <2>2 DEF PageInv, Erase
<1>7. AckedInv'  BY DEF AckedInv, Erase
<1>8. AckedPagesPresent'
  <2> SUFFICES ASSUME NEW p \in DOMAIN acked PROVE flash'[BasePage + p] = acked[p]
    BY DEF AckedPagesPresent, Erase
  <2>1. p \in 0..n - 1 /\ p \in ImageRange  BY DEF AckedInv, Erase, TypeOK
  <2>2. Block(BasePage + p) # Block(BasePage + n)
    BY <1>1, <2>1, FirstOfBlock DEF CountInv, Erase
  <2> QED BY <1>2, <2>1, <2>2, ImageInFlash DEF AckedPagesPresent
<1> QED BY <1>3, <1>4, <1>5, <1>6, <1>7, <1>8 DEF Inv, FlashInv

\* A chunk is programmed right after what was programmed of the page before.
LEMMA WriteInv == Inv /\ Write => Inv'
<1> USE FlashAssumption DEF FlashAssumption
<1> SUFFICES ASSUME TypeOK, CountInv, FreshInv, PageInv, AckedInv, AckedPagesPresent, Write
             PROVE  Inv'
  BY DEF Inv, FlashInv
<1> DEFINE n == cmd.page
           L == Length(cmd.length)
           k == Chunk(L, written)
<1>1. n \in ImageRange /\ n \in Nat /\ page_old = n + 1 /\ retval = 0 /\ cmd.data \in Payloads
  BY DEF Write, CountInv, TypeOK, ImageRange
<1>2. /\ L \in 1..PageBytes /\ written \in Nat /\ k \in 1..Half
      /\ written + k <= L
      /\ L > Half /\ written = 0 => written + k = Half
      /\ ~(L > Half /\ written = 0) => written + k = L
  <2>1. L \in 1..PageBytes  BY LengthRange DEF TypeOK
  <2>2. written = 0 \/ (written = Half /\ L > Half)  BY DEF CountInv, Write
  <2> HIDE DEF L
  <2>3. L \in Int  BY <2>1 DEF PageBytes
  <2> QED BY <2>1, <2>2, <2>3, ChunksCoverPayload
<1>3. BasePage + n \in FlashPages  BY <1>1, ImageInFlash
<1>4. \A p \in FlashPages : p # BasePage + n => flash'[p] = flash[p]
  BY DEF Write, TypeOK
<1>5. flash'[BasePage + n] = [i \in Offsets |-> IF i < written + k THEN cmd.data ELSE Erased]
  <2>1. flash[BasePage + n] = [i \in Offsets |-> IF i < written THEN cmd.data ELSE Erased]
    BY DEF PageInv, Write
  <2>2. flash'[BasePage + n] =
          [i \in Offsets |->
             IF i \notin written .. written + k - 1 THEN flash[BasePage + n][i]
             ELSE IF flash[BasePage + n][i] = Erased THEN cmd.data ELSE Corrupt]
    BY <1>3 DEF Write, TypeOK, Programmed
  <2>3. \A i \in Offsets : i \in Nat  BY DEF Offsets
  <2> HIDE DEF k, n
  <2>4. \A i \in Offsets : flash[BasePage + n][i] = IF i < written THEN cmd.data ELSE Erased
    BY <2>1
  <2>5. \A i \in Offsets : i \notin written .. written + k - 1 <=> i < written \/ i >= written + k
    BY <1>2, <2>3
  <2>6. \A i \in Offsets : i >= written + k => ~(i < written)
    BY <1>2, <2>3
  <2>7. ASSUME NEW i \in Offsets
        PROVE  (IF i \notin written .. written + k - 1 THEN flash[BasePage + n][i]
                ELSE IF flash[BasePage + n][i] = Erased THEN cmd.data ELSE Corrupt)
               = (IF i < written + k THEN cmd.data ELSE Erased)
    <3>1. CASE i < written
      <4>1. i < written + k  BY <1>2, <2>3, <3>1
      <4> QED BY <2>4, <2>5, <3>1, <4>1
    <3>2. CASE i >= written + k
      <4>1. ~(i < written + k) /\ ~(i < written)  BY <1>2, <2>3, <3>2
      <4> QED BY <2>4, <2>5, <3>2, <4>1
    <3>3. CASE ~(i < written) /\ ~(i >= written + k)
      <4>1. i < written + k  BY <1>2, <2>3, <3>3
      <4> QED BY <2>4, <2>5, <3>3, <4>1
    <3> QED BY <3>1, <3>2, <3>3
  <2> QED BY <2>2, <2>7
<1>6. TypeOK'
  <2>1. flash' \in [FlashPages -> [Offsets -> Bytes]]
    BY <1>1 DEF Write, TypeOK, Bytes
  <2>2. written' \in 0..PageBytes
    <3>1. written' = written + k  BY DEF Write
    <3> HIDE DEF k, L
    <3> QED BY <1>2, <3>1 DEF PageBytes
  <2> QED BY <2>1, <2>2 DEF Write, TypeOK, Steps
<1>7. CountInv'
  <2>1. pc' = "write" => written' = Half /\ L > Half
    <3> SUFFICES ASSUME L > Half, written = 0 PROVE written + k = Half
      BY DEF Write
    <3> QED BY <1>2
  <2> QED BY <1>1, <2>1 DEF CountInv, Write
<1>8. FreshInv'
  <2> SUFFICES ASSUME NEW p \in ImageRange, p >= page_old,
                      Block(BasePage + p) = Block(BasePage + page_old - 1)
               PROVE  flash'[BasePage + p] = Blank
    BY DEF FreshInv, Write
  <2>1. flash[BasePage + p] = Blank  BY <1>1 DEF FreshInv, Write
  <2>2. BasePage + p # BasePage + n  BY <1>1 DEF ImageRange
  <2> QED BY <1>4, <2>1, <2>2, ImageInFlash
<1>9. PageInv'
  <2>1. CASE pc' = "write"
    <3>1. written' = written + k /\ cmd' = cmd  BY DEF Write
    <3> QED BY <1>5, <2>1, <3>1 DEF PageInv
  <2>2. CASE pc' = "reply"
    <3>1. written + k = L  BY <1>2, <2>2 DEF Write
    <3>2. flash'[BasePage + n] = Content(cmd)  BY <1>5, <3>1 DEF Content
    <3>3. cmd' = cmd  BY DEF Write
    <3> QED BY <2>2, <3>2, <3>3 DEF PageInv, Content
  <2> QED BY <2>1, <2>2 DEF Write
<1>10. AckedInv'  BY DEF AckedInv, Write
<1>11. AckedPagesPresent'
  <2> SUFFICES ASSUME NEW p \in DOMAIN acked PROVE flash'[BasePage + p] = acked[p]
    BY DEF AckedPagesPresent, Write
  <2>1. p \in 0..n - 1 /\ p \in ImageRange  BY DEF AckedInv, Write, TypeOK
  <2>2. BasePage + p # BasePage + n  BY <1>1, <2>1
  <2> QED BY <1>4, <2>1, <2>2, ImageInFlash DEF AckedPagesPresent
<1> QED BY <1>6, <1>7, <1>8, <1>9, <1>10, <1>11 DEF Inv, FlashInv

\* The page acknowledged is the one just written.
LEMMA ReplyInv == Inv /\ Reply => Inv'
<1> USE FlashAssumption DEF FlashAssumption
<1> SUFFICES ASSUME TypeOK, CountInv, FreshInv, PageInv, AckedInv, AckedPagesPresent, Reply
             PROVE  Inv'
  BY DEF Inv, FlashInv
<1>1. /\ flash' = flash /\ page_old' = page_old /\ crashes' = crashes
      /\ cmd' = NoCommand /\ written' = 0 /\ retval' = 0 /\ pc' = "idle"
  BY DEF Reply, Return
<1>2. CountInv' /\ FreshInv' /\ PageInv'
  BY <1>1 DEF CountInv, FreshInv, PageInv, Reply
<1>3. CASE acked' = acked
  <2>1. TypeOK'  BY <1>1, <1>3, InitTypes DEF TypeOK, Steps
  <2>2. AckedInv' /\ AckedPagesPresent'  BY <1>1, <1>3 DEF AckedInv, AckedPagesPresent
  <2> QED BY <1>2, <2>1, <2>2 DEF Inv, FlashInv
<1>4. CASE retval = 0 /\ acked' = [p \in DOMAIN acked \cup {cmd.page} |->
                                    IF p = cmd.page THEN Content(cmd) ELSE acked[p]]
  <2>1. cmd.page \in ImageRange /\ page_old = cmd.page + 1 /\ cmd.page \in Nat
    BY <1>4 DEF CountInv, Reply, TypeOK, ImageRange
  <2>2. TypeOK'  BY <1>1, <1>4, <2>1, InitTypes DEF TypeOK, Steps
  <2>3. AckedInv'  BY <1>1, <1>4, <2>1 DEF AckedInv
  <2>4. flash[BasePage + cmd.page] = Content(cmd)  BY <1>4 DEF PageInv, Reply
  <2>5. AckedPagesPresent'  BY <1>1, <1>4, <2>4 DEF AckedPagesPresent
  <2> QED BY <1>2, <2>2, <2>3, <2>5 DEF Inv, FlashInv
<1> QED BY <1>3, <1>4 DEF Reply

\* What a power cut spoils has not been acknowledged.
LEMMA CrashInv == Inv /\ Crash => Inv'
<1> USE FlashAssumption DEF FlashAssumption
<1> SUFFICES ASSUME TypeOK, CountInv, FreshInv, PageInv, AckedInv, AckedPagesPresent, Crash
             PROVE  Inv'
  BY DEF Inv, FlashInv
<1>1. /\ page_old' = 0 /\ acked' = acked /\ crashes' \in 0..MaxCrashes
      /\ cmd' = NoCommand /\ written' = 0 /\ retval' = 0 /\ pc' = "idle"
  BY DEF Crash, Return, TypeOK
<1>2. CountInv' /\ FreshInv' /\ PageInv' /\ AckedInv'
  BY <1>1 DEF CountInv, FreshInv, PageInv, AckedInv
<1>3. flash' \in [FlashPages -> [Offsets -> Bytes]]
  BY DEF Crash, TypeOK, Bytes
<1>4. TypeOK'
  <2>1. page_old' \in 0..ImagePages  BY <1>1
  <2> QED BY <1>1, <1>3, <2>1, InitTypes DEF TypeOK, Steps
<1>5. ASSUME NEW p \in DOMAIN acked PROVE flash'[BasePage + p] = flash[BasePage + p]
  <2>1. BasePage + p \in FlashPages /\ p \in ImageRange  BY ImageInFlash DEF TypeOK
  <2>2. CASE UNCHANGED flash  BY <2>2
  <2>3. CASE pc = "erase" /\ flash' = [q \in FlashPages |->
                         IF Block(q) = Block(BasePage + cmd.page)
                           THEN [i \in Offsets |-> Corrupt] ELSE flash[q]]
    <3>1. p \in 0..cmd.page - 1 /\ cmd.page \in Nat  BY <2>3 DEF AckedInv, TypeOK, ImageRange
    <3>2. Block(BasePage + p) # Block(BasePage + cmd.page)
      BY <2>3, <3>1, FirstOfBlock DEF CountInv
    <3> QED BY <2>1, <2>3, <3>2
  <2>4. CASE pc = "write" /\ flash' = [flash EXCEPT ![BasePage + cmd.page] =
                         [i \in Offsets |-> IF i \in Programmed THEN Corrupt ELSE @[i]]]
    <3>1. p \in 0..cmd.page - 1 /\ cmd.page \in Nat  BY <2>4 DEF AckedInv, TypeOK, ImageRange
    <3>2. BasePage + p # BasePage + cmd.page  BY <3>1
    <3> QED BY <2>1, <2>4, <3>2 DEF TypeOK
  <2> QED BY <2>2, <2>3, <2>4 DEF Crash
<1>6. AckedPagesPresent'  BY <1>1, <1>5 DEF AckedPagesPresent
<1> QED BY <1>2, <1>4, <1>6 DEF Inv, FlashInv

LEMMA FlashInductive == Inv /\ [Next]_vars => Inv'
<1>1. Inv /\ UNCHANGED vars => Inv'
  BY DEF Inv, FlashInv, TypeOK, CountInv, FreshInv, PageInv, AckedInv, AckedPagesPresent,
         Content, vars
<1> QED BY <1>1, ReceiveInv, EraseInv, WriteInv, ReplyInv, CrashInv DEF Next

LEMMA FlashCorrect == Spec => []Inv
  BY InitInv, FlashInductive, PTL DEF Spec

-----------------------------------------------------------------------------
(* The results                                                             *)

\* Every variable keeps its type.
THEOREM TypeCorrect == Spec => []TypeOK
<1>1. Inv => TypeOK  BY DEF Inv
<1> QED BY <1>1, FlashCorrect, PTL

\* A page the host was told is written stays in the flash as it was sent until
\* the host starts over with page 0.
THEOREM AckedPagesStay == Spec => []AckedPagesPresent
<1>1. Inv => AckedPagesPresent  BY DEF Inv, FlashInv
<1> QED BY <1>1, FlashCorrect, PTL

\* No byte is programmed before its block has been erased.
THEOREM NoOverprogramming == Spec => NeverOverprogrammed
<1> DEFINE Step ==
      \A p \in FlashPages, i \in Offsets :
         flash'[p][i] # flash[p][i] /\ flash[p][i] # Erased
           => pc = "erase" \/ pc' = "idle"
<1>1. Inv /\ [Next]_vars => [Step]_vars
  <2> USE FlashAssumption DEF FlashAssumption
  <2> SUFFICES ASSUME TypeOK, CountInv, PageInv, Next,
                      NEW p \in FlashPages, NEW i \in Offsets,
                      flash'[p][i] # flash[p][i], flash[p][i] # Erased,
                      pc # "erase", pc' # "idle"
               PROVE  FALSE
    BY DEF Inv, FlashInv
  <2>1. Write  BY DEF Next, Receive, Erase, Reply, Crash, Return
  <2>2. p = BasePage + cmd.page /\ i \in Programmed  BY <2>1 DEF Write, TypeOK
  <2>3. flash[p] = [j \in Offsets |-> IF j < written THEN cmd.data ELSE Erased]
    BY <2>1, <2>2 DEF PageInv, Write
  <2>4. i < written  BY <2>3
  <2> QED BY <2>2, <2>4 DEF Programmed, TypeOK, Offsets
<1> QED BY <1>1, FlashCorrect, PTL DEF Spec, NeverOverprogrammed
=============================================================================
