----------------------------- MODULE FwUpdate -----------------------------
(***************************************************************************)
(* Firmware update over USB: FWupdate_Parsing (usb_ata.c) and the flash    *)
(* driver it calls (flash_fp.c).                                           *)
(*                                                                         *)
(* Command type 8 carries a page number, a length byte (0 stands for a     *)
(* full page) and the page's data.  FWupdate_Parsing takes pages in order, *)
(* counting them in the static variable page_old; page 0 starts again.  It *)
(* erases a flash block when it meets its first page and programs the page *)
(* in chunks of at most half a page.  The flash outlives a power cut,      *)
(* page_old does not.  The image starts at page BasePage of the flash;     *)
(* images that run past its end are not modelled.                          *)
(*                                                                         *)
(* The host is arbitrary: any page, length and payload at any time, and an *)
(* answer may fail to reach it.                                            *)
(***************************************************************************)
EXTENDS Integers, Sequences, FiniteSets

CONSTANTS
    Half,        \* bytes the flash programs at once: 128
    BlockPages,  \* pages of an erase block: 256
    BasePage,    \* first page of the image area: 0x30000 / 256
    ImagePages,  \* pages of the image area
    Payloads,    \* contents a host may send
    Erased,      \* an erased byte
    Corrupt,     \* a byte of an earlier image, programmed twice or cut off
    MaxCrashes   \* bound: power cuts

ASSUME FlashAssumption ==
    /\ Half \in Nat \ {0}
    /\ BlockPages \in Nat \ {0}
    /\ BasePage \in Nat /\ BasePage % BlockPages = 0
    /\ ImagePages \in Nat \ {0}
    /\ Erased \notin Payloads /\ Corrupt \notin Payloads /\ Erased # Corrupt
    /\ MaxCrashes \in Nat

PageBytes  == 2 * Half
Offsets    == 0..PageBytes - 1
ImageRange == 0..ImagePages - 1
FlashPages == 0..BasePage + ImagePages - 1
Bytes      == Payloads \cup {Erased, Corrupt}
Steps      == {"idle", "erase", "write", "reply"}

VARIABLES
    flash,     \* what every byte of every page of the flash holds
    page_old,  \* the page FWupdate_Parsing expects
    cmd,       \* the command being parsed: page, length byte and payload
    written,   \* bytes of its payload programmed so far
    retval,    \* what FWupdate_Parsing returns
    pc,        \* where FWupdate_Parsing is
    acked,     \* the host's view: pages acknowledged since its last page 0
    crashes    \* power cuts so far

vars == <<flash, page_old, cmd, written, retval, pc, acked, crashes>>

\* The length byte 0 stands for a full page.
Length(byte) == IF byte = 0 THEN PageBytes ELSE byte

\* Faulty variant: the rest of a full page is not clipped to half a page.
Chunk_Unclipped(length, done) ==
    IF length > Half
      THEN IF done = 0 THEN Half ELSE length
      ELSE length

\* The bytes of a call of Flash_write_one_channel_User: the first half page
\* of a payload longer than that and then its rest, or all of it at once.
Chunk(length, done) ==
    IF length > Half
      THEN IF done = 0 THEN Half
           ELSE IF length = PageBytes THEN Half ELSE length % Half
      ELSE length

\* The page the host expects to find for a command it sent.
Content(c) == [i \in Offsets |-> IF i < Length(c.length) THEN c.data ELSE Erased]

Block(page) == page \div BlockPages

NoCommand == [page |-> 0, length |-> 0, data |-> Erased]

Init ==
    /\ flash = [p \in FlashPages |-> [i \in Offsets |-> Corrupt]]
    /\ page_old = 0
    /\ cmd = NoCommand
    /\ written = 0 /\ retval = 0 /\ pc = "idle"
    /\ acked = <<>> /\ crashes = 0

-----------------------------------------------------------------------------
\* Faulty variant: a page that comes too early is taken.
Receive_NoGapCheck ==
    /\ pc = "idle"
    /\ \E page \in ImageRange, length \in Offsets, data \in Payloads :
         /\ cmd' = [page |-> page, length |-> length, data |-> data]
         /\ acked' = IF page = 0 THEN <<>> ELSE acked
         /\ page_old' = page + 1
         /\ retval' = 0
         /\ pc' = IF page % BlockPages = 0 THEN "erase" ELSE "write"
    /\ UNCHANGED <<flash, written, crashes>>

\* Faulty variant: the page taken last is taken again, as a host that missed
\* the answer would like.
Receive_Retry ==
    /\ pc = "idle"
    /\ \E page \in ImageRange, length \in Offsets, data \in Payloads :
         LET expected == IF page = 0 THEN 0 ELSE page_old
         IN  /\ cmd' = [page |-> page, length |-> length, data |-> data]
             /\ acked' = IF page = 0 THEN <<>> ELSE acked
             /\ IF page \notin {expected, expected - 1}
                  THEN /\ retval' = 1
                       /\ pc' = "reply"
                       /\ UNCHANGED page_old
                  ELSE /\ page_old' = page + 1
                       /\ retval' = 0
                       /\ pc' = IF page % BlockPages = 0 THEN "erase" ELSE "write"
    /\ UNCHANGED <<flash, written, crashes>>

\* A command arrives.  Page 0 forgets the pages counted so far; a page that
\* is not the expected one is refused and changes nothing else.
Receive ==
    /\ pc = "idle"
    /\ \E page \in ImageRange, length \in Offsets, data \in Payloads :
         LET expected == IF page = 0 THEN 0 ELSE page_old
         IN  /\ cmd' = [page |-> page, length |-> length, data |-> data]
             /\ acked' = IF page = 0 THEN <<>> ELSE acked
             /\ IF page # expected
                  THEN /\ retval' = 1
                       /\ pc' = "reply"
                       /\ UNCHANGED page_old
                  ELSE /\ page_old' = expected + 1
                       /\ retval' = 0
                       /\ pc' = IF page % BlockPages = 0 THEN "erase" ELSE "write"
    /\ UNCHANGED <<flash, written, crashes>>

\* Flash_erase_block: the block of the page is erased.
Erase ==
    /\ pc = "erase"
    /\ flash' = [p \in FlashPages |->
                   IF Block(p) = Block(BasePage + cmd.page)
                     THEN [i \in Offsets |-> Erased] ELSE flash[p]]
    /\ pc' = "write"
    /\ UNCHANGED <<page_old, cmd, written, retval, acked, crashes>>

\* The bytes the current call of Flash_write_one_channel_User programs.
Programmed == written .. written + Chunk(Length(cmd.length), written) - 1

\* Flash_write_one_channel_User: a chunk of the payload is programmed.  A
\* byte that is not erased is corrupted.
Write ==
    /\ pc = "write"
    /\ LET n == Chunk(Length(cmd.length), written)
       IN  /\ flash' = [flash EXCEPT ![BasePage + cmd.page] =
                 [i \in Offsets |->
                    IF i \notin Programmed THEN @[i]
                    ELSE IF @[i] = Erased THEN cmd.data ELSE Corrupt]]
           /\ written' = written + n
           /\ pc' = IF Length(cmd.length) > Half /\ written = 0 THEN "write" ELSE "reply"
    /\ UNCHANGED <<page_old, cmd, retval, acked, crashes>>

\* FWupdate_Parsing is left, and its local variables with it.
Return == cmd' = NoCommand /\ written' = 0 /\ retval' = 0 /\ pc' = "idle"

\* The answer is sent; the host may or may not get it.
Reply ==
    /\ pc = "reply"
    /\ \/ retval = 0 /\ acked' = [p \in DOMAIN acked \cup {cmd.page} |->
                                    IF p = cmd.page THEN Content(cmd) ELSE acked[p]]
       \/ UNCHANGED acked
    /\ Return
    /\ UNCHANGED <<flash, page_old, crashes>>

\* The power is cut: what was being erased or programmed may be left in any
\* state, and the static variable is 0 again after the restart.
Crash ==
    /\ crashes < MaxCrashes
    /\ crashes' = crashes + 1
    /\ \/ UNCHANGED flash
       \/ /\ pc = "erase"
          /\ flash' = [p \in FlashPages |->
                         IF Block(p) = Block(BasePage + cmd.page)
                           THEN [i \in Offsets |-> Corrupt] ELSE flash[p]]
       \/ /\ pc = "write"
          /\ flash' = [flash EXCEPT ![BasePage + cmd.page] =
                         [i \in Offsets |-> IF i \in Programmed THEN Corrupt ELSE @[i]]]
    /\ page_old' = 0
    /\ Return
    /\ UNCHANGED acked

Next == Receive \/ Erase \/ Write \/ Reply \/ Crash

Spec == Init /\ [][Next]_vars

-----------------------------------------------------------------------------
(* Properties                                                              *)

\* Every variable has its type.
TypeOK ==
    /\ flash \in [FlashPages -> [Offsets -> Bytes]]
    /\ page_old \in 0..ImagePages
    /\ cmd \in [page : ImageRange, length : Offsets, data : Payloads \cup {Erased}]
    /\ written \in 0..PageBytes
    /\ retval \in {0, 1}
    /\ pc \in Steps
    /\ DOMAIN acked \subseteq ImageRange
    /\ crashes \in 0..MaxCrashes

\* Every page the host was told is written holds exactly what it sent, and
\* the bytes past a short payload are erased, whatever it sent since, however
\* often the power was cut and whichever answers it missed.
AckedPagesPresent == \A p \in DOMAIN acked : flash[BasePage + p] = acked[p]

\* No byte is programmed that is not erased: the order FWupdate_Parsing
\* enforces makes every page follow the erasure of its block.
NeverOverprogrammed ==
    [][\A p \in FlashPages, i \in Offsets :
         flash'[p][i] # flash[p][i] /\ flash[p][i] # Erased
           => pc = "erase" \/ pc' = "idle"]_vars

-----------------------------------------------------------------------------
(* Inductive invariant.                                                    *)

Blank == [i \in Offsets |-> Erased]

\* What the parser's local state means at each step.
CountInv ==
    /\ pc = "idle" => written = 0
    /\ pc # "idle" => cmd.data \in Payloads
    /\ pc \in {"erase", "write"} => retval = 0
    /\ pc # "idle" /\ retval = 0 => page_old = cmd.page + 1
    /\ pc = "erase" => written = 0 /\ cmd.page % BlockPages = 0
    /\ pc = "write" => written = 0 \/ (written = Half /\ Length(cmd.length) > Half)

\* The pages still to come in the block being filled are erased.
FreshInv ==
    page_old > 0 /\ pc # "erase" =>
      \A p \in ImageRange :
        p >= page_old /\ Block(BasePage + p) = Block(BasePage + page_old - 1)
          => flash[BasePage + p] = Blank

\* The page being written holds what was programmed of it so far.
PageInv ==
    /\ pc = "write" => flash[BasePage + cmd.page] =
                         [i \in Offsets |-> IF i < written THEN cmd.data ELSE Erased]
    /\ pc = "reply" /\ retval = 0 => flash[BasePage + cmd.page] = Content(cmd)

\* Acknowledged pages lie before the one the parser works on or expects,
\* except after a restart, when only page 0 is expected.
AckedInv ==
    /\ page_old > 0 => DOMAIN acked \subseteq 0..page_old - 1
    /\ pc \in {"erase", "write"} => DOMAIN acked \subseteq 0..cmd.page - 1

FlashInv == CountInv /\ FreshInv /\ PageInv /\ AckedInv /\ AckedPagesPresent
=============================================================================
