---------------------------- MODULE KernelProofs ----------------------------
(***************************************************************************)
(* Proofs about the boot loader (Boot), the DMA channel (Dma), files and   *)
(* their handles (File) and the terminal (Term), for every size of track,  *)
(* image, transfer, file and screen.                                       *)
(***************************************************************************)
EXTENDS Boot, Dma, File, Term, TLAPS, FiniteSetTheorems, WellFoundedInduction

\* A step is for Zenon unless it names the SMT solver.
USE ZenonT(60)

-----------------------------------------------------------------------------

(* ----------------------------- arithmetic ------------------------------ *)

\* What div and mod are.
LEMMA DivMod ==
    ASSUME NEW a \in Nat, NEW b \in Nat \ {0}
    PROVE  a = b * (a \div b) + (a % b) /\ a % b \in 0..b - 1 /\ a \div b \in Nat
BY SMTT(30)

\* Multiplication distributes, for the provers that do not multiply.
LEMMA Distr == \A a, b, c \in Int : a * (b + c) = a * b + a * c
BY SMTT(30)

\* Multiplication keeps the order.
LEMMA Mono == ASSUME NEW a \in Nat, NEW b \in Int, NEW c \in Int, b <= c PROVE a * b <= a * c
<1>1. PICK d \in Nat : c = b + d
  <2>1. c - b \in Nat /\ c = b + (c - b)
    BY SMTT(30)
  <2>. QED
    BY <2>1
<1>2. a * c = a * b + a * d
  BY SMTT(30), <1>1, Distr
<1>3. a * d \in Nat /\ a * b \in Int /\ a * c \in Int
  BY SMTT(30)
<1>. QED
  BY SMTT(30), <1>2, <1>3

\* Quotient and remainder are unique.
LEMMA DivUnique ==
    ASSUME NEW b \in Nat \ {0}, NEW q \in Nat, NEW r \in 0..b - 1
    PROVE  (b * q + r) % b = r /\ (b * q + r) \div b = q
<1>. DEFINE a == b * q + r
            p == a \div b
            s == a % b
<1>1. a \in Nat
  BY SMTT(30)
<1>2. a = b * p + s /\ s \in 0..b - 1 /\ p \in Nat
  BY <1>1, DivMod
<1>3. b * q + r = b * p + s
  BY <1>2
<1>. HIDE DEF p, s
<1>4. b * q \in Int /\ b * p \in Int
  BY SMTT(30), <1>2
<1>5. ASSUME q < p PROVE FALSE
  <2>1. b * (q + 1) <= b * p
    BY SMTT(30), <1>2, <1>5, Mono
  <2>2. b * (q + 1) = b * q + b * 1
    BY SMTT(30), Distr
  <2>. QED
    BY SMTT(30), <1>2, <1>3, <1>4, <2>1, <2>2
<1>6. ASSUME p < q PROVE FALSE
  <2>1. b * (p + 1) <= b * q
    BY SMTT(30), <1>2, <1>6, Mono
  <2>2. b * (p + 1) = b * p + b * 1
    BY SMTT(30), <1>2, Distr
  <2>. QED
    BY SMTT(30), <1>2, <1>3, <1>4, <2>1, <2>2
<1>7. p = q
  BY SMTT(30), <1>2, <1>5, <1>6
<1>8. s = r
  BY SMTT(30), <1>2, <1>3, <1>4, <1>7
<1>. QED
  BY <1>7, <1>8 DEF p, s

\* A number with no quotient is less than the divisor.
LEMMA DivZero == ASSUME NEW a \in Nat, NEW b \in Nat \ {0}, a \div b = 0 PROVE a < b
<1>1. a = b * 0 + (a % b) /\ a % b \in 0..b - 1
  BY DivMod
<1>. QED
  BY SMTT(30), <1>1

\* A number less than the divisor is its own remainder.
LEMMA ModSmall == ASSUME NEW b \in Nat \ {0}, NEW a \in 0..b - 1 PROVE a % b = a
BY SMTT(30)

\* A set of numbers has a least one: induction.
LEMMA NatMin == ASSUME NEW S, S \subseteq Nat, S # {} PROVE \E n \in S : \A m \in S : n <= m
<1>0. IsWellFoundedOn({ss \in Nat \X Nat : ss[1] < ss[2]}, Nat)
  BY NatLessThanWellFounded DEF OpToRel
<1>1. PICK n \in S : \A m \in S : ~(<<m, n>> \in {ss \in Nat \X Nat : ss[1] < ss[2]})
  BY <1>0, WFMin
<1>2. \A m \in S : ~(m < n)
  BY <1>1
<1>. QED
  BY SMTT(30), <1>2

-----------------------------------------------------------------------------

(* -------------------------- the boot loader ---------------------------- *)

\* convert_lba_to_chs inverts the numbering of sectors, over every change of
\* head and cylinder.
LEMMA SectorOf ==
    ASSUME NEW lba \in Nat, lba < KIMG_SECTORS
    PROVE  OnDisk(convert_lba_to_chs(lba)) /\ SectorAt(convert_lba_to_chs(lba)) = lba
<1>. DEFINE S == SECTORS_PER_TRACK
            track == lba \div S
            rest == lba % S
<1>1. S \in Nat \ {0} /\ lba < 256 * S /\ heads = 2
  BY SMTT(30), BootAssumption
<1>2. lba = S * track + rest /\ rest \in 0..S - 1 /\ track \in Nat
  BY <1>1, DivMod
<1>3. convert_lba_to_chs(lba) = [cl |-> rest + 1, ch |-> (track % 256) \div 2, dh |-> track % 2]
  BY <1>1 DEF convert_lba_to_chs
<1>. HIDE DEF S, track, rest
<1>4. track < 256
  <2>1. ASSUME track >= 256 PROVE FALSE
    <3>1. S * 256 <= S * track
      BY SMTT(30), <1>1, <1>2, <2>1, Mono
    <3>2. S * track \in Int
      BY SMTT(30), <1>1, <1>2
    <3>. QED
      BY SMTT(30), <1>1, <1>2, <3>1, <3>2
  <2>. QED
    BY SMTT(30), <1>2, <2>1
<1>5. (((track % 256) \div 2) * 2) + (track % 2) = track
  BY SMTT(30), <1>2, <1>4
<1>6. SectorAt(convert_lba_to_chs(lba)) = track * S + (rest + 1) - 1
  BY SMTT(30), <1>1, <1>3, <1>5 DEF SectorAt, S
<1>7. track * S = S * track /\ track * S \in Int
  BY SMTT(30), <1>1, <1>2
<1>. QED
  BY SMTT(30), <1>1, <1>2, <1>3, <1>6, <1>7 DEF OnDisk, S

\* Where sector k belongs.
SegOf(k) == LOAD_SEG + PARA * (k - 1)

\* No two sectors belong to the same place.
LEMMA SegApart ==
    ASSUME NEW j \in Nat, NEW k \in Nat, SegOf(j) = SegOf(k)
    PROVE  j = k
<1>. USE BootAssumption
<1>1. ASSUME NEW a \in Nat, NEW b \in Nat, a < b PROVE SegOf(a) # SegOf(b)
  <2>1. PARA * (b - 1) = PARA * (a - 1) + PARA * (b - a)
    <3>1. a - 1 \in Int /\ b - a \in Int /\ b - 1 = (a - 1) + (b - a)
      BY SMTT(30)
    <3>. QED
      BY SMTT(30), <3>1, Distr
  <2>2. PARA * 1 <= PARA * (b - a)
    BY SMTT(30), <1>1, Mono
  <2>3. PARA * (b - 1) \in Int /\ PARA * (a - 1) \in Int /\ PARA * (b - a) \in Int
    BY SMTT(30)
  <2>. QED
    BY SMTT(30), <2>1, <2>2, <2>3 DEF SegOf
<1>. QED
  BY SMTT(30), <1>1

\* The segment after that of a sector is one too, but for the last sector read.
LEMMA SegBelow ==
    ASSUME NEW k \in 0..KIMG_SECTORS - 2
    PROVE  SegOf(k + 1) % SEGS = SegOf(k + 1)
<1>. USE BootAssumption
<1>1. PARA * k <= PARA * (KIMG_SECTORS - 2)
  BY SMTT(30), Mono
<1>2. PARA * k \in Nat /\ PARA * (KIMG_SECTORS - 2) \in Int
  BY SMTT(30)
<1>3. SegOf(k + 1) = LOAD_SEG + PARA * k
  <2>1. (k + 1) - 1 = k
    BY SMTT(30)
  <2>. QED
    BY <2>1 DEF SegOf
<1>4. SegOf(k + 1) \in Nat /\ SegOf(k + 1) < SEGS
  BY SMTT(30), <1>1, <1>2, <1>3
<1>. QED
  BY SMTT(30), <1>4

\* Sectors 1 to n are in place, and nothing else has been written.
Loaded(n) ==
    /\ DOMAIN ram = {SegOf(k) : k \in 1..n}
    /\ \A k \in 1..n : ram[SegOf(k)] = k

\* The inductive invariant of the loader: es is where the next sector belongs.
BootInv ==
    /\ cur_lba \in 1..KIMG_SECTORS
    /\ Loaded(cur_lba - 1)
    /\ loader \in {"a20", "load"} => cur_lba < KIMG_SECTORS /\ es = SegOf(cur_lba)
    /\ loader \in {"memory", "protected_mode", "kernel"} => cur_lba = KIMG_SECTORS
    /\ loader \in {"load", "memory", "protected_mode", "kernel"} => a20

\* It holds at the start.
LEMMA BootInvInit == BootInit => BootInv
<1>1. PARA * (1 - 1) = 0
  BY SMTT(30), BootAssumption
<1>. QED
  BY SMTT(30), <1>1, BootAssumption DEF BootInit, BootInv, Loaded, SegOf

\* It is kept: a round of sector_loop loads the next sector.
LEMMA BootStep == ASSUME BootInv, [BootNext]_bootVars PROVE BootInv'
<1>. USE BootAssumption
<1>1. CASE enable_a20
  BY SMTT(30), <1>1 DEF enable_a20, BootInv, Loaded
<1>2. CASE sector_loop
  <2>0. cur_lba \in Nat /\ cur_lba < KIMG_SECTORS /\ es = SegOf(cur_lba) /\ loader = "load" /\ a20
        /\ cur_lba >= 1 /\ KIMG_SECTORS \in Nat
    BY SMTT(30), <1>2 DEF sector_loop, BootInv
  <2>1. OnDisk(convert_lba_to_chs(cur_lba)) /\ SectorAt(convert_lba_to_chs(cur_lba)) = cur_lba
    BY <2>0, SectorOf
  <2>2. CASE loader' = "fatal" /\ UNCHANGED <<cur_lba, es, ram>>
    BY <1>2, <2>2 DEF sector_loop, BootInv, Loaded
  <2>3. CASE /\ ram' = [s \in DOMAIN ram \cup {es} |-> IF s = es THEN cur_lba ELSE ram[s]]
             /\ cur_lba' = cur_lba + 1
             /\ IF cur_lba' = KIMG_SECTORS THEN loader' = "memory" /\ UNCHANGED es
                ELSE es' = (es + PARA) % SEGS /\ UNCHANGED loader
    <3>1. 1..(cur_lba' - 1) = (1..(cur_lba - 1)) \cup {cur_lba}
      BY SMTT(30), <2>0, <2>3
    <3>2. DOMAIN ram' = {SegOf(k) : k \in 1..(cur_lba' - 1)}
      BY SMTT(30), <2>0, <2>3, <3>1 DEF BootInv, Loaded
    <3>3. ASSUME NEW k \in 1..(cur_lba' - 1) PROVE ram'[SegOf(k)] = k
      <4>1. CASE k = cur_lba
        BY <2>0, <2>3, <4>1
      <4>2. CASE k \in 1..(cur_lba - 1)
        <5>1. SegOf(k) # es /\ SegOf(k) \in DOMAIN ram /\ ram[SegOf(k)] = k
          BY SMTT(30), <2>0, <4>2, SegApart DEF BootInv, Loaded
        <5>. QED
          BY <2>3, <5>1
      <4>. QED
        BY <3>1, <4>1, <4>2
    <3>4. SegOf(cur_lba + 1) = SegOf(cur_lba) + PARA
      <4>1. PARA * ((cur_lba - 1) + 1) = PARA * (cur_lba - 1) + PARA * 1
        BY SMTT(30), <2>0, Distr
      <4>2. PARA * (cur_lba - 1) \in Int /\ (cur_lba + 1) - 1 = (cur_lba - 1) + 1
        BY SMTT(30), <2>0
      <4>. QED
        BY SMTT(30), <4>1, <4>2 DEF SegOf
    <3>5. UNCHANGED a20
      BY <1>2 DEF sector_loop
    <3>6. Loaded(cur_lba - 1)'
      BY <3>2, <3>3 DEF Loaded, SegOf
    <3>7. cur_lba' \in 1..KIMG_SECTORS
      BY SMTT(30), <2>0, <2>3
    <3>8. CASE cur_lba' = KIMG_SECTORS
      BY <2>0, <2>3, <3>5, <3>6, <3>7, <3>8 DEF BootInv
    <3>9. CASE cur_lba' # KIMG_SECTORS
      <4>1. cur_lba' < KIMG_SECTORS /\ SegOf(cur_lba)' = SegOf(cur_lba) + PARA
        BY SMTT(30), <2>0, <2>3, <3>4, <3>9 DEF SegOf
      <4>2. cur_lba \in 0..KIMG_SECTORS - 2
        BY SMTT(30), <2>0, <2>3, <4>1
      <4>3. (es + PARA) % SEGS = es + PARA
        BY <2>0, <3>4, <4>2, SegBelow
      <4>. QED
        BY <2>0, <2>3, <3>5, <3>6, <3>7, <3>9, <4>1, <4>3 DEF BootInv
    <3>. QED
      BY <3>8, <3>9
  <2>. QED
    BY <1>2, <2>1, <2>2, <2>3 DEF sector_loop
<1>3. CASE get_mem_kb \/ protected_mode
  BY <1>3 DEF get_mem_kb, protected_mode, BootInv, Loaded
<1>4. CASE UNCHANGED bootVars
  BY <1>4 DEF bootVars, BootInv, Loaded
<1>. QED
  BY <1>1, <1>2, <1>3, <1>4 DEF BootNext

\* The loader calls the kernel only with every sector of the image but the last
\* in its place, in order, and nothing else written, and with A20 on.
THEOREM KernelLoaded == BootSpec => []ImageInPlace
<1>1. Image \ NotRead = 1..KIMG_SECTORS - 1
  BY SMTT(30), BootAssumption DEF Image, NotRead
<1>2. BootInv => ImageInPlace
  BY <1>1 DEF BootInv, Loaded, ImageInPlace, SegOf
<1>. QED
  BY <1>2, BootInvInit, BootStep, PTL DEF BootSpec

-----------------------------------------------------------------------------

(* -------------------------- the DMA channel ---------------------------- *)

\* Two bytes make 16 bits, and can be had back.
LEMMA Bytes16 ==
    ASSUME NEW h \in 0..Base - 1, NEW l \in 0..Base - 1
    PROVE  h * Base + l \in 0..K64 - 1 /\ Low(h * Base + l) = l /\ High(h * Base + l) = h
<1>1. Base \in Nat \ {0}
  BY SMTT(30), DmaAssumption
<1>2. h * Base + l = Base * h + l
  BY SMTT(30), <1>1
<1>3. Low(Base * h + l) = l /\ (Base * h + l) \div Base = h
  BY SMTT(30), <1>1, DivUnique DEF Low
<1>4. h % Base = h
  BY SMTT(30), <1>1
<1>5. Base * h <= Base * (Base - 1) /\ Base * (Base - 1) = K64 + Base * (-1) /\ Base * (-1) = -Base
  <2>1. Base * (Base + (-1)) = Base * Base + Base * (-1)
    BY SMTT(30), <1>1, Distr
  <2>2. Base * h <= Base * (Base - 1)
    BY SMTT(30), <1>1, Mono
  <2>3. Base + (-1) = Base - 1 /\ Base * (-1) = -Base
    BY SMTT(30), <1>1
  <2>. QED
    BY <2>1, <2>2, <2>3 DEF K64
<1>6. K64 \in Int /\ Base * h \in Nat
  BY SMTT(30), <1>1 DEF K64
<1>. QED
  BY SMTT(30), <1>1, <1>2, <1>3, <1>4, <1>5, <1>6 DEF High

\* The low and the high byte of a number, put together.
LEMMA Split16 ==
    ASSUME NEW v \in Nat
    PROVE  /\ Low(v) \in 0..Base - 1 /\ High(v) \in 0..Base - 1
           /\ High(v) * Base + Low(v) = v % K64
<1>1. Base \in Nat \ {0} /\ K64 \in Nat \ {0}
  <2>1. Base * 1 <= Base * Base
    BY SMTT(30), DmaAssumption, Mono
  <2>. QED
    BY SMTT(30), <2>1, DmaAssumption DEF K64
<1>. DEFINE q == v \div Base
            l == v % Base
            p == q \div Base
            h == q % Base
<1>2. v = Base * q + l /\ l \in 0..Base - 1 /\ q \in Nat
  BY <1>1, DivMod
<1>. HIDE DEF q, l
<1>3. q = Base * p + h /\ h \in 0..Base - 1 /\ p \in Nat
  BY <1>1, <1>2, DivMod
<1>. HIDE DEF p, h
<1>4. Base * (Base * p + h) = Base * (Base * p) + Base * h
  BY SMTT(30), <1>1, <1>3, Distr
<1>5. Base * (Base * p) = K64 * p
  BY SMTT(30), <1>1, <1>3 DEF K64
<1>6. h * Base + l \in 0..K64 - 1
  BY <1>2, <1>3, Bytes16
<1>7. h * Base = Base * h /\ h * Base \in Nat /\ K64 * p \in Nat
  BY SMTT(30), <1>1, <1>3
<1>8. v = K64 * p + (h * Base + l)
  BY SMTT(30), <1>2, <1>3, <1>4, <1>5, <1>7
<1>9. v % K64 = h * Base + l
  BY <1>1, <1>3, <1>6, <1>8, DivUnique
<1>. QED
  BY <1>2, <1>3, <1>9 DEF Low, High, q, l, h

\* What dma_setup's test lets through: a buffer that its page and its 16 bits
\* of address describe, that ends on that page, and a count that is not lost.
LEMMA GoodBuf ==
    ASSUME NEW buf \in 0..(K64 * K64) - 1, NEW bytes \in 0..(K64 * K64) - 1, ~bad_dma_buf(buf, bytes)
    PROVE  /\ bytes - 1 \in 0..K64 - 1
           /\ buf % K64 \in 0..K64 - 1
           /\ (buf % K64) + (bytes - 1) < K64
           /\ (buf \div K64) % Base \in 0..Base - 1
           /\ ((buf \div K64) % Base) * K64 + (buf % K64) = buf
<1>. DEFINE M == K64 * K64
            c == (bytes - 1) % M
            page16 == buf \div K64
            low == buf % K64
<1>1. Base \in Nat \ {0} /\ K64 \in Nat /\ K64 >= 4
  <2>1. Base * 2 <= Base * Base
    BY SMTT(30), DmaAssumption, Mono
  <2>. QED
    BY SMTT(30), <2>1, DmaAssumption DEF K64
<1>2. M \in Nat /\ M >= 4 * K64
  <2>1. K64 * 4 <= K64 * K64
    BY SMTT(30), <1>1, Mono
  <2>. QED
    BY SMTT(30), <1>1, <2>1
<1>3. /\ buf \div (Base * K64) = 0
      /\ c \div K64 = 0
      /\ ((low + c) % M) \div K64 = 0
  BY DEF bad_dma_buf
<1>4. Base * K64 \in Nat \ {0}
  <2>1. Base * 1 <= Base * K64
    BY SMTT(30), <1>1, Mono
  <2>. QED
    BY SMTT(30), <1>1, <2>1
<1>5. buf < Base * K64
  BY SMTT(30), <1>3, <1>4, DivZero
<1>6. buf = K64 * page16 + low /\ low \in 0..K64 - 1 /\ page16 \in Nat
  <2>1. buf \in Nat /\ K64 \in Nat \ {0}
    BY SMTT(30), <1>1, <1>2
  <2>. QED
    BY <2>1, DivMod
<1>. HIDE DEF M, page16, low
<1>7. bytes # 0
  <2>1. ASSUME bytes = 0 PROVE FALSE
    <3>1. c = M - 1
      BY SMTT(30), <1>1, <1>2, <2>1
    <3>2. c < K64
      BY SMTT(30), <1>1, <1>2, <1>3, <3>1, DivZero
    <3>. QED
      BY SMTT(30), <1>1, <1>2, <3>1, <3>2
  <2>. QED
    BY <2>1
<1>8. c = bytes - 1 /\ c \in Nat
  BY SMTT(30), <1>2, <1>7, ModSmall DEF M
<1>. HIDE DEF c
<1>9. c < K64
  BY SMTT(30), <1>1, <1>3, <1>8, DivZero
<1>10. (low + c) % M = low + c
  <2>1. low + c \in 0..M - 1
    BY SMTT(30), <1>1, <1>2, <1>6, <1>8, <1>9
  <2>. QED
    BY SMTT(30), <1>1, <1>2, <2>1, ModSmall
<1>11. low + c < K64
  BY SMTT(30), <1>1, <1>3, <1>6, <1>8, <1>10, DivZero
<1>12. page16 < Base
  <2>1. ASSUME page16 >= Base PROVE FALSE
    <3>1. K64 * Base <= K64 * page16
      BY SMTT(30), <1>1, <1>6, <2>1, Mono
    <3>2. K64 * Base = Base * K64 /\ K64 * page16 \in Int /\ Base * K64 \in Int
      BY SMTT(30), <1>1, <1>6
    <3>. QED
      BY SMTT(30), <1>5, <1>6, <3>1, <3>2
  <2>. QED
    BY SMTT(30), <1>1, <1>6, <2>1
<1>13. page16 % Base = page16
  BY SMTT(30), <1>1, <1>6, <1>12
<1>14. page16 * K64 = K64 * page16
  BY SMTT(30), <1>1, <1>6
<1>. QED
  BY SMTT(30), <1>1, <1>6, <1>7, <1>8, <1>9, <1>11, <1>12, <1>13, <1>14 DEF page16, low

\* The stages of a dma_setup that has not panicked.
Unready == {"mask", "reset_addr", "addr_low", "addr_high", "page", "reset_count", "count_low",
            "count_high", "mode", "unmask"}

\* The stages of dma_setup, each with what the ones before have written.
Progress ==
    /\ dma_at \in {"addr_low", "count_low"} => flipflop = 0
    /\ dma_at = "addr_high" => flipflop = 1 /\ Low(addr) = Low(arg.buf)
    /\ dma_at \in {"page", "reset_count", "count_low", "count_high", "mode", "unmask"}
         => addr = arg.buf % K64
    /\ dma_at \in {"reset_count", "count_low", "count_high", "mode", "unmask"}
         => dma_page = (arg.buf \div K64) % Base
    /\ dma_at = "count_high" => flipflop = 1 /\ Low(count) = Low(arg.bytes - 1)
    /\ dma_at \in {"mode", "unmask"} => count = arg.bytes - 1

\* The inductive invariant: a channel that is not masked is on its way through
\* the buffer it was made ready for, and is masked from the first write of
\* dma_setup to the last.
DmaInv ==
    /\ flipflop \in {0, 1} /\ addr \in Bits16 /\ count \in Bits16
    /\ dma_page \in 0..Base - 1 /\ masked \in BOOLEAN
    /\ dma_at \in Unready \cup {"idle", "panic"}
    /\ arg.buf \in 0..(K64 * K64) - 1 /\ arg.bytes \in 0..(K64 * K64) - 1
    /\ ready.buf \in Nat /\ ready.bytes \in Nat
    /\ dma_at \in Unready => ~bad_dma_buf(arg.buf, arg.bytes)
    /\ dma_at \in Unready \ {"mask"} => masked
    /\ Progress
    /\ ~masked => /\ addr + count < K64 /\ count <= ready.bytes - 1
                  /\ dma_page * K64 + addr + count = ready.buf + (ready.bytes - 1)

\* 64k is a positive number.
LEMMA K64Pos == K64 \in Nat \ {0}
<1>1. Base * 1 <= Base * Base
  BY SMTT(30), DmaAssumption, Mono
<1>. QED
  BY SMTT(30), <1>1, DmaAssumption DEF K64

\* It holds at the start, whatever is in the registers.
LEMMA DmaInvInit == DmaInit => DmaInv
<1>1. K64 * K64 \in Nat \ {0}
  <2>1. K64 * 1 <= K64 * K64
    BY SMTT(30), K64Pos, Mono
  <2>. QED
    BY SMTT(30), K64Pos, <2>1
<1>. QED
  BY SMTT(30), <1>1 DEF DmaInit, DmaInv, Progress, Unready

\* It is kept, by the writes to the ports and by every byte transferred.
LEMMA DmaStep == ASSUME DmaInv, [DmaNext]_dmaVars PROVE DmaInv'
<1>0. /\ K64 \in Nat \ {0} /\ Base \in Nat \ {0} /\ K64 * K64 \in Nat
      /\ arg.buf \in Nat /\ arg.bytes \in Nat
  BY SMTT(30), K64Pos, DmaAssumption DEF DmaInv
<1>1. ASSUME NEW b \in Bufs, NEW s \in DmaSizes, dma_setup(b, s) PROVE DmaInv'
  <2>1. b \in 0..(K64 * K64) - 1 /\ s \in 0..(K64 * K64) - 1
    BY DmaAssumption
  <2>2. arg'.buf = b /\ arg'.bytes = s
    BY <1>1 DEF dma_setup
  <2>. QED
    BY <1>1, <2>1, <2>2 DEF dma_setup, DmaInv, Progress, Unready
<1>2. CASE dma_reg_write
  <2>1. CASE DmaGoto("mask", "reset_addr") /\ masked' = TRUE /\ UNCHANGED dma_page
    BY <1>2, <2>1 DEF dma_reg_write, DmaGoto, DmaInv, Progress, Unready
  <2>2. CASE DmaGoto("page", "reset_count") /\ dma_page' = (arg.buf \div K64) % Base /\ UNCHANGED masked
    <3>1. (arg.buf \div K64) % Base \in 0..Base - 1
      BY <2>2, GoodBuf DEF DmaGoto, DmaInv, Unready
    <3>. QED
      BY <1>2, <2>2, <3>1 DEF dma_reg_write, DmaGoto, DmaInv, Progress, Unready
  <2>3. CASE DmaGoto("mode", "unmask") /\ UNCHANGED <<masked, dma_page>>
    BY <1>2, <2>3 DEF dma_reg_write, DmaGoto, DmaInv, Progress, Unready
  <2>4. CASE DmaGoto("unmask", "idle") /\ masked' = FALSE /\ UNCHANGED dma_page
    <3>1. /\ arg.bytes - 1 \in 0..K64 - 1 /\ (arg.buf % K64) + (arg.bytes - 1) < K64
          /\ ((arg.buf \div K64) % Base) * K64 + (arg.buf % K64) = arg.buf
      BY <2>4, GoodBuf DEF DmaGoto, DmaInv, Unready
    <3>2. addr = arg.buf % K64 /\ dma_page = (arg.buf \div K64) % Base /\ count = arg.bytes - 1
      BY <2>4 DEF DmaGoto, DmaInv, Progress
    <3>3. dma_page * K64 + addr = arg.buf /\ addr + count < K64
      BY <3>1, <3>2
    <3>4. ready' = arg /\ arg' = arg /\ UNCHANGED <<addr, count, dma_page, flipflop>> /\ dma_at' = "idle"
      BY <1>2, <2>4 DEF DmaGoto, dma_reg_write
    <3>5. dma_page * K64 + addr + count = arg.buf + (arg.bytes - 1) /\ count <= arg.bytes - 1
      BY SMTT(30), <1>0, <3>2, <3>3
    <3>. QED
      BY <1>0, <2>4, <3>3, <3>4, <3>5 DEF DmaInv, Progress, Unready
  <2>. QED
    BY <1>2, <2>1, <2>2, <2>3, <2>4 DEF dma_reg_write
<1>3. CASE reset_flipflop
  BY <1>3 DEF reset_flipflop, DmaGoto, DmaInv, Progress, Unready
<1>4. CASE dma_reg_write16
  <2>0. dma_at \in Unready \ {"mask"} => masked
    BY DEF DmaInv
  <2>1. CASE DmaGoto("addr_low", "addr_high") /\ addr' = Half(addr, Low(arg.buf)) /\ UNCHANGED count
    <3>1. flipflop = 0 /\ masked /\ addr \in Nat
      BY SMTT(30), <1>0, <2>1 DEF DmaGoto, DmaInv, Progress, Unready, Bits16
    <3>2. High(addr) \in 0..Base - 1 /\ Low(arg.buf) \in 0..Base - 1
      BY <1>0, <3>1, Split16
    <3>3. addr' \in Bits16 /\ Low(addr') = Low(arg.buf)
      BY <2>1, <3>1, <3>2, Bytes16 DEF Half, Bits16
    <3>. QED
      BY SMTT(30), <1>4, <2>1, <3>1, <3>3 DEF dma_reg_write16, DmaGoto, DmaInv, Progress, Unready, Low
  <2>2. CASE DmaGoto("addr_high", "page") /\ addr' = Half(addr, High(arg.buf)) /\ UNCHANGED count
    <3>1. flipflop = 1 /\ masked /\ Low(addr) = Low(arg.buf)
      BY <2>2 DEF DmaGoto, DmaInv, Progress, Unready
    <3>2. addr' = arg.buf % K64
      BY SMTT(30), <1>0, <2>2, <3>1, Split16 DEF Half
    <3>3. addr' \in Bits16
      BY SMTT(30), <1>0, <3>2 DEF Bits16
    <3>. QED
      BY SMTT(30), <1>4, <2>2, <3>1, <3>2, <3>3 DEF dma_reg_write16, DmaGoto, DmaInv, Progress, Unready
  <2>3. CASE DmaGoto("count_low", "count_high") /\ count' = Half(count, Low(arg.bytes - 1)) /\ UNCHANGED addr
    <3>1. flipflop = 0 /\ masked /\ count \in Nat /\ arg.bytes - 1 \in Nat
      BY SMTT(30), <1>0, <2>3, GoodBuf DEF DmaGoto, DmaInv, Progress, Unready, Bits16
    <3>2. High(count) \in 0..Base - 1 /\ Low(arg.bytes - 1) \in 0..Base - 1
      BY <1>0, <3>1, Split16
    <3>3. count' \in Bits16 /\ Low(count') = Low(arg.bytes - 1)
      BY <2>3, <3>1, <3>2, Bytes16 DEF Half, Bits16
    <3>. QED
      BY SMTT(30), <1>4, <2>3, <3>1, <3>3 DEF dma_reg_write16, DmaGoto, DmaInv, Progress, Unready, Low
  <2>4. CASE DmaGoto("count_high", "mode") /\ count' = Half(count, High(arg.bytes - 1)) /\ UNCHANGED addr
    <3>1. flipflop = 1 /\ masked /\ Low(count) = Low(arg.bytes - 1)
      BY <2>4 DEF DmaGoto, DmaInv, Progress, Unready
    <3>2. arg.bytes - 1 \in 0..K64 - 1
      BY <2>4, GoodBuf DEF DmaGoto, DmaInv, Unready
    <3>3. count' = (arg.bytes - 1) % K64
      BY SMTT(30), <1>0, <2>4, <3>1, <3>2, Split16 DEF Half
    <3>4. count' = arg.bytes - 1 /\ count' \in Bits16
      BY <1>0, <3>2, <3>3, ModSmall DEF Bits16
    <3>. QED
      BY SMTT(30), <1>4, <2>4, <3>1, <3>4 DEF dma_reg_write16, DmaGoto, DmaInv, Progress, Unready
  <2>. QED
    BY <1>4, <2>1, <2>2, <2>3, <2>4 DEF dma_reg_write16
<1>5. CASE Transfer
  <2>1. ~masked /\ dma_at \in {"idle", "panic", "mask"}
    BY <1>5 DEF Transfer, DmaInv, Unready
  <2>2. addr \in 0..K64 - 1 /\ count \in 0..K64 - 1 /\ addr + count < K64 /\ count <= ready.bytes - 1
        /\ dma_page * K64 + addr + count = ready.buf + (ready.bytes - 1)
        /\ dma_page * K64 \in Int /\ ready.bytes \in Nat /\ ready.buf \in Nat
    BY SMTT(30), <1>0, <2>1 DEF DmaInv, Bits16
  <2>3. addr' \in Bits16 /\ count' \in Bits16
    BY SMTT(30), <1>0, <1>5, <2>2 DEF Transfer, Bits16
  <2>4. CASE count = 0
    BY <1>5, <2>1, <2>3, <2>4 DEF Transfer, DmaInv, Progress, Unready
  <2>5. CASE count # 0
    <3>1. addr' = addr + 1 /\ count' = count - 1
      <4>1. addr + 1 \in 0..K64 - 1 /\ count - 1 \in 0..K64 - 1
        BY SMTT(30), <1>0, <2>2, <2>5
      <4>2. (addr + 1) % K64 = addr + 1 /\ (count - 1) % K64 = count - 1
        BY <1>0, <4>1, ModSmall
      <4>. QED
        BY <1>5, <4>2 DEF Transfer
    <3>2. /\ addr' + count' < K64 /\ count' <= ready.bytes - 1
          /\ dma_page * K64 + addr' + count' = ready.buf + (ready.bytes - 1)
      BY SMTT(30), <1>0, <2>2, <3>1
    <3>. QED
      BY <1>5, <2>1, <2>3, <3>2 DEF Transfer, DmaInv, Progress, Unready
  <2>. QED
    BY <2>4, <2>5
<1>6. CASE UNCHANGED dmaVars
  BY <1>6 DEF dmaVars, DmaInv, Progress
<1>. QED
  BY <1>1, <1>2, <1>3, <1>4, <1>5, <1>6 DEF DmaNext

\* A byte is transferred to the buffer, and registers are right when the
\* channel is unmasked.
LEMMA InBufferStep == ASSUME DmaInv, DmaNext PROVE InBuffer
<1>0. K64 \in Nat \ {0}
  BY K64Pos
<1>1. ASSUME touched' # touched PROVE touched' \in ready.buf..ready.buf + ready.bytes - 1
  <2>1. Transfer
    BY <1>1 DEF DmaNext, dma_setup, dma_reg_write, reset_flipflop, dma_reg_write16, DmaGoto
  <2>2. addr \in 0..K64 - 1 /\ count \in 0..K64 - 1 /\ count <= ready.bytes - 1
        /\ dma_page * K64 + addr + count = ready.buf + (ready.bytes - 1)
        /\ dma_page * K64 \in Int /\ ready.bytes \in Nat /\ ready.buf \in Nat
    BY SMTT(30), <1>0, <2>1, DmaAssumption DEF DmaInv, Bits16, Transfer
  <2>3. touched' = dma_page * K64 + addr
    BY <2>1 DEF Transfer
  <2>. QED
    BY SMTT(30), <1>0, <2>2, <2>3
<1>2. ASSUME dma_at = "unmask" PROVE dma_page * K64 + addr = arg.buf /\ count = arg.bytes - 1
  <2>1. ((arg.buf \div K64) % Base) * K64 + (arg.buf % K64) = arg.buf
    BY <1>2, GoodBuf DEF DmaInv, Unready
  <2>. QED
    BY <1>2, <2>1 DEF DmaInv, Progress
<1>. QED
  BY <1>1, <1>2 DEF InBuffer

\* For every buffer and size dma_setup may be called with, and any width of a
\* byte: no byte is transferred outside the buffer of the last dma_setup that was
\* completed, even if a transfer goes on while the next is programmed.
THEOREM TransfersStayInBuffer == DmaSpec => TransfersInBuffer
<1>1. DmaInv /\ [DmaNext]_dmaVars => [InBuffer]_dmaVars
  BY InBufferStep
<1>. QED
  BY <1>1, DmaInvInit, DmaStep, PTL DEF DmaSpec, TransfersInBuffer

-----------------------------------------------------------------------------

(* ------------------------------- files --------------------------------- *)

\* What a handle may be open on.
Nodes == MemFiles \cup Devices
\* A handle that is open.
Open == [node : Nodes, offset : 0..WRAP - 1]
\* A position of a file.
Cell == Bytes \cup {Garbage}
\* The handles open on a device.
Users(d) == {h \in Handles : file[h] # NoFile /\ file[h].node = d}

\* What is in a buffer agrees with what was written there.
Agrees(d, w) ==
    /\ d \in Seq(Cell) /\ w \in Seq(Cell) /\ Len(d) = Len(w) /\ Len(d) <= MaxSize
    /\ \A k \in 1..Len(d) : w[k] # Garbage => d[k] = w[k]

\* The last read gave what was written.
ReadRight == got # NoFile => \A k \in DOMAIN got.bytes : LET b == written[got.node][got.at + k] IN
          b # Garbage => got.bytes[k] = b

\* The inductive invariant: every buffer agrees with what was written to its
\* file, also at positions nobody has read.
FileInv ==
    /\ data \in [MemFiles -> Seq(Cell)] /\ written \in [MemFiles -> Seq(Cell)]
    /\ \A f \in MemFiles : Agrees(data[f], written[f])
    /\ file \in [Handles -> {NoFile} \cup Open]
    /\ refs \in [Devices -> Int]
    /\ \A d \in Devices : refs[d] = Cardinality(Users(d))
    /\ ReadRight

\* It holds for empty files and no handles.
LEMMA FileInvInit == FileInit => FileInv
<1>. SUFFICES ASSUME FileInit PROVE FileInv
  OBVIOUS
<1>1. ASSUME NEW f \in MemFiles PROVE Agrees(data[f], written[f])
  BY SMTT(30), FileAssumption DEF FileInit, Agrees
<1>2. ASSUME NEW d \in Devices PROVE Cardinality(Users(d)) = 0
  <2>1. Users(d) = {}
    BY DEF FileInit, Users
  <2>. QED
    BY <2>1, FS_EmptySet
<1>. QED
  BY SMTT(30), <1>1, <1>2 DEF FileInit, FileInv, ReadRight

\* Opening adds a handle to the users of its node.
LEMMA OpenStep ==
    ASSUME FileInv, NEW h \in Handles, NEW n \in Nodes, vfs_open(h, n)
    PROVE  FileInv'
<1>. DEFINE o == [node |-> n, offset |-> 0]
<1>1. o \in Open /\ o # NoFile /\ o.node = n
  BY SMTT(30), FileAssumption DEF Open, Nodes, Devices
<1>. HIDE DEF o
<1>2. file[h] = NoFile /\ file' = [file EXCEPT ![h] = o] /\ got' = NoFile
      /\ refs' = (IF n \in Devices THEN [refs EXCEPT ![n] = refs[n] + 1] ELSE refs)
  BY DEF vfs_open, o
<1>3. /\ file' \in [Handles -> {NoFile} \cup Open] /\ file'[h] = o
      /\ \A k \in Handles : k # h => file'[k] = file[k]
  BY <1>1, <1>2 DEF FileInv
<1>4. ASSUME NEW d \in Devices PROVE refs'[d] = Cardinality(Users(d))' /\ refs'[d] \in Int
  <2>1. CASE d = n
    <3>1. Users(d)' = Users(d) \cup {h} /\ h \notin Users(d)
      BY <1>1, <1>2, <1>3, <2>1 DEF Users
    <3>2. IsFiniteSet(Users(d))
      BY FileAssumption, FS_Subset DEF Users
    <3>3. Cardinality(Users(d))' = Cardinality(Users(d)) + 1
      BY <3>1, <3>2, FS_AddElement
    <3>. QED
      BY SMTT(30), <1>2, <2>1, <3>3 DEF FileInv
  <2>2. CASE d # n
    <3>1. Users(d)' = Users(d)
      BY <1>1, <1>2, <1>3, <2>2 DEF Users
    <3>. QED
      BY <1>2, <2>2, <3>1 DEF FileInv
  <2>. QED
    BY <2>1, <2>2
<1>5. refs' \in [Devices -> Int]
  BY SMTT(30), <1>2 DEF FileInv
<1>. QED
  BY <1>2, <1>3, <1>4, <1>5 DEF FileInv, ReadRight, vfs_open

\* Closing takes it away.
LEMMA CloseStep ==
    ASSUME FileInv, NEW h \in Handles, vfs_close(h)
    PROVE  FileInv'
<1>. DEFINE n == file[h].node
<1>1. file[h] # NoFile /\ n \in Nodes
  BY DEF FileInv, Open, vfs_close
<1>2. file' = [file EXCEPT ![h] = NoFile] /\ got' = NoFile
      /\ refs' = (IF n \in Devices THEN [refs EXCEPT ![n] = refs[n] - 1] ELSE refs)
  BY DEF vfs_close
<1>3. /\ file' \in [Handles -> {NoFile} \cup Open] /\ file'[h] = NoFile
      /\ \A k \in Handles : k # h => file'[k] = file[k]
  BY <1>1, <1>2 DEF FileInv
<1>4. ASSUME NEW d \in Devices PROVE refs'[d] = Cardinality(Users(d))'
  <2>1. CASE d = n
    <3>1. Users(d)' = Users(d) \ {h} /\ h \in Users(d)
      BY <1>1, <1>2, <1>3, <2>1 DEF Users
    <3>2. IsFiniteSet(Users(d))
      BY FileAssumption, FS_Subset DEF Users
    <3>3. Cardinality(Users(d))' = Cardinality(Users(d)) - 1
      BY <3>1, <3>2, FS_RemoveElement
    <3>. QED
      BY <1>2, <2>1, <3>3 DEF FileInv
  <2>2. CASE d # n
    <3>1. Users(d)' = Users(d)
      BY <1>1, <1>2, <1>3, <2>2 DEF Users
    <3>. QED
      BY <1>2, <2>2, <3>1 DEF FileInv
  <2>. QED
    BY <2>1, <2>2
<1>5. refs' \in [Devices -> Int]
  BY SMTT(30), <1>2 DEF FileInv
<1>. QED
  BY <1>2, <1>3, <1>4, <1>5 DEF FileInv, ReadRight, vfs_close

\* A handle that only moves stays with its node.
LEMMA MoveStep ==
    ASSUME FileInv, NEW h \in Handles, file[h] # NoFile, NEW k \in 0..WRAP - 1,
           file' = [file EXCEPT ![h].offset = k], refs' = refs
    PROVE  /\ file' \in [Handles -> {NoFile} \cup Open]
           /\ refs' \in [Devices -> Int]
           /\ \A d \in Devices : refs'[d] = Cardinality(Users(d))'
<1>. DEFINE o == [file[h] EXCEPT !.offset = k]
<1>0. file[h] \in Open
  BY DEF FileInv
<1>1. o \in Open /\ o.node = file[h].node
  BY <1>0 DEF Open
<1>2. o # NoFile
  BY <1>1, FileAssumption DEF Open, Nodes, Devices
<1>3. file' = [file EXCEPT ![h] = o]
  BY DEF FileInv
<1>. HIDE DEF o
<1>4. /\ file' \in [Handles -> {NoFile} \cup Open] /\ file'[h] = o
      /\ \A j \in Handles : j # h => file'[j] = file[j]
  BY <1>1, <1>3 DEF FileInv
<1>5. \A d \in Devices : Users(d)' = Users(d)
  BY <1>1, <1>2, <1>4 DEF Users
<1>. QED
  BY <1>4, <1>5 DEF FileInv

\* A read gives what is in the buffer.
LEMMA ReadStep ==
    ASSUME FileInv, NEW h \in Handles, file[h] # NoFile, file[h].node \in MemFiles,
           NEW bytes \in Lengths, memfs_read(h, bytes)
    PROVE  FileInv'
<1>. DEFINE f  == file[h].node
            at == file[h].offset
            n  == IF at >= capacity(f) THEN 0 ELSE Smaller(bytes, capacity(f) - at)
<1>0. file[h] \in Open /\ bytes \in Nat /\ WRAP \in Nat
  BY SMTT(30), FileAssumption DEF FileInv
<1>1. at \in 0..WRAP - 1 /\ f \in MemFiles /\ Agrees(data[f], written[f])
  BY <1>0 DEF FileInv, Open
<1>2. /\ at \in Nat /\ capacity(f) \in Nat /\ capacity(f) <= MaxSize
      /\ MaxSize < WRAP /\ data[f] \in Seq(Cell) /\ MaxSize \in Nat
  BY SMTT(30), <1>0, <1>1, FileAssumption DEF Agrees, capacity
<1>3. n \in Nat /\ (n = 0 \/ at + n <= capacity(f))
  BY SMTT(30), <1>0, <1>2 DEF Smaller
<1>4. at + n \in 0..WRAP - 1
  BY SMTT(30), <1>0, <1>1, <1>2, <1>3
<1>5. /\ got' = [node |-> f, at |-> at, bytes |-> SubSeq(data[f], at + 1, at + n)]
      /\ file' = [file EXCEPT ![h].offset = at + n]
      /\ UNCHANGED <<data, refs, written, filestate>>
  BY DEF memfs_read
<1>. HIDE DEF f, at, n
<1>6. ASSUME NEW k \in DOMAIN got'.bytes PROVE k \in 1..n /\ got'.bytes[k] = data[f][at + k]
  <2>1. got'.bytes = SubSeq(data[f], at + 1, at + n)
    BY <1>5
  <2>2. CASE n = 0
    <3>1. got'.bytes \in Seq(Cell) /\ Len(got'.bytes) = 0
      BY SMTT(30), <1>2, <2>1, <2>2
    <3>2. DOMAIN got'.bytes = 1..0
      BY SMTT(30), <3>1
    <3>. QED
      BY SMTT(30), <1>6, <3>2
  <2>3. CASE n # 0
    <3>1. n > 0 /\ at + 1 \in 1..Len(data[f]) /\ at + n \in 1..Len(data[f])
      BY SMTT(30), <1>2, <1>3, <2>3 DEF capacity
    <3>2. Len(got'.bytes) = n /\ \A i \in 1..n : got'.bytes[i] = data[f][at + i]
      BY SMTT(30), <1>2, <1>3, <2>1, <3>1
    <3>3. DOMAIN got'.bytes = 1..n
      BY SMTT(30), <1>2, <1>3, <2>1, <3>1
    <3>. QED
      BY <1>6, <3>2, <3>3
  <2>. QED
    BY <2>2, <2>3
<1>7. ReadRight'
  <2>1. ASSUME NEW k \in DOMAIN got'.bytes, written[f][at + k] # Garbage
        PROVE  got'.bytes[k] = written[f][at + k]
    <3>1. k \in 1..n /\ got'.bytes[k] = data[f][at + k]
      BY <1>6, <2>1
    <3>2. at + k \in 1..Len(data[f])
      BY SMTT(30), <1>2, <1>3, <3>1 DEF capacity
    <3>. QED
      BY <1>1, <2>1, <3>1, <3>2 DEF Agrees
  <2>2. got'.node = f /\ got'.at = at
    BY <1>5
  <2>. QED
    BY <1>5, <2>1, <2>2 DEF ReadRight
<1>8. /\ file' \in [Handles -> {NoFile} \cup Open] /\ refs' \in [Devices -> Int]
      /\ \A d \in Devices : refs'[d] = Cardinality(Users(d))'
  BY <1>4, <1>5, MoveStep
<1>. QED
  BY <1>5, <1>7, <1>8 DEF FileInv

\* A write into a buffer, or a larger copy of it, keeps it in agreement.
LEMMA PutAgrees ==
    ASSUME NEW d \in Seq(Cell), NEW w \in Seq(Cell), Agrees(d, w), NEW size \in Nat, NEW buf,
           \/ buf = d /\ size = Len(d)
           \/ size > Len(d) /\ size <= MaxSize /\ buf = Grown(d, size),
           NEW at \in Nat, NEW bytes \in Seq(Bytes), at + Len(bytes) <= Len(buf)
    PROVE  Agrees(Put(buf, at, bytes), Put([k \in 1..Len(buf) |->
                IF k <= Len(w) THEN w[k] ELSE Garbage], at, bytes))
<1>0. Len(d) \in Nat /\ Len(w) = Len(d) /\ MaxSize \in Nat
  BY SMTT(30), FileAssumption DEF Agrees
<1>1. buf \in Seq(Cell) /\ Len(buf) = size /\ size <= MaxSize
  <2>1. CASE buf = d /\ size = Len(d)
    BY <2>1 DEF Agrees
  <2>2. CASE size > Len(d) /\ size <= MaxSize /\ buf = Grown(d, size)
    <3>1. buf = [k \in 1..size |-> IF k <= Len(d) THEN d[k] ELSE Garbage]
      BY <2>2 DEF Grown
    <3>2. \A k \in 1..size : (IF k <= Len(d) THEN d[k] ELSE Garbage) \in Cell
      BY SMTT(30), <1>0 DEF Cell
    <3>. DEFINE g == [k \in 1..size |-> IF k <= Len(d) THEN d[k] ELSE Garbage]
    <3>3. g \in Seq(Cell) /\ Len(g) = size
      BY SMTT(30), <3>2
    <3>. QED
      BY <2>2, <3>1, <3>3
  <2>. QED
    BY <2>1, <2>2
<1>2. \A k \in 1..size : k > Len(d) \/ buf[k] = d[k]
  BY SMTT(30), <1>0, <1>1 DEF Grown
<1>. DEFINE old == [k \in 1..Len(buf) |-> IF k <= Len(w) THEN w[k] ELSE Garbage]
            new == Put(buf, at, bytes)
            hist == Put(old, at, bytes)
<1>3. /\ old \in Seq(Cell) /\ Len(old) = size
      /\ \A k \in 1..size : old[k] = IF k <= Len(d) THEN w[k] ELSE Garbage
  BY SMTT(30), <1>0, <1>1 DEF Cell
<1>. HIDE DEF old
<1>4. \A k \in at + 1..at + Len(bytes) : bytes[k - at] \in Bytes
  BY SMTT(30)
<1>5. /\ new \in Seq(Cell) /\ Len(new) = size
      /\ \A k \in 1..size : new[k] = IF k \in at + 1..at + Len(bytes) THEN bytes[k - at] ELSE buf[k]
  <2>1. new = [k \in 1..size |-> IF k \in at + 1..at + Len(bytes) THEN bytes[k - at] ELSE buf[k]]
    BY SMTT(30), <1>1 DEF Put
  <2>2. \A k \in 1..size : (IF k \in at + 1..at + Len(bytes) THEN bytes[k - at] ELSE buf[k]) \in Cell
    BY SMTT(30), <1>1, <1>4 DEF Cell
  <2>. QED
    BY SMTT(30), <2>1, <2>2
<1>6. /\ hist \in Seq(Cell) /\ Len(hist) = size
      /\ \A k \in 1..size : hist[k] = IF k \in at + 1..at + Len(bytes) THEN bytes[k - at] ELSE old[k]
  <2>1. hist = [k \in 1..size |-> IF k \in at + 1..at + Len(bytes) THEN bytes[k - at] ELSE old[k]]
    BY SMTT(30), <1>3 DEF Put
  <2>2. \A k \in 1..size : (IF k \in at + 1..at + Len(bytes) THEN bytes[k - at] ELSE old[k]) \in Cell
    BY SMTT(30), <1>3, <1>4 DEF Cell
  <2>. QED
    BY SMTT(30), <2>1, <2>2
<1>. HIDE DEF new, hist
<1>7. ASSUME NEW k \in 1..size, hist[k] # Garbage PROVE new[k] = hist[k]
  <2>1. CASE k \in at + 1..at + Len(bytes)
    BY <1>5, <1>6, <2>1
  <2>2. CASE k \notin at + 1..at + Len(bytes)
    <3>1. new[k] = buf[k] /\ hist[k] = old[k]
      BY <1>5, <1>6, <2>2
    <3>2. k <= Len(d) /\ old[k] = w[k] /\ buf[k] = d[k]
      BY SMTT(30), <1>0, <1>2, <1>3, <1>7, <3>1
    <3>. QED
      BY SMTT(30), <1>7, <3>1, <3>2 DEF Agrees
  <2>. QED
    BY <2>1, <2>2
<1>8. Agrees(new, hist)
  BY <1>1, <1>5, <1>6, <1>7 DEF Agrees
<1>. QED
  BY <1>8 DEF new, hist, old

\* A write keeps the invariant, whether the buffer has to grow or not, and if
\* the end of the write wraps.
LEMMA WriteStep ==
    ASSUME FileInv, NEW h \in Handles, file[h] # NoFile, file[h].node \in MemFiles,
           NEW bytes \in Seq(Bytes), memfs_write(h, bytes)
    PROVE  FileInv'
<1>. DEFINE f   == file[h].node
            at  == file[h].offset
            end == (at + Len(bytes)) % WRAP
            buf == IF end > capacity(f) THEN Grown(data[f], end) ELSE data[f]
<1>0. file[h] \in Open /\ WRAP \in Nat /\ MaxSize \in 0..WRAP - 1 /\ WRAP > 0
  BY SMTT(30), FileAssumption DEF FileInv
<1>1. at \in 0..WRAP - 1 /\ f \in MemFiles /\ Agrees(data[f], written[f])
  BY <1>0 DEF FileInv, Open
<1>2. /\ at \in Nat /\ capacity(f) \in Nat /\ capacity(f) <= MaxSize
      /\ data[f] \in Seq(Cell) /\ written[f] \in Seq(Cell)
  BY SMTT(30), <1>0, <1>1 DEF Agrees, capacity
<1>3. end \in 0..WRAP - 1
  <2>1. at + Len(bytes) \in Nat /\ WRAP \in Nat \ {0}
    BY SMTT(30), <1>0, <1>2
  <2>. QED
    BY <2>1, DivMod
<1>4. CASE got' = NoFile /\ UNCHANGED <<data, file, refs, written, filestate>>
  BY <1>4 DEF FileInv, ReadRight, Users
<1>5. CASE end <= MaxSize /\ Stored(h, buf, at, end, bytes)
  <2>1. /\ file' = [file EXCEPT ![h].offset = end] /\ got' = NoFile /\ refs' = refs
    BY <1>5 DEF Stored
  <2>2. /\ file' \in [Handles -> {NoFile} \cup Open] /\ refs' \in [Devices -> Int]
        /\ \A d \in Devices : refs'[d] = Cardinality(Users(d))'
    BY <1>3, <2>1, MoveStep
  <2>3. CASE at + Len(bytes) <= Len(buf)
    <3>. DEFINE new == Put(buf, at, bytes)
                hist == Put([k \in 1..Len(buf) |->
                            IF k <= Len(written[f]) THEN written[f][k] ELSE Garbage], at, bytes)
    <3>1. data' = [data EXCEPT ![f] = new] /\ written' = [written EXCEPT ![f] = hist]
      BY <1>1, <1>5, <2>3 DEF Stored
    <3>2. Agrees(new, hist)
      <4>1. CASE end > capacity(f)
        <5>1. buf = Grown(data[f], end) /\ end > Len(data[f]) /\ end \in Nat
          BY SMTT(30), <1>3, <4>1 DEF capacity
        <5>. HIDE DEF buf, end, at, f
        <5>. QED
          BY <1>1, <1>2, <1>5, <2>3, <5>1, PutAgrees
      <4>2. CASE ~(end > capacity(f))
        <5>1. buf = data[f] /\ Len(data[f]) \in Nat
          BY <1>2, <4>2 DEF capacity
        <5>. HIDE DEF buf, end, at, f
        <5>. QED
          BY <1>1, <1>2, <2>3, <5>1, PutAgrees
      <4>. QED
        BY <4>1, <4>2
    <3>3. new \in Seq(Cell) /\ hist \in Seq(Cell)
      BY <3>2 DEF Agrees
    <3>. HIDE DEF new, hist, buf, end, at, f
    <3>. QED
      BY <1>1, <2>1, <2>2, <3>1, <3>2, <3>3 DEF FileInv, ReadRight
  <2>4. CASE ~(at + Len(bytes) <= Len(buf))
    <3>1. UNCHANGED <<data, written>>
      BY <1>5, <2>4 DEF Stored
    <3>. QED
      BY <2>1, <2>2, <3>1 DEF FileInv, ReadRight
  <2>. QED
    BY <2>3, <2>4
<1>. QED
  BY <1>4, <1>5 DEF memfs_write

\* A seek moves the handle.
LEMMA SeekStep ==
    ASSUME FileInv, NEW h \in Handles, file[h] # NoFile, file[h].node \in MemFiles,
           NEW by \in Seeks, memfs_seek(h, by)
    PROVE  FileInv'
<1>0. file[h] \in Open /\ by \in Int /\ WRAP \in Nat /\ WRAP > 0
  BY SMTT(30), FileAssumption DEF FileInv
<1>1. PICK from \in {0, file[h].offset, capacity(file[h].node)} :
          file' = [file EXCEPT ![h].offset = (from + by) % WRAP]
  BY DEF memfs_seek
<1>2. from \in Int
  BY SMTT(30), <1>0 DEF FileInv, Open, capacity
<1>3. (from + by) % WRAP \in 0..WRAP - 1
  BY SMTT(30), <1>0, <1>2
<1>4. refs' = refs /\ got' = NoFile /\ UNCHANGED <<data, written>>
  BY DEF memfs_seek
<1>5. /\ file' \in [Handles -> {NoFile} \cup Open] /\ refs' \in [Devices -> Int]
      /\ \A d \in Devices : refs'[d] = Cardinality(Users(d))'
  BY <1>1, <1>3, <1>4, MoveStep
<1>. QED
  BY <1>4, <1>5 DEF FileInv, ReadRight

\* Every step keeps the invariant.
LEMMA FileStep == ASSUME FileInv, [FileNext]_fileVars PROVE FileInv'
<1>1. CASE UNCHANGED fileVars
  BY <1>1 DEF fileVars, FileInv, ReadRight, Users
<1>2. ASSUME NEW h \in Handles, NEW n \in MemFiles \cup Devices, vfs_open(h, n) PROVE FileInv'
  BY <1>2, OpenStep DEF Nodes
<1>3. ASSUME NEW h \in Handles, vfs_close(h) PROVE FileInv'
  BY <1>3, CloseStep
<1>4. ASSUME NEW h \in Handles, NEW op, Operate(h, op) PROVE FileInv'
  <2>1. file[h] # NoFile /\ file[h].node \in Nodes
    BY <1>4 DEF Operate, FileInv, Open
  <2>2. CASE got' = NoFile /\ UNCHANGED <<data, file, refs, written, filestate>>
    BY <2>2 DEF FileInv, ReadRight, Users
  <2>3. ASSUME file[h].node \in MemFiles, NEW n \in Lengths, memfs_read(h, n) PROVE FileInv'
    BY <2>1, <2>3, ReadStep
  <2>4. ASSUME file[h].node \in MemFiles, NEW n \in Lengths, NEW b \in Bytes, memfs_write(h, [k \in 1..n |-> b])
        PROVE  FileInv'
    <3>1. [k \in 1..n |-> b] \in Seq(Bytes)
      BY SMTT(30), FileAssumption
    <3>. QED
      BY <2>1, <2>4, <3>1, WriteStep
  <2>5. ASSUME file[h].node \in MemFiles, NEW by \in Seeks, memfs_seek(h, by) PROVE FileInv'
    BY <2>1, <2>5, SeekStep
  <2>. QED
    BY <1>4, <2>1, <2>2, <2>3, <2>4, <2>5 DEF Operate, Nodes
<1>. QED
  BY <1>1, <1>2, <1>3, <1>4 DEF FileNext

\* A read through any handle gives the bytes last written there through any
\* other, for any handles, files, lengths and width of an offset; and a device's
\* reference count is the number of handles open on it.
THEOREM ReadsWhatWasWritten == FileSpec => []ReadsBack
<1>1. FileInv => ReadsBack
  BY DEF FileInv, ReadRight, ReadsBack, Users
<1>. QED
  BY <1>1, FileInvInit, FileStep, PTL DEF FileSpec

-----------------------------------------------------------------------------

(* ---------------------------- the terminal ----------------------------- *)

\* Characters of a cell, cells, and states of the terminal with its reference.
Glyphs == Chars \cup {Blank}
Cells == [char : Glyphs, color : {"dark", "light"}]
Screens == [row : Rows, col : Cols, buf : [Rows -> [Cols -> Cells]],
            page : [0..MaxRows -> [Cols -> Glyphs]], top : Nat]
\* Within the bound on lines.
Fits(t) == t.top + TERM_HEIGH <= MaxRows
\* The buffer shows the lines from top on.
Shows(t, color) == \A y \in Rows, x \in Cols : t.buf[y][x] = vga_entry(t.page[t.top + y][x], color)
\* Nothing has been written below the screen yet.
BlankBelow(t) == \A r \in t.top + TERM_HEIGH..MaxRows, x \in Cols : t.page[r][x] = Blank
\* What every function of the terminal keeps.
Good(t) == t \in Screens /\ (Fits(t) => Shows(t, g_cur_color) /\ BlankBelow(t))
Colored == g_cur_color \in {"dark", "light"}

\* terminal_putentryat writes to the screen and the page alike.
LEMMA PutGood ==
    ASSUME Colored, NEW t, Good(t), NEW c \in Glyphs, NEW x \in Cols, NEW y \in Rows
    PROVE  LET p == terminal_putentryat(t, c, x, y)
           IN  Good(p) /\ p.row = t.row /\ p.col = t.col /\ p.top = t.top
<1>. DEFINE p == terminal_putentryat(t, c, x, y)
            e == vga_entry(c, g_cur_color)
            k == t.top + y
            nb == [t.buf EXCEPT ![y] = [t.buf[y] EXCEPT ![x] = e]]
            np == [t.page EXCEPT ![k] = [t.page[k] EXCEPT ![x] = c]]
<1>0. /\ t \in Screens /\ e \in Cells
      /\ t.buf \in [Rows -> [Cols -> Cells]] /\ t.page \in [0..MaxRows -> [Cols -> Glyphs]]
      /\ t.top \in Nat /\ t.row \in Rows /\ t.col \in Cols
  BY DEF Good, Screens, Cells, vga_entry, Colored
<1>1. p = [t EXCEPT !.buf = nb, !.page = np]
  BY <1>0 DEF terminal_putentryat, Screens
<1>2. /\ nb \in [Rows -> [Cols -> Cells]]
      /\ \A i \in Rows, j \in Cols : nb[i][j] = IF i = y /\ j = x THEN e ELSE t.buf[i][j]
  BY <1>0
<1>3. /\ np \in [0..MaxRows -> [Cols -> Glyphs]]
      /\ \A i \in 0..MaxRows, j \in Cols : np[i][j] = IF i = k /\ j = x THEN c ELSE t.page[i][j]
  <2>1. \A i \in 0..MaxRows : np[i] = IF i = k THEN [t.page[k] EXCEPT ![x] = c] ELSE t.page[i]
    BY <1>0
  <2>. QED
    BY <1>0, <2>1
<1>. HIDE DEF nb, np
<1>4. p = [row |-> t.row, col |-> t.col, buf |-> nb, page |-> np, top |-> t.top]
  BY <1>0, <1>1 DEF Screens
<1>. HIDE DEF p
<1>5. p \in Screens /\ p.row = t.row /\ p.col = t.col /\ p.top = t.top /\ p.buf = nb /\ p.page = np
  BY <1>0, <1>2, <1>3, <1>4 DEF Screens
<1>6. ASSUME Fits(t) PROVE Shows(p, g_cur_color) /\ BlankBelow(p)
  <2>0. Shows(t, g_cur_color) /\ BlankBelow(t)
    BY <1>6 DEF Good
  <2>1. ASSUME NEW i \in Rows, NEW j \in Cols PROVE nb[i][j] = vga_entry(np[t.top + i][j], g_cur_color)
    <3>1. t.top + i \in 0..MaxRows /\ (t.top + i = k <=> i = y)
      BY SMTT(30), <1>0, <1>6, TermAssumption DEF Fits, Rows
    <3>. QED
      BY SMTT(30), <1>2, <1>3, <2>0, <3>1 DEF Shows
  <2>2. ASSUME NEW r \in t.top + TERM_HEIGH..MaxRows, NEW j \in Cols PROVE np[r][j] = Blank
    <3>1. r \in 0..MaxRows /\ r # k
      BY SMTT(30), <1>0, TermAssumption DEF Rows
    <3>. QED
      BY <1>3, <2>0, <3>1 DEF BlankBelow
  <2>. QED
    BY <1>5, <2>1, <2>2 DEF Shows, BlankBelow
<1>. QED
  BY <1>5, <1>6 DEF Good, Fits, p

\* Moving the cursor changes nothing.
LEMMA MoveGood ==
    ASSUME NEW t, Good(t), NEW u \in Screens, u.buf = t.buf, u.page = t.page, u.top = t.top
    PROVE  Good(u)
BY DEF Good, Fits, Shows, BlankBelow

\* A line feed scrolls if it has to: the line that comes up is blank.
LEMMA LineFeedGood ==
    ASSUME Colored, NEW t, Good(t)
    PROVE  Good(LineFeed(t))
<1>. DEFINE down == [t EXCEPT !.col = 0, !.row = t.row + 1]
            nb == [y \in Rows |-> IF y < TERM_HEIGH - 1 THEN t.buf[y + 1]
                                      ELSE [x \in Cols |-> vga_entry(Blank, g_cur_color)]]
<1>. USE TermAssumption
<1>0. /\ t \in Screens
      /\ t.buf \in [Rows -> [Cols -> Cells]] /\ t.page \in [0..MaxRows -> [Cols -> Glyphs]]
      /\ t.top \in Nat /\ t.row \in Rows /\ t.col \in Cols /\ 0 \in Cols
  BY SMTT(30) DEF Good, Screens, Cols
<1>1. /\ down \in [row : Int, col : Cols, buf : [Rows -> [Cols -> Cells]],
                   page : [0..MaxRows -> [Cols -> Glyphs]], top : Nat]
      /\ down.row = t.row + 1 /\ down.col = 0 /\ down.buf = t.buf /\ down.page = t.page /\ down.top = t.top
  <2>1. t \in [row : Int, col : Cols, buf : [Rows -> [Cols -> Cells]],
               page : [0..MaxRows -> [Cols -> Glyphs]], top : Nat] /\ t.row + 1 \in Int
    BY SMTT(30), <1>0 DEF Screens, Rows
  <2>. QED
    BY <1>0, <2>1
<1>2. LineFeed(t) = IF down.row = TERM_HEIGH THEN terminal_scroll(down) ELSE down
  BY DEF LineFeed
<1>. HIDE DEF down
<1>3. CASE t.row + 1 # TERM_HEIGH
  <2>1. t.row + 1 \in Rows
    <3>1. \A h \in Nat : \A r \in 0..h - 1 : r + 1 # h => r + 1 \in 0..h - 1
      BY SMTT(30)
    <3>2. TERM_HEIGH \in Nat /\ t.row \in 0..TERM_HEIGH - 1
      BY <1>0 DEF Rows, TermAssumption
    <3>. QED
      BY <1>3, <3>1, <3>2 DEF Rows
  <2>2. Good(down)
    BY <1>1, <2>1, MoveGood DEF Screens
  <2>. QED
    BY <1>1, <1>2, <1>3, <2>2
<1>4. CASE t.row + 1 = TERM_HEIGH
  <2>. DEFINE u == terminal_scroll(down)
  <2>1. u = [down EXCEPT !.buf = nb, !.col = 0, !.row = TERM_HEIGH - 1, !.top = t.top + 1]
    BY <1>1 DEF terminal_scroll
  <2>2. LineFeed(t) = u
    BY <1>1, <1>2, <1>4
  <2>3. /\ nb \in [Rows -> [Cols -> Cells]]
        /\ \A y \in Rows, x \in Cols :
              nb[y][x] = IF y < TERM_HEIGH - 1 THEN t.buf[y + 1][x] ELSE vga_entry(Blank, g_cur_color)
    <3>1. \A y \in Rows : y < TERM_HEIGH - 1 => y + 1 \in Rows
      BY SMTT(30) DEF Rows
    <3>2. vga_entry(Blank, g_cur_color) \in Cells
      BY DEF vga_entry, Cells, Glyphs, Colored
    <3>. QED
      BY <1>0, <3>1, <3>2
  <2>. HIDE DEF nb
  <2>4. u \in Screens /\ u.buf = nb /\ u.page = t.page /\ u.top = t.top + 1
    <3>1. TERM_HEIGH - 1 \in Rows /\ t.top + 1 \in Nat
      BY SMTT(30), <1>0 DEF Rows
    <3>. HIDE DEF u
    <3>. QED
      BY <1>0, <1>1, <2>1, <2>3, <3>1 DEF Screens
  <2>. HIDE DEF u
  <2>5. ASSUME Fits(u) PROVE Shows(u, g_cur_color) /\ BlankBelow(u)
    <3>0. Fits(t) /\ t.top + 1 + TERM_HEIGH <= MaxRows
      BY SMTT(30), <1>0, <2>4, <2>5 DEF Fits
    <3>1. Shows(t, g_cur_color) /\ BlankBelow(t)
      BY <3>0 DEF Good
    <3>2. ASSUME NEW y \in Rows, NEW x \in Cols
          PROVE  nb[y][x] = vga_entry(t.page[t.top + 1 + y][x], g_cur_color)
      <4>1. CASE y < TERM_HEIGH - 1
        <5>1. y + 1 \in Rows
          BY SMTT(30), <4>1 DEF Rows
        <5>3. t.top + (y + 1) = t.top + 1 + y
          <6>1. y \in Int /\ t.top \in Int
            BY SMTT(30), <1>0 DEF Rows
          <6>. QED
            BY SMTT(30), <6>1
        <5>2. t.buf[y + 1][x] = vga_entry(t.page[t.top + (y + 1)][x], g_cur_color)
          BY <3>1, <5>1 DEF Shows
        <5>. QED
          BY <2>3, <4>1, <5>1, <5>2, <5>3
      <4>2. CASE ~(y < TERM_HEIGH - 1)
        <5>0. y = TERM_HEIGH - 1
          BY SMTT(30), <4>2 DEF Rows
        <5>1. t.top + 1 + y = t.top + TERM_HEIGH /\ t.top + TERM_HEIGH \in t.top + TERM_HEIGH..MaxRows
          <6>1. \A a, h, m \in Nat : a + 1 + h <= m => a + 1 + (h - 1) = a + h /\ a + h \in a + h..m
            BY SMTT(30)
          <6>2. t.top \in Nat /\ TERM_HEIGH \in Nat /\ MaxRows \in Nat
            BY <1>0 DEF TermAssumption
          <6>. QED
            BY <3>0, <5>0, <6>1, <6>2
        <5>2. t.page[t.top + TERM_HEIGH][x] = Blank
          BY <3>1, <5>1 DEF BlankBelow
        <5>. QED
          BY <2>3, <4>2, <5>1, <5>2
      <4>. QED
        BY <4>1, <4>2
    <3>3. ASSUME NEW r \in t.top + 1 + TERM_HEIGH..MaxRows, NEW x \in Cols PROVE t.page[r][x] = Blank
      <4>1. r \in t.top + TERM_HEIGH..MaxRows
        BY SMTT(30), <1>0
      <4>. QED
        BY <3>1, <4>1 DEF BlankBelow
    <3>. QED
      BY <2>4, <3>2, <3>3 DEF Shows, BlankBelow
  <2>. QED
    BY <2>2, <2>4, <2>5 DEF Good
<1>. QED
  BY <1>3, <1>4

\* Backspace erases a character, or goes to the line before.
LEMMA BackspaceGood == ASSUME Colored, NEW t, Good(t) PROVE Good(Backspace(t))
<1>. USE TermAssumption
<1>0. t \in Screens /\ t.row \in Rows /\ t.col \in Cols
  BY DEF Good, Screens
<1>1. CASE t.col # 0
  <2>. DEFINE u == [t EXCEPT !.col = t.col - 1]
  <2>1. t.col - 1 \in Cols
    BY SMTT(30), <1>0, <1>1 DEF Cols
  <2>2. u \in Screens /\ u.buf = t.buf /\ u.page = t.page /\ u.top = t.top
    BY <1>0, <2>1 DEF Screens
  <2>3. Good(u)
    BY <2>2, MoveGood
  <2>4. Backspace(t) = terminal_putentryat(u, Blank, t.col - 1, t.row)
    BY <1>1 DEF Backspace
  <2>. HIDE DEF u
  <2>5. Blank \in Glyphs
    BY DEF Glyphs
  <2>6. Good(terminal_putentryat(u, Blank, t.col - 1, t.row))
    BY <1>0, <2>1, <2>3, <2>5, PutGood
  <2>. QED
    BY <2>4, <2>6
<1>2. CASE t.col = 0 /\ t.row = 0
  BY <1>2 DEF Backspace
<1>3. CASE t.col = 0 /\ t.row # 0
  <2>. DEFINE u == [t EXCEPT !.row = t.row - 1, !.col = TERM_WIDTH - 1]
  <2>1. t.row - 1 \in Rows /\ TERM_WIDTH - 1 \in Cols
    BY SMTT(30), <1>0, <1>3 DEF Rows, Cols
  <2>2. u \in Screens /\ u.buf = t.buf /\ u.page = t.page /\ u.top = t.top
    BY <1>0, <2>1 DEF Screens
  <2>3. Good(u)
    BY <2>2, MoveGood
  <2>. QED
    BY <1>3, <2>3 DEF Backspace
<1>. QED
  BY <1>1, <1>2, <1>3

\* A printable character may wrap the line.
LEMMA PrintableGood ==
    ASSUME Colored, NEW t, Good(t), NEW c \in Glyphs
    PROVE  Good(Printable(t, c))
<1>. USE TermAssumption
<1>. DEFINE put == terminal_putentryat(t, c, t.col, t.row)
<1>0. t \in Screens /\ t.row \in Rows /\ t.col \in Cols
  BY DEF Good, Screens
<1>1. Good(put) /\ put.col = t.col
  BY <1>0, PutGood
<1>2. Printable(t, c) = IF t.col + 1 = TERM_WIDTH THEN LineFeed(put) ELSE [put EXCEPT !.col = put.col + 1]
  BY DEF Printable
<1>. HIDE DEF put
<1>3. CASE t.col + 1 = TERM_WIDTH
  BY <1>1, <1>2, <1>3, LineFeedGood
<1>4. CASE t.col + 1 # TERM_WIDTH
  <2>. DEFINE u == [put EXCEPT !.col = put.col + 1]
  <2>1. put.col + 1 \in Cols
    BY SMTT(30), <1>0, <1>1, <1>4 DEF Cols
  <2>2. u \in Screens /\ u.buf = put.buf /\ u.page = put.page /\ u.top = put.top
    BY <1>1, <2>1 DEF Screens, Good
  <2>3. Good(u)
    BY <1>1, <2>2, MoveGood
  <2>. QED
    BY <1>2, <1>4, <2>3
<1>. QED
  BY <1>3, <1>4

\* A tab is a number of blanks: the recursion has a solution, by induction, and
\* every stage of it is a good terminal.
LEMMA TabGood == ASSUME Colored, Good(Screen) PROVE Good(Tab[TAB_WIDTH])
<1>. DEFINE Body(g, n) == IF n = 0 THEN Screen ELSE Printable(g[n - 1], Blank)
            Solves(g, w) == g = [n \in 0..w |-> Body(g, n)]
            Bad == {w \in Nat : ~\E g : Solves(g, w)}
<1>0. TAB_WIDTH \in Nat
  BY TermAssumption
<1>1. Tab = CHOOSE g : Solves(g, TAB_WIDTH)
  BY DEF Tab
<1>2. Bad = {}
  <2>1. SUFFICES ASSUME Bad # {} PROVE FALSE
    OBVIOUS
  <2>2. PICK w \in Bad : \A m \in Bad : w <= m
    <3>1. Bad \subseteq Nat
      OBVIOUS
    <3>. QED
      BY <2>1, <3>1, NatMin
  <2>3. w # 0
    <3>1. Solves([n \in 0..0 |-> Screen], 0)
      BY SMTT(30)
    <3>. QED
      BY <2>2, <3>1
  <2>4. w - 1 \in Nat /\ w - 1 \notin Bad
    BY SMTT(30), <2>2, <2>3
  <2>5. PICK g : Solves(g, w - 1)
    BY <2>4
  <2>. DEFINE h == [n \in 0..w |-> IF n = w THEN Printable(g[w - 1], Blank) ELSE g[n]]
  <2>6. ASSUME NEW n \in 0..w PROVE h[n] = Body(h, n)
    <3>1. CASE n = w
      <4>1. h[w - 1] = g[w - 1] /\ h[w] = Printable(g[w - 1], Blank)
        BY SMTT(30), <2>2, <2>3, <2>4
      <4>. QED
        BY <2>3, <3>1, <4>1
    <3>2. CASE n # w
      <4>1. n \in 0..w - 1 /\ h[n] = g[n]
        BY SMTT(30), <2>2, <3>2
      <4>2. g[n] = Body(g, n)
        BY <2>5, <4>1
      <4>3. n # 0 => n - 1 \in 0..w /\ n - 1 # w /\ h[n - 1] = g[n - 1]
        BY SMTT(30), <2>2, <4>1
      <4>. QED
        BY <4>1, <4>2, <4>3
    <3>. QED
      BY <3>1, <3>2
  <2>7. Solves(h, w)
    BY <2>6
  <2>. QED
    BY <2>2, <2>7
<1>3. PICK g : Solves(g, TAB_WIDTH) /\ Tab = g
  BY <1>0, <1>1, <1>2
<1>. DEFINE Wrong == {n \in 0..TAB_WIDTH : ~Good(g[n])}
<1>4. Wrong = {}
  <2>1. SUFFICES ASSUME Wrong # {} PROVE FALSE
    OBVIOUS
  <2>2. PICK n \in Wrong : \A m \in Wrong : n <= m
    <3>1. Wrong \subseteq Nat
      BY SMTT(30)
    <3>. QED
      BY <2>1, <3>1, NatMin
  <2>3. g[n] = Body(g, n)
    BY <1>3
  <2>4. n # 0
    BY <2>2, <2>3
  <2>5. Good(g[n - 1])
    BY SMTT(30), <1>0, <2>2, <2>4
  <2>6. Good(Printable(g[n - 1], Blank))
    BY <2>5, PrintableGood DEF Glyphs
  <2>. QED
    BY <2>2, <2>3, <2>4, <2>6
<1>. QED
  BY SMTT(30), <1>0, <1>3, <1>4

\* The inductive invariant.
TermInv == Colored /\ Fits(Screen) /\ Good(Screen)

\* It holds on a blank screen.
LEMMA TermInvInit == TermInit => TermInv
<1>. SUFFICES ASSUME TermInit PROVE TermInv
  OBVIOUS
<1>. USE TermAssumption
<1>1. Screen.row = 0 /\ Screen.col = 0 /\ Screen.top = 0 /\ Screen.buf = g_buf /\ Screen.page = page
  BY DEF TermInit, Screen
<1>2. \A y \in Rows, x \in Cols : g_buf[y][x] = vga_entry(Blank, "dark")
  BY DEF TermInit
<1>3. \A y \in 0..MaxRows, x \in Cols : page[y][x] = Blank
  BY DEF TermInit
<1>4. g_buf \in [Rows -> [Cols -> Cells]] /\ page \in [0..MaxRows -> [Cols -> Glyphs]]
  BY DEF TermInit, Cells, Glyphs, vga_entry
<1>5. Screen \in Screens
  <2>1. 0 \in Rows /\ 0 \in Cols /\ 0 \in Nat
    BY SMTT(30) DEF Rows, Cols
  <2>. QED
    BY <1>4, <2>1 DEF Screen, Screens, TermInit
<1>6. Shows(Screen, g_cur_color)
  <2>1. \A y \in Rows : 0 + y \in 0..MaxRows
    BY SMTT(30) DEF Rows
  <2>. QED
    BY SMTT(30), <1>1, <1>2, <1>3, <2>1 DEF Shows, TermInit
<1>7. BlankBelow(Screen)
  <2>1. \A r \in 0 + TERM_HEIGH..MaxRows : r \in 0..MaxRows
    BY SMTT(30)
  <2>. QED
    BY <1>1, <1>3, <2>1 DEF BlankBelow
<1>. QED
  BY SMTT(30), <1>1, <1>5, <1>6, <1>7 DEF TermInv, Good, Colored, Fits, TermInit

\* terminal_putchar keeps it, for every kind of character.
LEMMA PutcharStep ==
    ASSUME TermInv, NEW c \in Chars \cup {Blank, "\n", "\r", "\t", "BS"}, terminal_putchar(c)
    PROVE  TermInv'
<1>. DEFINE t == CASE c = "\n" -> LineFeed(Screen)
                   [] c = "\r" -> [Screen EXCEPT !.col = 0]
                   [] c = "\t" -> Tab[TAB_WIDTH]
                   [] c = "BS" -> Backspace(Screen)
                   [] OTHER -> Printable(Screen, c)
<1>0. /\ t.top + TERM_HEIGH <= MaxRows
      /\ g_row' = t.row /\ g_col' = t.col /\ g_buf' = t.buf
      /\ page' = t.page /\ top' = t.top /\ g_cur_color' = g_cur_color
  BY DEF terminal_putchar
<1>1. Good(t)
  <2>0. Colored /\ Good(Screen)
    BY DEF TermInv
  <2>1. CASE c = "\n"
    BY <2>0, <2>1, LineFeedGood
  <2>2. CASE c = "\r"
    <3>. DEFINE u == [Screen EXCEPT !.col = 0]
    <3>1. 0 \in Cols /\ Screen \in Screens
      BY SMTT(30), <2>0, TermAssumption DEF Cols, Good
    <3>2. u \in Screens /\ u.buf = Screen.buf /\ u.page = Screen.page /\ u.top = Screen.top
      BY <3>1 DEF Screens
    <3>3. Good(u)
      BY <2>0, <3>2, MoveGood
    <3>. QED
      BY <2>2, <3>3
  <2>3. CASE c = "\t"
    BY <2>0, <2>3, TabGood
  <2>4. CASE c = "BS"
    BY <2>0, <2>4, BackspaceGood
  <2>5. CASE c \notin {"\n", "\r", "\t", "BS"}
    <3>1. c \in Glyphs /\ t = Printable(Screen, c)
      BY <2>5 DEF Glyphs
    <3>. QED
      BY <2>0, <3>1, PrintableGood
  <2>. QED
    BY <2>1, <2>2, <2>3, <2>4, <2>5
<1>. HIDE DEF t
<1>2. /\ t.row \in Rows /\ t.col \in Cols /\ t.buf \in [Rows -> [Cols -> Cells]]
      /\ t.page \in [0..MaxRows -> [Cols -> Glyphs]] /\ t.top \in Nat
      /\ Shows(t, g_cur_color) /\ BlankBelow(t)
  BY <1>0, <1>1 DEF Good, Screens, Fits
<1>3. Screen' = [row |-> t.row, col |-> t.col, buf |-> t.buf, page |-> t.page, top |-> t.top]
  BY <1>0 DEF Screen
<1>4. Screen' \in Screens /\ Screen'.buf = t.buf /\ Screen'.page = t.page /\ Screen'.top = t.top
  BY <1>2, <1>3 DEF Screens
<1>5. Shows(Screen, g_cur_color)' /\ BlankBelow(Screen)' /\ Fits(Screen)'
  BY <1>0, <1>2, <1>4 DEF Shows, BlankBelow, Fits
<1>6. Colored'
  BY <1>0 DEF TermInv, Colored
<1>. QED
  BY <1>4, <1>5, <1>6 DEF TermInv, Good, Screens, Rows, Cols, Cells, Glyphs

\* A change of colour reaches every cell.
LEMMA ToggleStep == ASSUME TermInv, toggle_dark_mode PROVE TermInv'
<1>0. /\ Screen \in Screens /\ Shows(Screen, g_cur_color) /\ BlankBelow(Screen) /\ Fits(Screen)
      /\ Screen.row = g_row /\ Screen.col = g_col /\ Screen.buf = g_buf
      /\ Screen.page = page /\ Screen.top = top
  BY DEF TermInv, Good, Screen
<1>1. /\ g_row \in Rows /\ g_col \in Cols /\ g_buf \in [Rows -> [Cols -> Cells]]
      /\ page \in [0..MaxRows -> [Cols -> Glyphs]] /\ top \in Nat
  BY <1>0 DEF Screens
<1>2. Colored' /\ g_cur_color' \in {"dark", "light"}
  BY DEF toggle_dark_mode, Colored
<1>3. \A y \in Rows, x \in Cols : g_buf[y][x] = vga_entry(page[top + y][x], g_cur_color)
  BY <1>0 DEF Shows
<1>4. /\ g_buf' \in [Rows -> [Cols -> Cells]]
      /\ \A y \in Rows, x \in Cols : g_buf'[y][x] = vga_entry(page[top + y][x], g_cur_color')
  <2>1. \A y \in Rows, x \in Cols : g_buf[y][x].char \in Glyphs /\ g_buf[y][x].char = page[top + y][x]
    <3>1. ASSUME NEW y \in Rows, NEW x \in Cols
          PROVE  g_buf[y][x].char \in Glyphs /\ g_buf[y][x].char = page[top + y][x]
      <4>1. g_buf[y][x] \in Cells /\ g_buf[y][x] = vga_entry(page[top + y][x], g_cur_color)
        BY <1>1, <1>3
      <4>. QED
        BY SMTT(30), <4>1 DEF Cells, vga_entry
    <3>. QED
      BY <3>1
  <2>2. \A y \in Rows, x \in Cols : g_buf'[y][x] = vga_entry(g_buf[y][x].char, g_cur_color')
    BY DEF toggle_dark_mode
  <2>3. \A y \in Rows, x \in Cols : vga_entry(g_buf[y][x].char, g_cur_color') \in Cells
    BY <1>2, <2>1 DEF vga_entry, Cells
  <2>4. g_buf' \in [Rows -> [Cols -> Cells]]
    BY <2>3 DEF toggle_dark_mode
  <2>. QED
    BY <2>1, <2>2, <2>4
<1>5. Screen' = [row |-> g_row, col |-> g_col, buf |-> g_buf', page |-> page, top |-> top]
  BY DEF Screen, toggle_dark_mode
<1>6. Screen' \in Screens /\ Screen'.buf = g_buf' /\ Screen'.page = page /\ Screen'.top = top
  BY <1>1, <1>4, <1>5 DEF Screens
<1>7. Shows(Screen, g_cur_color)' /\ BlankBelow(Screen)' /\ Fits(Screen)'
  BY SMTT(30), <1>0, <1>4, <1>6 DEF Shows, BlankBelow, Fits
<1>. QED
  BY <1>2, <1>6, <1>7 DEF TermInv, Good, Screens, Rows, Cols, Cells, Glyphs

\* Every step keeps it.
LEMMA TermStep == ASSUME TermInv, [TermNext]_termVars PROVE TermInv'
<1>1. CASE terminal_clear
  <2>1. TermInit'
    BY <1>1 DEF terminal_clear, TermInit
  <2>. QED
    BY <2>1, TermInvInit, PTL
<1>2. CASE UNCHANGED termVars
  BY <1>2 DEF termVars, TermInv, Good, Fits, Shows, BlankBelow, Colored, Screen
<1>. QED
  BY <1>1, <1>2, PutcharStep, ToggleStep DEF TermNext

\* For any width and height, any tab width and however many lines: the cursor is
\* on the screen, and the screen shows the last lines written in the current
\* colour, whatever mixture of wrapping, scrolling, tabs, erasing, clearing and
\* changes of colour came before.
THEOREM ScreenShowsTail == TermSpec => []ShowsTail
<1>1. TermInv => ShowsTail
  BY DEF TermInv, Good, Screens, Screen, Shows, ShowsTail
<1>. QED
  BY <1>1, TermInvInit, TermStep, PTL DEF TermSpec
=============================================================================
