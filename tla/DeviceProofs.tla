----------------------------- MODULE DeviceProofs -----------------------------
(***************************************************************************)
(* Theorems about the code that drives the devices: Ide, for any width of  *)
(* the registers, any contents of the sectors and any number of calls, and *)
(* Shell, for any size of the screen, any length of lines and any number   *)
(* of keys.                                                                *)
(***************************************************************************)
EXTENDS Ide, Shell, FiniteSetTheorems, WellFoundedInduction, TLAPS

------------------------------------------------------------------------------
(* Sector numbers in registers *)

\* What \div and % are.
LEMMA DivMod ==
  ASSUME NEW x \in Int, NEW n \in Nat \ {0}
  PROVE  /\ x \div n \in Int /\ x % n \in 0 .. n - 1
         /\ x = n * (x \div n) + (x % n)
<1>1. x \div n \in Int /\ x % n \in 0 .. n - 1
  BY SMT
<1>2. x = n * (x \div n) + (x % n)
  BY SMT
<1> QED
  BY <1>1, <1>2

\* Products keep the order.
LEMMA ProductOrder ==
  ASSUME NEW n \in Nat, NEW x \in Int, NEW y \in Int, x <= y
  PROVE  n * x \in Int /\ n * y \in Int /\ n * x <= n * y
<1> DEFINE d == y - x
<1>1. d \in Nat /\ y = x + d
  OBVIOUS
<1> HIDE DEF d
<1>2. n * (x + d) = n * x + n * d
  BY <1>1
<1>3. n * d \in Nat /\ n * x \in Int
  BY <1>1
<1> QED
  BY <1>1, <1>2, <1>3

\* A low and a high part make a number.
LEMMA Digits ==
  ASSUME NEW m \in Nat \ {0}, NEW n \in Nat \ {0}, NEW r \in 0 .. m - 1, NEW h \in 0 .. n - 1
  PROVE  r + m * h \in 0 .. m * n - 1 /\ m * n \in Nat \ {0}
<1>1. m * 0 <= m * h /\ m * h <= m * (n - 1) /\ m * h \in Int
  BY ProductOrder
<1>2. m * 1 <= m * n /\ m * n \in Int
  BY ProductOrder
<1>3. m * (n - 1) = m * n - m
  OBVIOUS
<1> DEFINE y == m * h
           z == m * n
<1>4. y \in Int /\ z \in Int /\ 0 <= y /\ y <= z - m /\ m <= z
  BY <1>1, <1>2, <1>3
<1> HIDE DEF y, z
<1>5. r + y \in 0 .. z - 1 /\ z \in Nat \ {0}
  BY <1>4
<1> QED
  BY <1>5 DEF y, z

\* The high part is what is left of the low part, and not negative.
LEMMA High ==
  ASSUME NEW x \in Nat, NEW m \in Nat \ {0}
  PROVE  x \div m \in Nat
BY SMT

\* The two parts of a number.
LEMMA Parts ==
  ASSUME NEW x \in Nat, NEW m \in Nat \ {0}
  PROVE  /\ x \div m \in Nat /\ x % m \in 0 .. m - 1 /\ x % m \in Int
         /\ x = m * (x \div m) + (x % m)
<1>1. x \div m \in Nat
  BY High
<1>2. x % m \in 0 .. m - 1 /\ x = m * (x \div m) + (x % m)
  BY DivMod
<1>3. x % m \in Int
  BY <1>2
<1> QED
  BY <1>1, <1>2, <1>3

\* A number below a product has its high part below the second factor.
LEMMA HighBound ==
  ASSUME NEW m \in Nat \ {0}, NEW n \in Nat \ {0}, NEW x \in Nat, x < m * n
  PROVE  x \div m \in 0 .. n - 1
<1> DEFINE q == x \div m
           y == m * q
           z == m * n
<1>1. q \in Nat /\ x % m \in 0 .. m - 1 /\ x = y + (x % m)
  BY Parts
<1> HIDE DEF q
<1>2. y \in Int /\ z \in Int /\ (n <= q => z <= y)
  BY <1>1, ProductOrder
<1> HIDE DEF y
<1>3. x < z /\ x \in Nat
  OBVIOUS
<1> HIDE DEF z
<1>4. ~(n <= q)
  BY <1>1, <1>2, <1>3
<1>5. q \in 0 .. n - 1
  BY <1>1, <1>4
<1> QED
  BY <1>5 DEF q

\* What is in range is its own remainder.
LEMMA OwnRemainder ==
  ASSUME NEW n \in Nat \ {0}, NEW x \in 0 .. n - 1
  PROVE  x % n = x
BY SMT

\* A number has one quotient.
LEMMA DivUnique ==
  ASSUME NEW n \in Nat \ {0}, NEW q \in Int, NEW r \in 0 .. n - 1
  PROVE  (n * q + r) \div n = q
<1> DEFINE x == n * q + r
           p == x \div n
<1>1. x \in Int
  OBVIOUS
<1> HIDE DEF x
<1>2. p \in Int /\ x % n \in 0 .. n - 1 /\ x = n * p + (x % n)
  BY <1>1, DivMod
<1> HIDE DEF p
<1>3. PICK s \in 0 .. n - 1 : x = n * p + s
  BY <1>2
<1>4. p + 1 <= q => n * (p + 1) <= n * q
  BY <1>2, ProductOrder
<1>5. q + 1 <= p => n * (q + 1) <= n * p
  BY <1>2, ProductOrder
<1> DEFINE u == n * p
           v == n * q
<1>6. u \in Int /\ v \in Int /\ n * (p + 1) = u + n /\ n * (q + 1) = v + n
  BY <1>2
<1>7. (p + 1 <= q => u + n <= v) /\ (q + 1 <= p => v + n <= u)
  BY <1>4, <1>5, <1>6
<1>8. u + s = v + r
  BY <1>3 DEF x
<1> HIDE DEF u, v
<1>9. ~(p + 1 <= q) /\ ~(q + 1 <= p)
  BY <1>6, <1>7, <1>8
<1>10. p = q
  BY <1>2, <1>9
<1> QED
  BY <1>10 DEF p, x

\* Dividing twice is dividing by the product.
LEMMA DivTwice ==
  ASSUME NEW x \in Nat, NEW m \in Nat \ {0}, NEW n \in Nat \ {0}
  PROVE  x \div (m * n) = (x \div m) \div n
<1> DEFINE q == x \div m
           p == q \div n
           r == x % m
           t == q % n
<1>1. q \in Nat /\ r \in 0 .. m - 1 /\ x = m * q + r
  BY Parts
<1> HIDE DEF q, r
<1>2. p \in Int /\ t \in 0 .. n - 1 /\ q = n * p + t
  BY <1>1, DivMod
<1> HIDE DEF p, t
<1>3. r + m * t \in 0 .. m * n - 1 /\ m * n \in Nat \ {0}
  BY <1>1, <1>2, Digits
<1>4. x = (m * n) * p + (r + m * t)
  <2>1. m * (n * p + t) = (m * n) * p + m * t
    BY <1>2
  <2>2. m * t \in Int /\ (m * n) * p \in Int
    BY <1>2
  <2> QED
    BY <1>1, <1>2, <2>1, <2>2
<1> DEFINE k == m * n
           w == r + m * t
<1>5. k \in Nat \ {0} /\ w \in 0 .. k - 1 /\ x = k * p + w
  BY <1>3, <1>4
<1> HIDE DEF k, w
<1>6. x \div k = p
  BY <1>2, <1>5, DivUnique
<1> QED
  BY <1>6 DEF k, p, q


\* The drive finds the number the driver has split.
LEMMA JoinSplit ==
  ASSUME NEW s \in Sector
  PROVE  Join(Split(s)) = s
<1> DEFINE B == BYTE
           x == s \div B
           y == x \div B
           z == y \div B
<1>1. /\ B \in Nat \ {0} /\ NIBBLE \in Nat \ {0}
      /\ B * B \in Nat \ {0} /\ B * B * B \in Nat \ {0} /\ B * B * B * NIBBLE \in Nat \ {0}
  <2>1. \A m, n \in Nat \ {0} : m * n \in Nat \ {0}
    <3>1. \A n \in Nat \ {0} : 0 \in 0 .. n - 1
      OBVIOUS
    <3> QED
      BY <3>1, Digits
  <2>2. B \in Nat \ {0} /\ NIBBLE \in Nat \ {0}
    BY RegistersAssumption
  <2> HIDE DEF B
  <2>3. B * B \in Nat \ {0}
    BY <2>1, <2>2
  <2>4. B * B * B \in Nat \ {0}
    BY <2>1, <2>2, <2>3
  <2> QED
    BY <2>1, <2>2, <2>3, <2>4
<1>2. s \in Nat /\ s < B * B * B * NIBBLE
  <2> DEFINE K == B * B * B * NIBBLE
  <2>1. s \in 0 .. K - 1 /\ K \in Nat
    BY <1>1 DEF Sector
  <2> HIDE DEF K
  <2>2. s \in Nat /\ s < K
    BY <2>1
  <2> QED
    BY <2>2 DEF K
<1> HIDE DEF B
<1>3. x \in Nat /\ s % B \in Int /\ s = B * x + (s % B)
  BY <1>1, <1>2, Parts
<1>15. \A c \in Nat \ {0} : s \div (c * B) = (s \div c) \div B
  <2>1. B \in Nat \ {0} /\ s \in Nat
    BY RegistersAssumption, <1>2 DEF B
  <2> QED
    BY <2>1, DivTwice
<1>16. B \in Nat \ {0} /\ B * B \in Nat \ {0}
  BY <1>1, Zenon
<1>4. s \div (B * B) = y
  BY <1>15, <1>16, Zenon
<1>5. s \div (B * B * B) = z
  <2>1. s \div (B * B * B) = (s \div (B * B)) \div B
    BY <1>15, <1>16, Zenon
  <2> QED
    BY <1>4, <2>1, Zenon
<1> HIDE DEF x
<1>6. y \in Nat /\ x % B \in Int /\ x = B * y + (x % B)
  BY <1>1, <1>3, Parts
<1> HIDE DEF y
<1>7. z \in Nat /\ y % B \in Int /\ y = B * z + (y % B)
  BY <1>1, <1>6, Parts
<1>8. z \in 0 .. NIBBLE - 1
  <2>1. s \div (B * B * B) \in 0 .. NIBBLE - 1
    BY <1>1, <1>2, HighBound
  <2> QED
    BY <1>5, <2>1
<1> HIDE DEF z
<1>9. z % NIBBLE = z
  BY <1>1, <1>8, OwnRemainder
<1>10. Split(s) = << s % B, x % B, y % B, z >>
  BY <1>4, <1>5, <1>9 DEF Split, B, x
<1>11. Join(Split(s)) = (s % B) + B * ((x % B) + B * ((y % B) + B * z))
  BY <1>10 DEF Join, B
<1>12. (y % B) + B * z = y
  BY <1>1, <1>7
<1>13. (x % B) + B * y = x
  BY <1>1, <1>6
<1>14. (s % B) + B * x = s
  BY <1>1, <1>3
<1> QED
  BY <1>11, <1>12, <1>13, <1>14

\* What registers hold is the number of a sector.
Fits(r) == /\ r[1] \in 0 .. BYTE - 1 /\ r[2] \in 0 .. BYTE - 1
           /\ r[3] \in 0 .. BYTE - 1 /\ r[4] \in 0 .. NIBBLE - 1

LEMMA JoinFits ==
  ASSUME NEW r, Fits(r)
  PROVE  Join(r) \in Sector
<1> DEFINE B == BYTE
           N == NIBBLE
<1>1. B \in Nat \ {0} /\ N \in Nat \ {0}
  BY RegistersAssumption
<1>2. r[1] \in 0 .. B - 1 /\ r[2] \in 0 .. B - 1 /\ r[3] \in 0 .. B - 1 /\ r[4] \in 0 .. N - 1
  BY DEF Fits
<1>3. r[3] + B * r[4] \in 0 .. B * N - 1 /\ B * N \in Nat \ {0}
  BY <1>1, <1>2, Digits
<1>4. r[2] + B * (r[3] + B * r[4]) \in 0 .. B * (B * N) - 1 /\ B * (B * N) \in Nat \ {0}
  BY <1>1, <1>2, <1>3, Digits
<1>5. r[1] + B * (r[2] + B * (r[3] + B * r[4])) \in 0 .. B * (B * (B * N)) - 1
  BY <1>1, <1>2, <1>4, Digits
<1>6. B * (B * (B * N)) = B * B * B * N
  BY <1>1
<1> QED
  BY <1>5, <1>6 DEF Join, Sector

LEMMA SplitFits ==
  ASSUME NEW s \in Sector
  PROVE  Fits(Split(s))
<1>1. \A x \in Int, n \in Nat \ {0} : x % n \in 0 .. n - 1
  BY DivMod
<1>3. BYTE \in Nat \ {0} /\ NIBBLE \in Nat \ {0}
  BY RegistersAssumption
<1> DEFINE P == BYTE * BYTE
           Q == BYTE * BYTE * BYTE
<1>4. P \in Nat \ {0} /\ Q \in Nat \ {0}
  <2>1. \A m, n \in Nat \ {0} : m * n \in Nat \ {0}
    <3>1. \A n \in Nat \ {0} : 0 \in 0 .. n - 1
      OBVIOUS
    <3> QED
      BY <3>1, Digits
  <2> QED
    BY <1>3, <2>1
<1>5. s \in Int
  BY DEF Sector
<1> HIDE DEF P, Q
<1>6. s \div BYTE \in Int /\ s \div P \in Int /\ s \div Q \in Int
  BY <1>3, <1>4, <1>5, DivMod
<1>7. /\ s % BYTE \in 0 .. BYTE - 1 /\ (s \div BYTE) % BYTE \in 0 .. BYTE - 1
      /\ (s \div P) % BYTE \in 0 .. BYTE - 1 /\ (s \div Q) % NIBBLE \in 0 .. NIBBLE - 1
  BY <1>1, <1>3, <1>5, <1>6
<1>8. Split(s) = << s % BYTE, (s \div BYTE) % BYTE, (s \div P) % BYTE, (s \div Q) % NIBBLE >>
  BY DEF Split, P, Q
<1> QED
  BY <1>7, <1>8 DEF Fits


------------------------------------------------------------------------------
(* Types *)

\* The request of a call under way.
Asked == /\ pc \in {"read", "status", "receive", "write", "send"} => req.block \in Block
         /\ pc \in {"write", "send"} => req.data \in Data

Typed == TypeOK /\ Asked

\* Every block is one sector.
LEMMA Blocks == Block = Sector /\ 0 \in Block /\ \A b \in Block : b * SEC_PER_BLK = b
<1>1. Sector \subseteq Int
  BY DEF Sector
<1>2. \A b \in Sector : b * SEC_PER_BLK = b
  BY <1>1 DEF SEC_PER_BLK
<1>3. Block = Sector
  BY <1>2 DEF Block
<1>4. Fits(<<0, 0, 0, 0>>)
  BY RegistersAssumption DEF Fits
<1>5. Join(<<0, 0, 0, 0>>) = 0
  BY RegistersAssumption DEF Join
<1>6. 0 \in Sector
  BY <1>4, <1>5, JoinFits
<1> QED
  BY <1>2, <1>3, <1>6

\* The registers keep their width, whatever the drive does with what is written.
LEMMA WriteFits ==
  ASSUME NEW s \in Sector, Fits(regs), Write(s)
  PROVE  Fits(regs)'
<1>1. Fits(regs')
  BY SplitFits DEF Write
<1> QED
  BY <1>1 DEF Fits

\* The command is for a sector.
LEMMA CommandTyped ==
  ASSUME TypeOK, NEW op \in {"identify", "read", "write"}, Command(op)
  PROVE  /\ drive' \in {"idle", "busy", "drq", "error"}
         /\ cmd' \in [op : {"none", "identify", "read", "write", "store"}, lba : Sector]
<1>1. Join(regs) \in Sector
  BY JoinFits DEF TypeOK, Fits
<1> QED
  BY <1>1 DEF TypeOK, Command

LEMMA InitTyped == Init => Typed
<1> SUFFICES ASSUME Init PROVE Typed
  OBVIOUS
<1>1. SomeData \in Data
  BY DataAssumption DEF SomeData
<1>2. 0 \in Sector
  BY Blocks
<1>3. regs[1] = 0 /\ regs[2] = 0 /\ regs[3] = 0 /\ regs[4] = 0
  BY DEF Init
<1>4. 0 \in 0 .. BYTE - 1 /\ 0 \in 0 .. NIBBLE - 1 /\ 0 \in 0 .. MaxCalls
  BY RegistersAssumption, CallsAssumption
<1> QED
  BY <1>1, <1>2, <1>3, <1>4 DEF Init, Typed, TypeOK, Asked

LEMMA NextTyped ==
  ASSUME Typed, [Next]_vars
  PROVE  Typed'
<1>1. TypeOK /\ Asked
  BY DEF Typed
<1>2. Fits(regs)
  BY <1>1 DEF TypeOK, Fits
<1>3. CASE InitProgram
  <2>1. Fits(regs)'
    BY <1>2, <1>3, Blocks, WriteFits DEF InitProgram
  <2> QED
    BY <1>1, <1>3, <2>1 DEF InitProgram, Typed, TypeOK, Asked, Fits
<1>4. CASE InitIdentify \/ ReadCommand \/ WriteCommand
  <2>1. /\ drive' \in {"idle", "busy", "drq", "error"}
        /\ cmd' \in [op : {"none", "identify", "read", "write", "store"}, lba : Sector]
    BY <1>1, <1>4, CommandTyped DEF InitIdentify, ReadCommand, WriteCommand
  <2> QED
    BY <1>1, <1>4, <2>1 DEF InitIdentify, ReadCommand, WriteCommand, Typed, TypeOK, Asked
<1>5. CASE InitDone
  BY <1>1, <1>5 DEF InitDone, Typed, TypeOK, Asked
<1>6. ASSUME NEW b \in Block, NEW r, NEW p, Call(r, p), r.block = b,
             \/ p = "read" /\ r \in [block : Block]
             \/ p = "write" /\ r \in [block : Block, data : Data]
      PROVE  Typed'
  <2>1. Fits(regs)'
    <3>1. b * SEC_PER_BLK \in Sector
      BY Blocks
    <3> QED
      BY <1>2, <1>6, <3>1, WriteFits DEF Call
  <2>2. calls' \in 0 .. MaxCalls
    BY <1>1, <1>6, CallsAssumption DEF Call, TypeOK
  <2>3. req' = r /\ pc' = p /\ UNCHANGED <<drive, cmd, buf, media, got, wrote>>
    BY <1>6 DEF Call
  <2> QED
    BY <1>1, <1>6, <2>1, <2>2, <2>3 DEF Typed, TypeOK, Asked, Fits
<1>7. CASE hardReadWait
  <2>1. PICK b \in Block : Call([block |-> b], "read")
    BY <1>7 DEF hardReadWait
  <2> QED
    BY <1>6, <2>1
<1>8. CASE hardWrite
  <2>1. PICK b \in Block, d \in Data : Call([block |-> b, data |-> d], "write")
    BY <1>8 DEF hardWrite
  <2> QED
    BY <1>6, <2>1
<1>9. CASE ReadStatus
  BY <1>1, <1>9 DEF ReadStatus, Typed, TypeOK, Asked
<1>10. CASE ReadReceive
  <2>1. req.block \in Block
    BY <1>1, <1>10 DEF ReadReceive, Asked
  <2>2. got' \in [block : Block, data : Data] /\ drive' \in {"idle", drive}
    BY <1>10, <2>1 DEF ReadReceive
  <2> QED
    BY <1>1, <1>10, <2>2 DEF ReadReceive, Typed, TypeOK, Asked
<1>11. CASE WriteSend
  <2>1. req.block \in Block /\ req.data \in Data
    BY <1>1, <1>11 DEF WriteSend, Asked
  <2>2. wrote' \in [Block -> Data]
    BY <1>1, <1>11, <2>1 DEF WriteSend, TypeOK
  <2>3. buf' \in Data /\ drive' \in {"idle", "busy", "drq", "error"}
        /\ cmd' \in [op : {"none", "identify", "read", "write", "store"}, lba : Sector]
    BY <1>1, <1>11, <2>1 DEF WriteSend, TypeOK
  <2> QED
    BY <1>1, <1>11, <2>2, <2>3 DEF WriteSend, Typed, TypeOK, Asked
<1>12. CASE Ready
  BY <1>1, <1>12 DEF Ready, Typed, TypeOK, Asked
<1>13. CASE Stored
  <2>1. media' \in [Sector -> Data]
    BY <1>1, <1>13 DEF Stored, TypeOK
  <2> QED
    BY <1>1, <1>13, <2>1 DEF Stored, Typed, TypeOK, Asked
<1>14. CASE UNCHANGED vars
  BY <1>1, <1>14 DEF vars, Typed, TypeOK, Asked
<1> QED
  BY <1>3, <1>4, <1>5, <1>7, <1>8, <1>9, <1>10, <1>11, <1>12, <1>13, <1>14 DEF Next

\* The types, whatever the drive is like (Ide, driver and drive).
THEOREM TypeCorrect == Spec => []TypeOK
<1>1. Typed => TypeOK
  BY DEF Typed
<1> QED
  BY <1>1, InitTyped, NextTyped, PTL DEF Spec

------------------------------------------------------------------------------
(* Driver and drive take turns *)

\* The drive is done before the driver looks, accepts what it is given when it
\* is done, and stores what it has accepted.
Prompt == Traits = {}

\* Where the drive is, seen from the driver.
Turns ==
  /\ pc \in {"init", "identify", "read", "write", "receive"} => drive # "busy"
  /\ pc \in {"read", "write"} => Join(regs) = req.block
  /\ pc = "status" => drive \in {"busy", "drq", "error"}
  /\ pc = "receive" => drive = "drq"
  /\ pc \in {"status", "receive"} => cmd.op = "read" /\ cmd.lba = req.block
  /\ pc = "send" => drive \in {"busy", "drq"} /\ cmd.op = "write" /\ cmd.lba = req.block
  /\ drive = "busy" /\ cmd.op = "store" => pc = "idle"

\* What is written is there, or is on its way from the buffer of the drive.
Landed ==
  IF drive = "busy" /\ cmd.op = "store"
  THEN \A b \in Block : wrote[b] = IF b = cmd.lba THEN buf ELSE media[b]
  ELSE \A b \in Block : wrote[b] = media[b]

IInv == Typed /\ Turns /\ Landed

LEMMA InitIInv == Init => IInv
<1> SUFFICES ASSUME Init PROVE IInv
  OBVIOUS
<1>1. \A b \in Block : wrote[b] = media[b]
  BY Blocks DEF Init
<1> QED
  BY <1>1, InitTyped DEF Init, IInv, Turns, Landed

LEMMA NextIInv ==
  ASSUME IInv, Prompt, [Next]_vars
  PROVE  IInv'
<1>1. Typed' /\ Turns /\ Landed /\ TypeOK /\ Asked
  BY NextTyped DEF IInv, Typed
<1>2. ASSUME Access
      PROVE  drive # "busy" /\ ~Deaf
  BY <1>2 DEF Prompt, Access, Deaf
<1>3. CASE InitProgram
  BY <1>1, <1>3, <1>2 DEF InitProgram, IInv, Turns, Landed
<1>4. CASE InitIdentify
  <2>1. cmd' = [op |-> "identify", lba |-> Join(regs)] /\ drive' = "busy"
    BY <1>2, <1>4 DEF InitIdentify, Command
  <2>2. \A b \in Block : wrote[b] = media[b]
    BY <1>1, <1>2, <1>4 DEF InitIdentify, Landed
  <2> QED
    BY <1>1, <1>4, <2>1, <2>2 DEF InitIdentify, IInv, Turns, Landed, Block, Sector
<1>5. CASE InitDone
  BY <1>1, <1>5 DEF InitDone, IInv, Turns, Landed, Block, Sector
<1>6. ASSUME NEW b \in Block, NEW r, NEW p \in {"read", "write"}, Call(r, p), r.block = b
      PROVE  IInv'
  <2>1. drive # "busy" /\ regs' = Split(b)
    BY <1>2, <1>6, Blocks DEF Call, Write
  <2>2. Join(regs') = b
    BY <2>1, Blocks, JoinSplit
  <2>3. req' = r /\ pc' = p /\ UNCHANGED <<drive, cmd, buf, media, got, wrote>>
    BY <1>6 DEF Call
  <2>4. Turns'
    BY <1>6, <2>1, <2>2, <2>3 DEF Turns, Join
  <2>5. Landed'
    BY <1>1, <2>1, <2>3 DEF Landed, Block, Sector
  <2> QED
    BY <1>1, <2>4, <2>5 DEF IInv
<1>7. CASE hardReadWait
  <2>1. PICK b \in Block : Call([block |-> b], "read")
    BY <1>7 DEF hardReadWait
  <2> QED
    BY <1>6, <2>1
<1>8. CASE hardWrite
  <2>1. PICK b \in Block, d \in Data : Call([block |-> b, data |-> d], "write")
    BY <1>8 DEF hardWrite
  <2> QED
    BY <1>6, <2>1
<1>9. CASE ReadCommand \/ WriteCommand
  <2> DEFINE op == IF pc = "read" THEN "read" ELSE "write"
  <2>1. /\ drive # "busy" /\ cmd'.op = op /\ cmd'.lba = Join(regs) /\ drive' = "busy"
        /\ pc' = IF pc = "read" THEN "status" ELSE "send"
        /\ pc \in {"read", "write"}
        /\ UNCHANGED <<req, regs, buf, media, got, wrote, calls>>
    BY <1>2, <1>9 DEF ReadCommand, WriteCommand, Command
  <2>2. \A b \in Block : wrote[b] = media[b]
    BY <1>1, <2>1 DEF Landed
  <2>3. Landed'
    BY <2>1, <2>2 DEF Landed, Block, Sector
  <2>4. Turns'
    BY <1>1, <2>1 DEF Turns
  <2> QED
    BY <1>1, <2>3, <2>4 DEF IInv
<1>10. CASE ReadStatus
  BY <1>1, <1>2, <1>10 DEF ReadStatus, IInv, Turns, Landed, Block, Sector
<1>11. CASE ReadReceive
  <2>1. /\ drive = "drq" /\ cmd.op = "read" /\ drive' = "idle" /\ pc' = "idle"
        /\ UNCHANGED <<req, regs, cmd, buf, media, wrote, calls>>
    BY <1>1, <1>11 DEF ReadReceive, Turns
  <2>2. Landed' /\ Turns'
    BY <1>1, <2>1 DEF Turns, Landed, Block, Sector
  <2> QED
    BY <1>1, <2>2 DEF IInv
<1>12. CASE WriteSend
  <2>1. drive = "drq" /\ cmd.op = "write" /\ cmd.lba = req.block /\ req.block \in Block
    BY <1>1, <1>2, <1>12 DEF WriteSend, Turns, Asked
  <2>2. /\ buf' = req.data /\ drive' = "busy" /\ cmd' = [cmd EXCEPT !.op = "store"]
        /\ wrote' = [wrote EXCEPT ![req.block] = req.data] /\ pc' = "idle"
        /\ media' = media /\ req' = req
    BY <1>12, <2>1 DEF WriteSend
  <2>3. cmd'.op = "store" /\ cmd'.lba = req.block
    BY <1>1, <2>1, <2>2 DEF TypeOK
  <2>4. \A b \in Block : wrote'[b] = IF b = req.block THEN req.data ELSE media[b]
    BY <1>1, <2>1, <2>2 DEF Landed, TypeOK
  <2>5. Landed'
    BY <2>2, <2>3, <2>4 DEF Landed, Block, Sector
  <2>6. Turns'
    BY <2>2 DEF Turns
  <2> QED
    BY <1>1, <2>5, <2>6 DEF IInv
<1>13. CASE Ready
  <2>1. /\ drive = "busy" /\ cmd.op # "store" /\ drive' \in {"drq", "error"}
        /\ drive' = "error" => cmd.op # "write"
        /\ UNCHANGED <<pc, req, regs, cmd, buf, media, got, wrote, calls>>
    BY <1>13 DEF Ready, Prompt
  <2>2. Landed'
    BY <1>1, <2>1 DEF Landed, Block, Sector
  <2>3. Turns'
    BY <1>1, <2>1 DEF Turns
  <2> QED
    BY <1>1, <2>2, <2>3 DEF IInv
<1>14. CASE Stored
  <2>1. /\ drive = "busy" /\ cmd.op = "store" /\ drive' = "idle"
        /\ media' = [media EXCEPT ![cmd.lba] = buf]
        /\ UNCHANGED <<pc, req, regs, cmd, buf, got, wrote, calls>>
    BY <1>14 DEF Stored, Prompt
  <2>2. \A b \in Block : media'[b] = IF b = cmd.lba THEN buf ELSE media[b]
    BY <1>1, <2>1, Blocks DEF TypeOK
  <2>3. \A b \in Block : wrote'[b] = media'[b]
    BY <1>1, <2>1, <2>2 DEF Landed
  <2>4. Landed'
    BY <2>1, <2>3 DEF Landed, Block, Sector
  <2>5. Turns'
    BY <1>1, <2>1 DEF Turns
  <2> QED
    BY <1>1, <2>4, <2>5 DEF IInv
<1>15. CASE UNCHANGED vars
  BY <1>1, <1>15 DEF vars, IInv, Turns, Landed, Block, Sector
<1> QED
  BY <1>3, <1>4, <1>5, <1>7, <1>8, <1>9, <1>10, <1>11, <1>12, <1>13, <1>14, <1>15 DEF Next

LEMMA Invariant ==
  ASSUME Prompt
  PROVE  Spec => []IInv
BY InitIInv, NextIInv, PTL DEF Spec

\* When a prompt drive is done, each block is where it was written and no other
\* sector has changed, for registers of any width (hardWrite).
THEOREM WritesCorrect ==
  ASSUME Prompt
  PROVE  Spec => []WritesLand
<1>1. IInv => WritesLand
  BY Blocks DEF IInv, Landed, WritesLand
<1> QED
  BY <1>1, Invariant, PTL

\* A read of a prompt drive that does not fail returns what was last written to the
\* block, although the driver looks at the status only once (hardReadWait).
THEOREM ReadsCorrect ==
  ASSUME Prompt
  PROVE  Spec => ReadsBack
<1>1. ASSUME IInv, [Next]_vars, pc = "receive", pc' = "idle"
      PROVE  got'.data = wrote[got'.block]
  <2>1. ReadReceive
    BY <1>1 DEF Next, vars, InitProgram, InitIdentify, InitDone, hardReadWait, hardWrite, Call,
       ReadCommand, ReadStatus, WriteCommand, WriteSend, Ready, Stored
  <2>2. drive = "drq" /\ cmd.op = "read" /\ cmd.lba = req.block /\ req.block \in Block
    BY <1>1 DEF IInv, Turns, Typed, Asked
  <2>3. got'.block = req.block /\ got'.data = media[req.block]
    BY <2>1, <2>2 DEF ReadReceive
  <2>4. wrote[req.block] = media[req.block]
    BY <1>1, <2>2 DEF IInv, Landed
  <2> QED
    BY <2>3, <2>4
<1>2. IInv /\ [Next]_vars
        => [pc = "receive" /\ pc' = "idle" => got'.data = wrote[got'.block]]_vars
  BY <1>1
<1> QED
  BY <1>2, Invariant, PTL DEF Spec, ReadsBack

------------------------------------------------------------------------------
(* Recursive functions on an interval of numbers *)

\* Induction over the numbers up to n.  A least number that is not in T would
\* be the end of a smallest interval 0 .. k that does not lie in T.
LEMMA Induction ==
  ASSUME NEW n \in Nat, NEW T, 0 \in T, \A k \in 0 .. n - 1 : k \in T => k + 1 \in T
  PROVE  \A k \in 0 .. n : k \in T
<1> DEFINE F == {0 .. k : k \in (0 .. n) \ T}
           R == StrictSubsetOrdering(0 .. n)
<1>1. SUFFICES ASSUME NEW k \in (0 .. n) \ T PROVE FALSE
  OBVIOUS
<1>2. IsFiniteSet(0 .. n)
  BY FS_Interval
<1>3. IsWellFoundedOn(R, SUBSET (0 .. n))
  BY <1>2, FS_StrictSubsetOrderingWellFounded, FS_FiniteSubsetsOfFinite
<1>4. F \subseteq SUBSET (0 .. n) /\ F # {}
  <2>1. 0 .. k \in F
    OBVIOUS
  <2>2. \A j \in 0 .. n : 0 .. j \subseteq 0 .. n
    OBVIOUS
  <2> QED
    BY <2>1, <2>2
<1>5. PICK x \in F : \A y \in F : ~(<<y, x>> \in R)
  <2> HIDE DEF F, R
  <2> QED
    BY <1>3, <1>4, WFMin
<1>6. PICK m \in (0 .. n) \ T : x = 0 .. m
  OBVIOUS
<1>7. m # 0 /\ m - 1 \in (0 .. n) \ T
  OBVIOUS
<1>8. 0 .. m - 1 \in F
  BY <1>7
<1>9. <<0 .. m - 1, 0 .. m>> \in R
  <2>1. 0 .. m - 1 \subseteq 0 .. m /\ 0 .. m \subseteq 0 .. n
    OBVIOUS
  <2>2. m \in 0 .. m /\ m \notin 0 .. m - 1
    OBVIOUS
  <2>3. 0 .. m - 1 # 0 .. m
    BY <2>2
  <2> QED
    BY <2>1, <2>3 DEF StrictSubsetOrdering
<1> QED
  BY <1>5, <1>6, <1>8, <1>9

LEMMA LeastNumber ==
  ASSUME NEW n \in Nat, NEW I \in SUBSET (1 .. n), I # {}
  PROVE  \E j \in I : \A i \in I : j <= i
<1> SUFFICES ASSUME \A j \in I : \E i \in I : i < j PROVE FALSE
  OBVIOUS
<1> DEFINE T == {k \in 0 .. n : \A i \in I : k < i}
<1>1. 0 \in T
  OBVIOUS
<1>2. ASSUME NEW k \in 0 .. n - 1, k \in T PROVE k + 1 \in T
  <2>1. k + 1 \notin I
    BY <1>2
  <2>2. \A i \in I : k + 1 < i
    BY <1>2, <2>1
  <2> QED
    BY <2>2
<1>3. \A k \in 0 .. n : k \in T
  <2> HIDE DEF T
  <2> QED
    BY <1>1, <1>2, Induction
<1>4. n \in T
  BY <1>3
<1>5. PICK i \in I : i \in 1 .. n
  OBVIOUS
<1>6. n < i
  BY <1>4, <1>5
<1> QED
  BY <1>5, <1>6

\* h starts with b, and g makes each value from the one before it.
Iterates(h, n, V, b, g) ==
  h \in [0 .. n -> V] /\ h[0] = b /\ \A i \in 1 .. n : h[i] = g[<<h[i - 1], i>>]

\* A function on 0 .. n can be defined by its first value and by what each
\* value becomes.
LEMMA Iteration ==
  ASSUME NEW n \in Nat, NEW V, NEW b \in V, NEW g,
         \A v \in V, i \in 1 .. n : g[<<v, i>>] \in V
  PROVE  \E h : Iterates(h, n, V, b, g)
<1> DEFINE Good(h, k) == h[0] = b /\ \A i \in 1 .. k : h[i] = g[<<h[i - 1], i>>]
           T == {k \in 0 .. n : \E h \in [0 .. n -> V] : Good(h, k)}
<1>1. 0 \in T
  <2> DEFINE e == [i \in 0 .. n |-> b]
  <2>1. e \in [0 .. n -> V] /\ Good(e, 0)
    OBVIOUS
  <2> HIDE DEF e, Good
  <2> QED
    BY <2>1
<1>2. ASSUME NEW k \in 0 .. n - 1, k \in T PROVE k + 1 \in T
  <2>1. PICK h \in [0 .. n -> V] : Good(h, k)
    BY <1>2
  <2> DEFINE v == g[<<h[k], k + 1>>]
             e == [h EXCEPT ![k + 1] = v]
  <2>2. v \in V
    BY <2>1
  <2>3. k + 1 \in 0 .. n /\ k \in Nat
    OBVIOUS
  <2>4. e \in [0 .. n -> V] /\ e[k + 1] = v /\ \A i \in 0 .. k : e[i] = h[i]
    <3> HIDE DEF v
    <3> QED
      BY <2>2, <2>3
  <2>5. Good(e, k + 1)
    <3> HIDE DEF e
    <3>1. e[0] = b
      BY <2>1, <2>4
    <3>2. ASSUME NEW i \in 1 .. k + 1 PROVE e[i] = g[<<e[i - 1], i>>]
      <4>1. CASE i = k + 1
        <5>1. i - 1 = k /\ e[k] = h[k]
          BY <4>1, <2>4
        <5> QED
          BY <4>1, <2>4, <5>1
      <4>2. CASE i \in 1 .. k
        <5>1. i - 1 \in 0 .. k /\ i \in 0 .. k
          BY <4>2
        <5>2. e[i - 1] = h[i - 1] /\ e[i] = h[i]
          BY <5>1, <2>4
        <5> QED
          BY <5>2, <2>1, <4>2
      <4> QED
        BY <4>1, <4>2
    <3> QED
      BY <3>1, <3>2
  <2> HIDE DEF Good, e
  <2> QED
    BY <2>3, <2>4, <2>5
<1>3. n \in T
  <2> HIDE DEF T
  <2>1. n \in 0 .. n
    OBVIOUS
  <2> QED
    BY <1>1, <1>2, <2>1, Induction
<1> QED
  BY <1>3 DEF Iterates

------------------------------------------------------------------------------
(* The screen *)

\* What putc is given.
Printed == Char \cup {NewLine}

\* The displayed cells behind the cursor are blank, and so is the one under it.
Behind(s) == \A i \in Cell : At(s.row, s.col) < i /\ i < At(CSL_HEIGHT, 0) => s.video[i] = Blank
Clean(s) == \A i \in Cell : At(s.row, s.col) <= i /\ i < At(CSL_HEIGHT, 0) => s.video[i] = Blank

\* The cells of a row follow one another, and the rows too.
LEMMA Cells ==
  ASSUME NEW r \in 0 .. CSL_HEIGHT, NEW c \in 0 .. CSL_WIDTH
  PROVE  /\ At(r, c) \in Cell /\ At(r, 0) \in Nat
         /\ At(r, c) = At(r, 0) + c
         /\ At(r + 1, 0) = At(r, 0) + CSL_WIDTH
         /\ r < CSL_HEIGHT => At(r + 1, 0) <= At(CSL_HEIGHT, 0)
         /\ r = CSL_HEIGHT => At(CSL_HEIGHT, 0) <= At(r, c)
<1>1. CSL_WIDTH \in Nat /\ CSL_HEIGHT \in Nat /\ r \in Nat /\ r + 1 \in Nat
  BY ScreenAssumption
<1>2. CSL_WIDTH * (r + 1) = CSL_WIDTH * r + CSL_WIDTH
  BY <1>1
<1>3. CSL_WIDTH * (CSL_HEIGHT + 1) = CSL_WIDTH * CSL_HEIGHT + CSL_WIDTH
  BY <1>1
<1>4. CSL_WIDTH * r \in Nat /\ CSL_WIDTH * CSL_HEIGHT \in Nat
  BY <1>1
<1>5. CSL_WIDTH * r <= CSL_WIDTH * CSL_HEIGHT
  BY <1>1, ProductOrder
<1>6. r < CSL_HEIGHT => CSL_WIDTH * (r + 1) <= CSL_WIDTH * CSL_HEIGHT
  <2>1. r < CSL_HEIGHT => r + 1 <= CSL_HEIGHT
    BY <1>1
  <2> QED
    BY <1>1, <2>1, ProductOrder
<1> DEFINE w == CSL_WIDTH * r
           z == CSL_WIDTH * CSL_HEIGHT
<1>7. w + c \in Cell
  <2>1. Cell = 0 .. z + CSL_WIDTH
    BY <1>3 DEF Cell
  <2> HIDE DEF w, z
  <2> QED
    BY <1>1, <1>4, <1>5, <2>1 DEF w, z
<1> QED
  BY <1>1, <1>2, <1>4, <1>5, <1>6, <1>7 DEF At

\* putc writes into a row that is not full, and moves the cursor.
LEMMA PutcInRow ==
  ASSUME NEW s \in Screen, NEW c \in Char, s.col < CSL_WIDTH
  PROVE  /\ putc(s, c) = [video |-> [s.video EXCEPT ![At(s.row, s.col)] = c],
                          row |-> s.row, col |-> s.col + 1]
         /\ putc(s, c) \in Screen
         /\ Behind(s) => Clean(putc(s, c))
<1> DEFINE p == [video |-> [s.video EXCEPT ![At(s.row, s.col)] = c],
                 row |-> s.row, col |-> s.col + 1]
<1>1. c # NewLine
  BY CharAssumption DEF Char, Blank, NewLine
<1>2. s.row \in 0 .. CSL_HEIGHT /\ s.col \in 0 .. CSL_WIDTH /\ s.video \in [Cell -> Char]
      /\ s.col + 1 \in 0 .. CSL_WIDTH
  BY ScreenAssumption DEF Screen
<1>3. ~EndsRow(s.col, c) /\ ~(s.row > CSL_HEIGHT)
  BY <1>1, <1>2, ScreenAssumption DEF EndsRow
<1>4. putc(s, c) = p
  BY <1>1, <1>2, <1>3 DEF putc, Screen
<1>5. At(s.row, s.col) \in Cell /\ At(s.row, s.col + 1) = At(s.row, s.col) + 1
  <2>1. At(s.row, s.col) = At(s.row, 0) + s.col /\ At(s.row, 0) \in Nat
        /\ At(s.row, s.col + 1) = At(s.row, 0) + (s.col + 1) /\ At(s.row, s.col) \in Cell
    BY <1>2, Cells
  <2> QED
    BY <1>2, <2>1, ScreenAssumption
<1>6. p \in Screen
  BY <1>2, <1>5 DEF Screen
<1>7. Behind(s) => Clean(p)
  BY <1>2, <1>5, ScreenAssumption DEF Behind, Clean, Cell
<1> QED
  BY <1>4, <1>6, <1>7

\* A new line ends the row, or starts a new screen.
LEMMA PutcNewLine ==
  ASSUME NEW s \in Screen
  PROVE  /\ putc(s, NewLine) \in Screen /\ putc(s, NewLine).col = 0
         /\ Behind(s) => Clean(putc(s, NewLine))
<1> DEFINE v == [s.video EXCEPT ![At(s.row, s.col)] = Blank]
           t == [video |-> v, row |-> s.row + 1, col |-> 0]
<1>1. s.row \in 0 .. CSL_HEIGHT /\ s.col \in 0 .. CSL_WIDTH /\ s.video \in [Cell -> Char]
  BY DEF Screen
<1>2. v \in [Cell -> Char]
  BY <1>1 DEF Char
<1>3. putc(s, NewLine) = IF t.row > CSL_HEIGHT THEN clear(t) ELSE t
  <2>1. EndsRow(s.col, NewLine)
    BY DEF EndsRow
  <2> QED
    BY <2>1 DEF putc
<1>4. /\ At(s.row, s.col) \in Cell /\ At(s.row, 0) \in Nat /\ At(CSL_HEIGHT, 0) \in Nat
      /\ At(s.row, s.col) = At(s.row, 0) + s.col
      /\ At(s.row + 1, 0) = At(s.row, 0) + CSL_WIDTH
  BY <1>1, Cells, ScreenAssumption
<1>5. CASE s.row < CSL_HEIGHT
  <2>1. putc(s, NewLine) = t
    BY <1>1, <1>3, <1>5, ScreenAssumption
  <2>2. t \in Screen
    BY <1>1, <1>2, <1>5, ScreenAssumption DEF Screen
  <2>3. Behind(s) => Clean(t)
    <3> SUFFICES ASSUME Behind(s), NEW i \in Cell, At(s.row + 1, 0) <= i, i < At(CSL_HEIGHT, 0)
                 PROVE  v[i] = Blank
      BY DEF Clean
    <3>1. i \in Nat
      BY ScreenAssumption DEF Cell
    <3>2. CASE i = At(s.row, s.col)
      BY <1>1, <1>4, <3>2
    <3>3. CASE i # At(s.row, s.col)
      <4>1. At(s.row, s.col) < i
        BY <1>1, <1>4, <3>1, <3>3, ScreenAssumption
      <4> QED
        BY <1>1, <3>3, <4>1 DEF Behind
    <3> QED
      BY <3>2, <3>3
  <2> QED
    BY <2>1, <2>2, <2>3
<1>6. CASE s.row = CSL_HEIGHT
  <2>1. putc(s, NewLine) = clear(t)
    BY <1>1, <1>3, <1>6, ScreenAssumption
  <2>2. clear(t) \in Screen /\ clear(t).col = 0
    BY <1>2, ScreenAssumption DEF clear, Screen, Char
  <2>3. Clean(clear(t))
    BY DEF clear, Clean
  <2> QED
    BY <2>1, <2>2, <2>3
<1> QED
  BY <1>1, <1>5, <1>6, ScreenAssumption

LEMMA CleanBehind == ASSUME NEW s \in Screen, Clean(s) PROVE Behind(s)
<1>1. At(s.row, s.col) \in Nat
  BY Cells, ScreenAssumption DEF Screen, Cell
<1> QED
  BY <1>1, ScreenAssumption DEF Clean, Behind, Cell

\* Whatever is printed, only blanks are behind the cursor.
LEMMA PutcKeeps ==
  ASSUME NEW s \in Screen, NEW c \in Printed
  PROVE  putc(s, c) \in Screen /\ (Behind(s) => Behind(putc(s, c)))
<1>2. CASE c = NewLine
  BY <1>2, PutcNewLine, CleanBehind
<1>3. CASE c \in Char /\ s.col < CSL_WIDTH
  BY <1>3, PutcInRow, CleanBehind
<1>4. CASE c \in Char /\ ~(s.col < CSL_WIDTH)
  <2> DEFINE v == [s.video EXCEPT ![At(s.row, s.col)] = c]
             t == [video |-> v, row |-> s.row + 1, col |-> 0]
  <2>1. s.row \in 0 .. CSL_HEIGHT /\ s.col = CSL_WIDTH /\ s.video \in [Cell -> Char]
    BY <1>4, ScreenAssumption DEF Screen
  <2>2. v \in [Cell -> Char]
    BY <1>4, <2>1
  <2>3. c # NewLine
    BY <1>4, CharAssumption DEF Char, Blank, NewLine
  <2>4. EndsRow(s.col, c)
    BY <2>1, ScreenAssumption DEF EndsRow
  <2>5. putc(s, c) = IF t.row > CSL_HEIGHT THEN clear(t) ELSE t
    BY <2>3, <2>4 DEF putc
  <2>6. At(s.row, s.col) = At(s.row + 1, 0)
    BY <2>1, Cells, ScreenAssumption
  <2>7. CASE s.row < CSL_HEIGHT
    <3>1. putc(s, c) = t
      BY <2>1, <2>5, <2>7, ScreenAssumption
    <3>2. t \in Screen
      BY <2>1, <2>2, <2>7, ScreenAssumption DEF Screen
    <3>3. At(s.row, s.col) \in Nat
      <4>1. CSL_WIDTH \in 0 .. CSL_WIDTH
        BY ScreenAssumption
      <4>2. At(s.row, CSL_WIDTH) \in Cell
        BY <2>1, <4>1, Cells
      <4> QED
        BY <2>1, <4>2, ScreenAssumption DEF Cell
    <3>4. Behind(s) => Behind(t)
      BY <2>1, <2>6, <3>3, ScreenAssumption DEF Behind, Cell
    <3> QED
      BY <3>1, <3>2, <3>4
  <2>8. CASE s.row = CSL_HEIGHT
    <3>1. putc(s, c) = clear(t)
      BY <2>1, <2>5, <2>8, ScreenAssumption
    <3>2. clear(t) \in Screen
      BY <2>2, ScreenAssumption DEF clear, Screen, Char
    <3>3. Behind(clear(t))
      BY DEF clear, Behind
    <3> QED
      BY <3>1, <3>2, <3>3
  <2> QED
    BY <2>1, <2>7, <2>8, ScreenAssumption
<1> QED
  BY <1>2, <1>3, <1>4 DEF Printed

\* printf calls putc for one character after the other.
LEMMA PrintfSteps ==
  ASSUME NEW s \in Screen, NEW text \in Seq(Printed)
  PROVE  \E out \in [0 .. Len(text) -> Screen] :
           /\ printf(s, text) = out[Len(text)] /\ out[0] = s
           /\ \A i \in 1 .. Len(text) : out[i] = putc(out[i - 1], text[i])
<1> DEFINE N == Len(text)
           Is(f) == f = [n \in 0 .. N |-> IF n = 0 THEN s ELSE putc(f[n - 1], text[n])]
           out == CHOOSE f : Is(f)
           g == [p \in Screen \X (1 .. N) |-> putc(p[1], text[p[2]])]
<1>1. printf(s, text) = out[N]
  BY DEF printf
<1>2. N \in Nat /\ \A i \in 1 .. N : text[i] \in Printed
  OBVIOUS
<1>3. \A v \in Screen, i \in 1 .. N : g[<<v, i>>] = putc(v, text[i]) /\ putc(v, text[i]) \in Screen
  BY <1>2, PutcKeeps
<1>4. PICK h : Iterates(h, N, Screen, s, g)
  <2>1. N \in Nat /\ \A v \in Screen, i \in 1 .. N : g[<<v, i>>] \in Screen
    BY <1>2, <1>3
  <2> HIDE DEF N, g, Is, out
  <2> QED
    BY <2>1, Iteration
<1>5. \A i \in 1 .. N : h[i] = putc(h[i - 1], text[i])
  <2> TAKE i \in 1 .. N
  <2>1. h \in [0 .. N -> Screen] /\ h[i] = g[<<h[i - 1], i>>]
    BY <1>4 DEF Iterates
  <2>2. i - 1 \in 0 .. N
    BY <1>2
  <2> HIDE DEF g
  <2> QED
    BY <1>3, <2>1, <2>2
<1>6. Is(h)
  <2> HIDE DEF g, N
  <2>1. h = [n \in 0 .. N |-> h[n]] /\ h[0] = s
    BY <1>4 DEF Iterates
  <2>2. \A n \in 0 .. N : h[n] = IF n = 0 THEN s ELSE putc(h[n - 1], text[n])
    <3> TAKE n \in 0 .. N
    <3>1. CASE n = 0
      BY <3>1, <2>1
    <3>2. CASE n \in 1 .. N
      BY <3>2, <1>5
    <3> QED
      BY <3>1, <3>2, <1>2
  <2> QED
    BY <2>1, <2>2
<1>7. Is(out)
  <2> HIDE DEF Is
  <2> QED
    BY <1>6
<1>8. out = [n \in 0 .. N |-> IF n = 0 THEN s ELSE putc(out[n - 1], text[n])]
  <2> HIDE DEF out
  <2> QED
    BY <1>7
<1>9. out[0] = s /\ \A i \in 1 .. N : out[i] = putc(out[i - 1], text[i])
  <2> HIDE DEF out, N
  <2>1. 0 \in 0 .. N
    BY <1>2
  <2>2. out[0] = s
    BY <1>8, <2>1
  <2>3. ASSUME NEW i \in 1 .. N PROVE out[i] = putc(out[i - 1], text[i])
    <3>1. i \in 0 .. N /\ i # 0
      BY <1>2
    <3> QED
      BY <1>8, <3>1
  <2> QED
    BY <2>2, <2>3
<1>10. \A k \in 0 .. N : out[k] \in Screen
  <2> DEFINE T == {k \in 0 .. N : out[k] \in Screen}
  <2> HIDE DEF out, N
  <2>1. 0 \in T
    BY <1>9, <1>2
  <2>2. ASSUME NEW k \in 0 .. N - 1, k \in T PROVE k + 1 \in T
    <3>1. k + 1 \in 1 .. N /\ k + 1 \in 0 .. N /\ k + 1 - 1 = k
      BY <1>2
    <3>2. out[k + 1] = putc(out[k + 1 - 1], text[k + 1])
      BY <1>9, <3>1
    <3>3. out[k] \in Screen /\ text[k + 1] \in Printed
      BY <1>2, <2>2, <3>1
    <3> QED
      BY <3>1, <3>2, <3>3, PutcKeeps
  <2>3. \A k \in 0 .. N : k \in T
    <3> HIDE DEF T
    <3> QED
      BY <2>1, <2>2, <1>2, Induction
  <2> QED
    BY <2>3
<1>11. out \in [0 .. N -> Screen]
  <2> HIDE DEF out, N
  <2> QED
    BY <1>8, <1>10
<1> QED
  <2> HIDE DEF out
  <2> QED
    BY <1>1, <1>9, <1>11

LEMMA PrintfKeeps ==
  ASSUME NEW s \in Screen, NEW text \in Seq(Printed)
  PROVE  printf(s, text) \in Screen /\ (Behind(s) => Behind(printf(s, text)))
<1> DEFINE N == Len(text)
<1>1. PICK out \in [0 .. N -> Screen] :
        /\ printf(s, text) = out[N] /\ out[0] = s
        /\ \A i \in 1 .. N : out[i] = putc(out[i - 1], text[i])
  BY PrintfSteps
<1>2. N \in Nat /\ \A i \in 1 .. N : text[i] \in Printed
  OBVIOUS
<1> DEFINE T == {k \in 0 .. N : Behind(s) => Behind(out[k])}
<1> HIDE DEF N
<1>3. 0 \in T
  BY <1>1, <1>2
<1>4. ASSUME NEW k \in 0 .. N - 1, k \in T PROVE k + 1 \in T
  <2>1. k + 1 \in 1 .. N /\ k + 1 \in 0 .. N /\ k + 1 - 1 = k
    BY <1>2
  <2>2. out[k + 1] = putc(out[k], text[k + 1])
    BY <1>1, <2>1
  <2>3. out[k] \in Screen /\ text[k + 1] \in Printed
    BY <1>2, <2>1
  <2> QED
    BY <1>4, <2>1, <2>2, <2>3, PutcKeeps
<1>5. \A k \in 0 .. N : k \in T
  <2> HIDE DEF T
  <2> QED
    BY <1>2, <1>3, <1>4, Induction
<1> QED
  BY <1>1, <1>2, <1>5

\* The prompt is at the beginning of the row, and the cursor behind it.
Prompted(s) == /\ Clean(s) /\ s.col = 1 /\ s.video[At(s.row, 0)] = "$"

LEMMA DollarPrinted ==
  ASSUME NEW s \in Screen, Behind(s), s.col = 0
  PROVE  putc(s, "$") \in Screen /\ Prompted(putc(s, "$"))
<1>1. "$" \in Char /\ s.col < CSL_WIDTH
  BY LettersAssumption, ScreenAssumption DEF Char
<1>2. s.row \in 0 .. CSL_HEIGHT /\ 0 \in 0 .. CSL_WIDTH
  BY ScreenAssumption DEF Screen
<1>3. At(s.row, 0) \in Cell /\ s.video \in [Cell -> Char]
  BY <1>2, Cells DEF Screen
<1> QED
  BY <1>1, <1>3, PutcInRow DEF Prompted

LEMMA PromptPrinted ==
  ASSUME NEW s \in Screen, Behind(s)
  PROVE  printf(s, prompt) \in Screen /\ Prompted(printf(s, prompt))
<1>1. prompt \in Seq(Printed) /\ Len(prompt) = 2 /\ prompt[1] = NewLine /\ prompt[2] = "$"
  BY LettersAssumption DEF prompt, Printed, Char
<1>2. PICK out \in [0 .. 2 -> Screen] :
        /\ printf(s, prompt) = out[2] /\ out[0] = s
        /\ \A i \in 1 .. 2 : out[i] = putc(out[i - 1], prompt[i])
  BY <1>1, PrintfSteps
<1>3. out[1] = putc(s, NewLine) /\ out[2] = putc(out[1], "$")
  BY <1>1, <1>2
<1>4. out[1] \in Screen /\ Behind(out[1]) /\ out[1].col = 0
  <2>1. NewLine \in Printed
    BY DEF Printed
  <2> QED
    BY <1>3, <2>1, PutcNewLine, PutcKeeps
<1> QED
  BY <1>2, <1>3, <1>4, DollarPrinted

LEMMA FirstPrompt ==
  printf(cslInit, <<"$">>) \in Screen /\ Prompted(printf(cslInit, <<"$">>))
<1>1. <<"$">> \in Seq(Printed) /\ Len(<<"$">>) = 1 /\ <<"$">>[1] = "$"
  BY LettersAssumption DEF Printed, Char
<1>2. cslInit \in Screen /\ Behind(cslInit) /\ cslInit.col = 0
  BY ScreenAssumption DEF cslInit, Screen, Char, Behind
<1> DEFINE text == <<"$">>
<1>3. PICK out \in [0 .. 1 -> Screen] :
        /\ printf(cslInit, text) = out[1] /\ out[0] = cslInit
        /\ \A i \in 1 .. 1 : out[i] = putc(out[i - 1], text[i])
  <2>1. text \in Seq(Printed) /\ Len(text) = 1
    BY <1>1
  <2> HIDE DEF text
  <2> QED
    BY <1>2, <2>1, PrintfSteps
<1>4. out[1] = putc(cslInit, "$")
  BY <1>1, <1>3
<1> QED
  BY <1>2, <1>3, <1>4, DollarPrinted

------------------------------------------------------------------------------
(* The parser *)

\* What parseCmd keeps while it reads: only behind a blank can it copy a NUL.
ParseState ==
  {s \in [cmd : Seq(Key), inArg : BOOLEAN, word : Seq(Key \cup {NUL}),
          at : {"lead", "word", "copy", "end"}] :
     /\ ~s.inArg => s.word \in Seq(Key)
     /\ s.at = "copy" => s.inArg}

ParseStart == [cmd |-> << >>, inArg |-> FALSE, word |-> << >>, at |-> "lead"]

LEMMA KeyFacts == Blank \in Key /\ NUL \notin Key /\ Key \subseteq Char
BY LettersAssumption DEF Key, Blank, NUL, Char

\* Each way in which parseCmd goes on, and when it does.
LEMMA ParseCharGoes ==
  ASSUME NEW s \in ParseState, NEW c \in Key \cup {NUL}
  PROVE  /\ s.at = "end" \/ (s.at = "lead" /\ c \in {Blank, NUL}) => ParseChar(s, c) = s
         /\ s.at = "word" /\ c = NUL =>
              ParseChar(s, c) = [cmd |-> s.cmd, inArg |-> s.inArg, word |-> s.word, at |-> "end"]
         /\ s.at = "word" /\ c = Blank =>
              ParseChar(s, c) = [cmd |-> IF s.inArg THEN s.cmd ELSE s.word,
                                 inArg |-> TRUE, word |-> << >>, at |-> "copy"]
         /\ s.at = "copy" \/ (s.at \in {"lead", "word"} /\ c \notin {Blank, NUL}) =>
              ParseChar(s, c) = [cmd |-> s.cmd, inArg |-> s.inArg,
                                 word |-> Append(s.word, c), at |-> "word"]
<1>1. Blank # NUL
  BY DEF Blank, NUL
<1>2. ASSUME s.at = "end" \/ (s.at = "lead" /\ c \in {Blank, NUL})
      PROVE  ParseChar(s, c) = s
  BY <1>2 DEF ParseChar
<1>3. ASSUME s.at = "word", c = NUL
      PROVE  ParseChar(s, c) = [cmd |-> s.cmd, inArg |-> s.inArg, word |-> s.word, at |-> "end"]
  <2>1. ParseChar(s, c) = [s EXCEPT !.at = "end"]
    BY <1>1, <1>3 DEF ParseChar
  <2> QED
    BY <2>1 DEF ParseState
<1>4. ASSUME s.at = "word", c = Blank
      PROVE  ParseChar(s, c) = [cmd |-> IF s.inArg THEN s.cmd ELSE s.word,
                                inArg |-> TRUE, word |-> << >>, at |-> "copy"]
  BY <1>1, <1>4 DEF ParseChar
<1>5. ASSUME s.at = "copy" \/ (s.at \in {"lead", "word"} /\ c \notin {Blank, NUL})
      PROVE  ParseChar(s, c) = [cmd |-> s.cmd, inArg |-> s.inArg,
                                word |-> Append(s.word, c), at |-> "word"]
  <2>1. ParseChar(s, c) = [s EXCEPT !.word = Append(@, c), !.at = "word"]
    BY <1>1, <1>5 DEF ParseChar
  <2> QED
    BY <2>1 DEF ParseState
<1> QED
  BY <1>2, <1>3, <1>4, <1>5

\* One disjunct for each of them.
LEMMA ParseCharCases ==
  ASSUME NEW s \in ParseState, NEW c \in Key \cup {NUL}
  PROVE  \/ ParseChar(s, c) = s
         \/ ParseChar(s, c) = [cmd |-> s.cmd, inArg |-> s.inArg, word |-> s.word, at |-> "end"]
         \/ ParseChar(s, c) = [cmd |-> IF s.inArg THEN s.cmd ELSE s.word,
                               inArg |-> TRUE, word |-> << >>, at |-> "copy"]
         \/ /\ s.at = "copy" \/ (s.at \in {"lead", "word"} /\ c \notin {Blank, NUL})
            /\ ParseChar(s, c) = [cmd |-> s.cmd, inArg |-> s.inArg,
                                  word |-> Append(s.word, c), at |-> "word"]
<1>1. s.at \in {"lead", "word", "copy", "end"}
  BY DEF ParseState
<1>2. \/ s.at = "end" \/ (s.at = "lead" /\ c \in {Blank, NUL})
      \/ s.at = "word" /\ c = NUL
      \/ s.at = "word" /\ c = Blank
      \/ s.at = "copy" \/ (s.at \in {"lead", "word"} /\ c \notin {Blank, NUL})
  BY <1>1
<1>3. CASE s.at = "end" \/ (s.at = "lead" /\ c \in {Blank, NUL})
  BY <1>3, ParseCharGoes
<1>4. CASE s.at = "word" /\ c = NUL
  BY <1>4, ParseCharGoes
<1>5. CASE s.at = "word" /\ c = Blank
  BY <1>5, ParseCharGoes
<1>6. CASE s.at = "copy" \/ (s.at \in {"lead", "word"} /\ c \notin {Blank, NUL})
  BY <1>6, ParseCharGoes
<1> QED
  BY <1>2, <1>3, <1>4, <1>5, <1>6

LEMMA ParseCharType ==
  ASSUME NEW s \in ParseState, NEW c \in Key \cup {NUL}
  PROVE  ParseChar(s, c) \in ParseState
<1>1. s.at = "word" \/ s.at = "lead" \/ s.at = "copy" \/ s.at = "end"
  BY DEF ParseState
<1>2. CASE ParseChar(s, c) = s
  BY <1>2
<1>3. CASE ParseChar(s, c) = [cmd |-> s.cmd, inArg |-> s.inArg, word |-> s.word, at |-> "end"]
  BY <1>3 DEF ParseState
<1>4. CASE ParseChar(s, c) = [cmd |-> IF s.inArg THEN s.cmd ELSE s.word,
                              inArg |-> TRUE, word |-> << >>, at |-> "copy"]
  BY <1>4 DEF ParseState
<1>5. CASE /\ s.at = "copy" \/ (s.at \in {"lead", "word"} /\ c \notin {Blank, NUL})
           /\ ParseChar(s, c) = [cmd |-> s.cmd, inArg |-> s.inArg,
                                 word |-> Append(s.word, c), at |-> "word"]
  <2>1. Append(s.word, c) \in Seq(Key \cup {NUL})
    BY DEF ParseState
  <2>2. ~s.inArg => Append(s.word, c) \in Seq(Key)
    BY <1>5 DEF ParseState
  <2> DEFINE w == Append(s.word, c)
  <2>3. s.cmd \in Seq(Key) /\ s.inArg \in BOOLEAN
    BY DEF ParseState
  <2> HIDE DEF w
  <2>4. [cmd |-> s.cmd, inArg |-> s.inArg, word |-> w, at |-> "word"] \in ParseState
    BY <2>1, <2>2, <2>3 DEF ParseState, w
  <2> QED
    BY <1>5, <2>4 DEF w
<1> QED
  BY <1>2, <1>3, <1>4, <1>5, ParseCharCases

LEMMA ParsedSteps ==
  ASSUME NEW l \in [1 .. LINE -> Key \cup {NUL}]
  PROVE  /\ Parsed(l) \in [0 .. LINE -> ParseState]
         /\ Parsed(l)[0] = ParseStart
         /\ \A i \in 1 .. LINE : Parsed(l)[i] = ParseChar(Parsed(l)[i - 1], l[i])
<1> DEFINE Is(f) == f = [n \in 0 .. LINE |-> IF n = 0 THEN ParseStart ELSE ParseChar(f[n - 1], l[n])]
           g == [p \in ParseState \X (1 .. LINE) |-> ParseChar(p[1], l[p[2]])]
           out == Parsed(l)
<1>1. out = CHOOSE f : Is(f)
  BY DEF Parsed, ParseStart
<1>2. LINE \in Nat /\ ParseStart \in ParseState
  <2>1. << >> \in Seq(Key) /\ << >> \in Seq(Key \cup {NUL})
    OBVIOUS
  <2>2. ParseStart \in ParseState
    BY <2>1 DEF ParseStart, ParseState
  <2> QED
    BY <2>2, LineAssumption
<1>3. \A v \in ParseState, i \in 1 .. LINE :
        g[<<v, i>>] = ParseChar(v, l[i]) /\ ParseChar(v, l[i]) \in ParseState
  BY ParseCharType
<1>4. PICK h : Iterates(h, LINE, ParseState, ParseStart, g)
  <2>1. \A v \in ParseState, i \in 1 .. LINE : g[<<v, i>>] \in ParseState
    BY <1>3
  <2> HIDE DEF g
  <2> QED
    BY <1>2, <2>1, Iteration
<1>5. \A i \in 1 .. LINE : h[i] = ParseChar(h[i - 1], l[i])
  <2> TAKE i \in 1 .. LINE
  <2>1. h \in [0 .. LINE -> ParseState] /\ h[i] = g[<<h[i - 1], i>>]
    BY <1>4 DEF Iterates
  <2>2. i - 1 \in 0 .. LINE
    BY <1>2
  <2> HIDE DEF g
  <2> QED
    BY <1>3, <2>1, <2>2
<1>6. Is(h)
  <2> HIDE DEF g
  <2>1. h = [n \in 0 .. LINE |-> h[n]] /\ h[0] = ParseStart
    BY <1>4 DEF Iterates
  <2>2. \A n \in 0 .. LINE : h[n] = IF n = 0 THEN ParseStart ELSE ParseChar(h[n - 1], l[n])
    <3> TAKE n \in 0 .. LINE
    <3>1. CASE n = 0
      BY <3>1, <2>1
    <3>2. CASE n \in 1 .. LINE
      BY <3>2, <1>5
    <3> QED
      BY <3>1, <3>2, <1>2
  <2> QED
    BY <2>1, <2>2
<1>7. out = [n \in 0 .. LINE |-> IF n = 0 THEN ParseStart ELSE ParseChar(out[n - 1], l[n])]
  <2>1. Is(out)
    <3> HIDE DEF Is, out
    <3> QED
      BY <1>1, <1>6
  <2> HIDE DEF out
  <2> QED
    BY <2>1
<1> HIDE DEF out
<1>8. out[0] = ParseStart /\ \A i \in 1 .. LINE : out[i] = ParseChar(out[i - 1], l[i])
  <2>1. 0 \in 0 .. LINE
    BY <1>2
  <2>2. ASSUME NEW i \in 1 .. LINE PROVE out[i] = ParseChar(out[i - 1], l[i])
    <3>1. i \in 0 .. LINE /\ i # 0
      BY <1>2
    <3> QED
      BY <1>7, <3>1
  <2> QED
    BY <1>7, <2>1, <2>2
<1>9. \A k \in 0 .. LINE : out[k] \in ParseState
  <2> DEFINE T == {k \in 0 .. LINE : out[k] \in ParseState}
  <2>1. 0 \in T
    BY <1>2, <1>8
  <2>2. ASSUME NEW k \in 0 .. LINE - 1, k \in T PROVE k + 1 \in T
    <3>1. k + 1 \in 1 .. LINE /\ k + 1 \in 0 .. LINE /\ k + 1 - 1 = k
      BY <1>2
    <3>2. out[k + 1] = ParseChar(out[k], l[k + 1])
      BY <1>8, <3>1
    <3>3. out[k] \in ParseState /\ l[k + 1] \in Key \cup {NUL}
      BY <2>2, <3>1
    <3> QED
      BY <3>1, <3>2, <3>3, ParseCharType
  <2>3. \A k \in 0 .. LINE : k \in T
    <3> HIDE DEF T
    <3> QED
      BY <2>1, <2>2, <1>2, Induction
  <2> QED
    BY <2>3
<1> QED
  BY <1>7, <1>8, <1>9 DEF out

\* A string ends before the first NUL in it.
LEMMA StringType ==
  ASSUME NEW s \in Seq(Key \cup {NUL})
  PROVE  String(s) \in Seq(Key) /\ (s \in Seq(Key) => String(s) = s)
<1> DEFINE I == {i \in 1 .. Len(s) : s[i] = NUL}
<1>1. NUL \in ToSet(s) <=> I # {}
  BY DEF ToSet
<1>2. CASE I = {}
  <2>1. \A i \in 1 .. Len(s) : s[i] \in Key
    BY <1>2
  <2>2. s \in Seq(Key)
    BY <2>1
  <2> QED
    BY <1>1, <1>2, <2>2 DEF String
<1>3. CASE I # {}
  <2> DEFINE m == Min(I)
  <2>1. String(s) = SubSeq(s, 1, m - 1)
    BY <1>1, <1>3 DEF String, SelectInSeq
  <2>2. PICK j \in I : \A i \in I : j <= i
    <3>1. I \in SUBSET (1 .. Len(s)) /\ Len(s) \in Nat
      OBVIOUS
    <3> HIDE DEF I
    <3> QED
      BY <1>3, <3>1, LeastNumber
  <2>3. m \in I /\ \A i \in I : m <= i
    BY <2>2 DEF Min
  <2>4. \A i \in 1 .. m - 1 : s[i] \in Key
    BY <2>3
  <2>5. SubSeq(s, 1, m - 1) \in Seq(Key)
    BY <2>3, <2>4
  <2>6. s \notin Seq(Key)
    BY <2>3, KeyFacts
  <2> QED
    BY <2>1, <2>5, <2>6
<1> QED
  BY <1>2, <1>3

LEMMA ParseCmdType ==
  ASSUME arg \in Seq(Key), NEW l \in [1 .. LINE -> Key \cup {NUL}]
  PROVE  parseCmd(l) \in [cmd : Seq(Key), arg : Seq(Key)]
<1> DEFINE s == Parsed(l)[LINE]
<1>1. s \in ParseState
  <2>1. LINE \in 0 .. LINE
    BY LineAssumption
  <2> QED
    BY <2>1, ParsedSteps
<1>2. parseCmd(l) = [cmd |-> IF s.inArg THEN s.cmd ELSE s.word,
                     arg |-> IF s.inArg THEN String(s.word) ELSE arg]
  BY DEF parseCmd
<1> HIDE DEF s
<1>3. s.cmd \in Seq(Key) /\ s.word \in Seq(Key \cup {NUL}) /\ (~s.inArg => s.word \in Seq(Key))
  BY <1>1 DEF ParseState
<1>4. String(s.word) \in Seq(Key)
  BY <1>3, StringType
<1> QED
  BY <1>2, <1>3, <1>4

LEMMA OutputType ==
  ASSUME NEW c \in [cmd : Seq(Key), arg : Seq(Key)]
  PROVE  Output(c) \in Seq(Printed)
<1>1. Key \subseteq Printed /\ NewLine \in Printed /\ "!" \in Printed
  BY KeyFacts, LettersAssumption DEF Printed, Char
<1>2. c.cmd \in Seq(Printed) /\ c.arg \in Seq(Printed)
  BY <1>1
<1>3. <<NewLine>> \in Seq(Printed) /\ <<"!">> \in Seq(Printed) /\ << >> \in Seq(Printed)
  BY <1>1
<1>4. /\ <<"!">> \o c.arg \o <<NewLine>> \in Seq(Printed)
      /\ <<NewLine>> \o c.cmd \o <<"!">> \in Seq(Printed)
  BY <1>2, <1>3
<1> QED
  BY <1>3, <1>4 DEF Output

(***************************************************************************)
(* What parseCmd has made of the line l, which begins with t and a NUL,    *)
(* after k characters: f is where the first word begins, b the first blank *)
(* behind it, and e the last blank.                                        *)
(***************************************************************************)
InLead(s, t, f, k) == k \in 0 .. f - 1 /\ s = ParseStart

InCmd(s, t, f, k, at) ==
  /\ \A i \in f .. k : t[i] # Blank
  /\ s = [cmd |-> << >>, inArg |-> FALSE, word |-> SubSeq(t, f, k), at |-> at]

InArg(s, t, f, k, at) ==
  \E b \in f + 1 .. k, e \in f + 1 .. k :
    /\ b <= e /\ \A i \in f .. b - 1 : t[i] # Blank
    /\ t[b] = Blank /\ t[e] = Blank
    /\ \A i \in e + 1 .. k : t[i] # Blank
    /\ s = [cmd |-> SubSeq(t, f, b - 1), inArg |-> TRUE, word |-> SubSeq(t, e + 1, k),
            at |-> IF e = k /\ at = "word" THEN "copy" ELSE at]

\* One more character of a part of a line.
LEMMA SubSeqAppend ==
  ASSUME NEW t \in Seq(Key), NEW a \in 1 .. Len(t), NEW k \in a - 1 .. Len(t) - 1
  PROVE  Append(SubSeq(t, a, k), t[k + 1]) = SubSeq(t, a, k + 1)
OBVIOUS

LEMMA ParsedTyped ==
  ASSUME NEW l \in [1 .. LINE -> Key \cup {NUL}], NEW n \in 1 .. LINE - 1,
         NEW t \in Seq(Key), Len(t) = n, \A i \in 1 .. n : t[i] = l[i], l[n + 1] = NUL,
         Tidy(t)
  PROVE  \E f \in 1 .. n :
           /\ t[f] # Blank /\ \A i \in 1 .. f - 1 : t[i] = Blank
           /\ \/ InCmd(Parsed(l)[LINE], t, f, n, "end")
              \/ InArg(Parsed(l)[LINE], t, f, n, "end")
<1> DEFINE S == Parsed(l)
<1>1. /\ S \in [0 .. LINE -> ParseState] /\ S[0] = ParseStart
      /\ \A i \in 1 .. LINE : S[i] = ParseChar(S[i - 1], l[i])
  BY ParsedSteps
<1> HIDE DEF S
<1>2. LINE \in Nat /\ n \in Nat /\ Blank # NUL /\ n + 1 \in 1 .. LINE
  BY LineAssumption DEF Blank, NUL
<1>3. \A i \in 1 .. n : t[i] \in Key /\ t[i] # NUL
  BY KeyFacts
<1>4. t[n] # Blank
  BY DEF Tidy
<1>5. PICK f \in 1 .. n : t[f] # Blank /\ \A i \in 1 .. f - 1 : t[i] = Blank
  <2> DEFINE I == {i \in 1 .. n : t[i] # Blank}
  <2>1. I \in SUBSET (1 .. n) /\ n \in I
    BY <1>2, <1>4
  <2> HIDE DEF I
  <2>2. PICK j \in I : \A i \in I : j <= i
    BY <1>2, <2>1, LeastNumber
  <2> QED
    BY <2>2 DEF I
<1> DEFINE Read(k) == \/ InLead(S[k], t, f, k)
                      \/ k \in f .. n /\ InCmd(S[k], t, f, k, "word")
                      \/ k \in f .. n /\ InArg(S[k], t, f, k, "word")
                      \/ k \in n + 1 .. LINE /\ InCmd(S[k], t, f, n, "end")
                      \/ k \in n + 1 .. LINE /\ InArg(S[k], t, f, n, "end")
           T == {k \in 0 .. LINE : Read(k)}
<1>6. 0 \in T
  BY <1>1, <1>2 DEF InLead
<1>7. ASSUME NEW k \in 0 .. LINE - 1, k \in T PROVE k + 1 \in T
  <2>1. k + 1 \in 1 .. LINE /\ k + 1 \in 0 .. LINE /\ k \in 0 .. LINE /\ k + 1 - 1 = k
    BY <1>2
  <2>2. S[k + 1] = ParseChar(S[k], l[k + 1])
    BY <1>1, <2>1
  <2>3. S[k] \in ParseState /\ l[k + 1] \in Key \cup {NUL}
    BY <1>1, <2>1
  <2> DEFINE s == S[k]
             c == l[k + 1]
             Same == ParseChar(s, c) = s
             Ended == ParseChar(s, c)
                        = [cmd |-> s.cmd, inArg |-> s.inArg, word |-> s.word, at |-> "end"]
             NewWord == ParseChar(s, c) = [cmd |-> IF s.inArg THEN s.cmd ELSE s.word,
                                           inArg |-> TRUE, word |-> << >>, at |-> "copy"]
             Longer == ParseChar(s, c) = [cmd |-> s.cmd, inArg |-> s.inArg,
                                          word |-> Append(s.word, c), at |-> "word"]
  <2>4. /\ s.at = "end" \/ (s.at = "lead" /\ c \in {Blank, NUL}) => Same
        /\ s.at = "word" /\ c = NUL => Ended
        /\ s.at = "word" /\ c = Blank => NewWord
        /\ s.at = "copy" \/ (s.at \in {"lead", "word"} /\ c \notin {Blank, NUL}) => Longer
    <3>1. s \in ParseState /\ c \in Key \cup {NUL}
      BY <2>3
    <3> HIDE DEF s, c
    <3> QED
      BY <3>1, ParseCharGoes
  <2>5. k \in 1 .. n - 1 => c = t[k + 1] /\ c # NUL
    BY <1>2, <1>3
  <2>6. k = n => c = NUL
    OBVIOUS
  <2> HIDE DEF c
  <2>7. CASE InLead(S[k], t, f, k)
    <3>1. s = ParseStart /\ k + 1 \in 1 .. n /\ c = t[k + 1] /\ c # NUL /\ k \in Nat
      BY <1>2, <1>3, <2>7 DEF InLead, c
    <3>2. CASE k + 1 < f
      <4>1. S[k + 1] = ParseStart
        BY <1>5, <2>2, <2>4, <3>1, <3>2 DEF ParseStart, c
      <4> QED
        BY <2>1, <3>1, <3>2, <4>1 DEF InLead
    <3>3. CASE k + 1 = f
      <4>1. c \notin {Blank, NUL} /\ Longer
        BY <1>5, <2>4, <3>1, <3>3 DEF ParseStart
      <4>2. Append(<< >>, c) = SubSeq(t, f, f)
        BY <3>1, <3>3
      <4>3. S[k + 1] = [cmd |-> << >>, inArg |-> FALSE, word |-> SubSeq(t, f, k + 1), at |-> "word"]
        <5>1. s.cmd = << >> /\ s.inArg = FALSE /\ s.word = << >>
          BY <3>1 DEF ParseStart
        <5>2. S[k + 1] = ParseChar(s, c)
          BY <2>2 DEF c
        <5> HIDE DEF s
        <5> QED
          BY <3>3, <4>1, <4>2, <5>1, <5>2
      <4>4. InCmd(S[k + 1], t, f, k + 1, "word")
        BY <1>5, <3>3, <4>3 DEF InCmd
      <4> QED
        BY <2>1, <3>1, <3>3, <4>4
    <3> QED
      BY <2>7, <3>2, <3>3 DEF InLead
  <2>8. CASE k \in f .. n /\ InCmd(S[k], t, f, k, "word")
    <3>1. /\ \A i \in f .. k : t[i] # Blank
          /\ s = [cmd |-> << >>, inArg |-> FALSE, word |-> SubSeq(t, f, k), at |-> "word"]
      BY <2>8 DEF InCmd
    <3>2. CASE k = n
      <4>1. S[k + 1] = [cmd |-> << >>, inArg |-> FALSE, word |-> SubSeq(t, f, n), at |-> "end"]
        BY <2>2, <2>4, <2>6, <3>1, <3>2 DEF c
      <4>2. InCmd(S[k + 1], t, f, n, "end")
        BY <3>1, <3>2, <4>1 DEF InCmd
      <4> QED
        BY <1>2, <2>1, <3>2, <4>2
    <3>3. CASE k < n /\ c # Blank
      <4>1. k \in 1 .. n - 1 /\ k + 1 \in f .. n /\ k \in f - 1 .. Len(t) - 1 /\ f \in 1 .. Len(t)
        BY <1>2, <2>8, <3>3
      <4>2. Longer /\ c = t[k + 1]
        BY <2>4, <2>5, <3>1, <3>3, <4>1
      <4>3. Append(SubSeq(t, f, k), c) = SubSeq(t, f, k + 1)
        BY <4>1, <4>2, SubSeqAppend
      <4>4. S[k + 1] = [cmd |-> << >>, inArg |-> FALSE, word |-> SubSeq(t, f, k + 1), at |-> "word"]
        <5>1. s.cmd = << >> /\ s.inArg = FALSE /\ s.word = SubSeq(t, f, k)
          BY <3>1
        <5>2. S[k + 1] = ParseChar(s, c)
          BY <2>2 DEF c
        <5> HIDE DEF s
        <5> QED
          BY <4>2, <4>3, <5>1, <5>2
      <4>5. \A i \in f .. k + 1 : t[i] # Blank
        BY <3>1, <3>3, <4>1, <4>2
      <4> QED
        BY <2>1, <4>1, <4>4, <4>5 DEF InCmd
    <3>4. CASE k < n /\ c = Blank
      <4>1. k \in 1 .. n - 1 /\ k + 1 \in f + 1 .. n
        BY <1>2, <2>8, <3>4
      <4>2. NewWord /\ t[k + 1] = Blank
        BY <2>4, <2>5, <3>1, <3>4, <4>1
      <4>3. SubSeq(t, k + 2, k + 1) = << >> /\ k + 1 - 1 = k
        BY <4>1
      <4>4. S[k + 1] = [cmd |-> SubSeq(t, f, k), inArg |-> TRUE, word |-> << >>, at |-> "copy"]
        BY <2>2, <3>1, <4>2 DEF c
      <4>5. InArg(S[k + 1], t, f, k + 1, "word")
        <5> DEFINE m == k + 1
        <5>1. /\ m \in f + 1 .. m /\ m <= m /\ m - 1 = k
              /\ SubSeq(t, m + 1, m) = << >>
          BY <4>1, <4>3
        <5>2. /\ \A i \in f .. m - 1 : t[i] # Blank
              /\ t[m] = Blank /\ \A i \in m + 1 .. m : t[i] # Blank
          BY <3>1, <4>1, <4>2
        <5>3. S[m] = [cmd |-> SubSeq(t, f, m - 1), inArg |-> TRUE,
                      word |-> SubSeq(t, m + 1, m), at |-> "copy"]
          BY <4>4, <5>1
        <5> HIDE DEF m
        <5>4. InArg(S[m], t, f, m, "word")
          BY <5>1, <5>2, <5>3 DEF InArg
        <5> QED
          BY <5>4 DEF m
      <4> QED
        BY <1>5, <2>1, <4>1, <4>5
    <3> QED
      BY <1>2, <2>8, <3>2, <3>3, <3>4
  <2>9. CASE k \in f .. n /\ InArg(S[k], t, f, k, "word")
    <3>1. PICK b \in f + 1 .. k, e \in f + 1 .. k :
            /\ b <= e /\ \A i \in f .. b - 1 : t[i] # Blank
            /\ t[b] = Blank /\ t[e] = Blank
            /\ \A i \in e + 1 .. k : t[i] # Blank
            /\ s = [cmd |-> SubSeq(t, f, b - 1), inArg |-> TRUE, word |-> SubSeq(t, e + 1, k),
                    at |-> IF e = k THEN "copy" ELSE "word"]
      BY <2>9 DEF InArg
    <3>2. CASE k = n
      <4>1. e # n
        BY <1>4, <3>1
      <4>2. S[k + 1] = [cmd |-> SubSeq(t, f, b - 1), inArg |-> TRUE,
                        word |-> SubSeq(t, e + 1, n), at |-> "end"]
        BY <2>2, <2>4, <2>6, <3>1, <3>2, <4>1 DEF c
      <4>3. InArg(S[k + 1], t, f, n, "end")
        BY <3>1, <3>2, <4>2 DEF InArg
      <4> QED
        BY <1>2, <2>1, <3>2, <4>3
    <3>3. CASE k < n /\ c # Blank
      <4>0. /\ k \in Nat /\ e \in Nat /\ f \in Nat /\ n \in Nat /\ Len(t) = n
            /\ 1 <= f /\ f + 1 <= e /\ e <= k /\ k < n
        BY <1>2, <2>9, <3>3
      <4>1. /\ k \in 1 .. n - 1 /\ k + 1 \in f .. n /\ e + 1 \in 1 .. Len(t)
            /\ k \in (e + 1) - 1 .. Len(t) - 1
        BY <4>0
      <4>2. Longer /\ c = t[k + 1]
        BY <2>4, <2>5, <3>1, <3>3, <4>1
      <4>3. Append(SubSeq(t, e + 1, k), c) = SubSeq(t, e + 1, k + 1)
        BY <4>1, <4>2, SubSeqAppend
      <4>4. S[k + 1] = [cmd |-> SubSeq(t, f, b - 1), inArg |-> TRUE,
                        word |-> SubSeq(t, e + 1, k + 1), at |-> "word"]
        <5>1. S[k + 1] = ParseChar(s, c)
          BY <2>2 DEF c
        <5>2. PICK end : s = [cmd |-> SubSeq(t, f, b - 1), inArg |-> TRUE,
                              word |-> SubSeq(t, e + 1, k), at |-> end]
          BY <3>1, Zenon
        <5> HIDE DEF s
        <5>3. s.cmd = SubSeq(t, f, b - 1) /\ s.inArg = TRUE /\ s.word = SubSeq(t, e + 1, k)
          BY <5>2
        <5> QED
          BY <4>2, <4>3, <5>1, <5>3
      <4>5. InArg(S[k + 1], t, f, k + 1, "word")
        <5> DEFINE m == k + 1
        <5>1. b \in f + 1 .. m /\ e \in f + 1 .. m /\ e # m
          OBVIOUS
        <5>2. \A i \in e + 1 .. m : i \in e + 1 .. k \/ i = m
          OBVIOUS
        <5>3. t[m] # Blank
          BY <3>3, <4>2
        <5>4. \A i \in e + 1 .. m : t[i] # Blank
          <6> HIDE DEF m, s
          <6> QED
            BY <3>1, <5>2, <5>3
        <5> HIDE DEF m, s
        <5>5. InArg(S[m], t, f, m, "word")
          BY <3>1, <4>4, <5>1, <5>4 DEF InArg, m
        <5> QED
          BY <5>5 DEF m
      <4> QED
        BY <2>1, <4>1, <4>5
    <3>4. CASE k < n /\ c = Blank
      <4>1. k \in 1 .. n - 1 /\ k + 1 \in f .. n /\ k + 1 \in 2 .. Len(t) /\ f \in 1 .. k + 1
        BY <1>2, <2>9, <3>4
      <4>2. t[k + 1] = Blank
        BY <2>5, <3>4, <4>1
      <4>3. e # k
        <5>1. e = k => t[k + 1 - 1] = Blank
          BY <3>1, <4>1
        <5> QED
          BY <1>5, <4>1, <4>2, <5>1 DEF Tidy
      <4>4. NewWord
        BY <2>4, <3>1, <3>4, <4>3
      <4>5. S[k + 1] = [cmd |-> SubSeq(t, f, b - 1), inArg |-> TRUE, word |-> << >>, at |-> "copy"]
        BY <2>2, <3>1, <4>4 DEF c
      <4>6. InArg(S[k + 1], t, f, k + 1, "word")
        <5> DEFINE m == k + 1
        <5>1. /\ b \in f + 1 .. m /\ m \in f + 1 .. m /\ b <= m
              /\ SubSeq(t, m + 1, m) = << >>
          BY <3>1, <4>1
        <5>2. \A i \in m + 1 .. m : t[i] # Blank
          BY <4>1
        <5>3. S[m] = [cmd |-> SubSeq(t, f, b - 1), inArg |-> TRUE,
                      word |-> SubSeq(t, m + 1, m), at |-> "copy"]
          BY <4>5, <5>1
        <5>4. t[m] = Blank
          BY <4>2
        <5> HIDE DEF m
        <5>5. InArg(S[m], t, f, m, "word")
          BY <3>1, <5>1, <5>2, <5>3, <5>4 DEF InArg
        <5> QED
          BY <5>5 DEF m
      <4> QED
        BY <2>1, <4>1, <4>6
    <3> QED
      BY <1>2, <2>9, <3>2, <3>3, <3>4
  <2>10. CASE k \in n + 1 .. LINE /\ (InCmd(S[k], t, f, n, "end") \/ InArg(S[k], t, f, n, "end"))
    <3>1. CASE InCmd(s, t, f, n, "end")
      <4>1. s.at = "end"
        BY <3>1 DEF InCmd
      <4> QED
        BY <1>2, <2>1, <2>2, <2>4, <2>10, <4>1 DEF c
    <3>2. CASE InArg(s, t, f, n, "end")
      <4>1. s.at = "end"
        <5> HIDE DEF s
        <5> QED
          BY <3>2 DEF InArg
      <4> QED
        BY <1>2, <2>1, <2>2, <2>4, <2>10, <4>1 DEF c
    <3> QED
      BY <2>10, <3>1, <3>2
  <2> QED
    BY <1>7, <2>7, <2>8, <2>9, <2>10
<1>8. \A k \in 0 .. LINE : k \in T
  <2> HIDE DEF T
  <2> QED
    BY <1>2, <1>6, <1>7, Induction
<1>9. Read(LINE)
  BY <1>2, <1>8
<1>10. InCmd(S[LINE], t, f, n, "end") \/ InArg(S[LINE], t, f, n, "end")
  BY <1>2, <1>9 DEF InLead
<1> QED
  BY <1>5, <1>10 DEF S

LEMMA WordsFinite ==
  ASSUME NEW t \in Seq(Key)
  PROVE  IsFiniteSet(Words(t))
<1>1. Len(t) \in Nat /\ DOMAIN t = 1 .. Len(t)
  OBVIOUS
<1>2. IsFiniteSet(1 .. Len(t))
  BY <1>1, FS_Interval
<1>3. IsFiniteSet((DOMAIN t) \X (DOMAIN t))
  BY <1>1, <1>2, FS_Product
<1>4. Words(t) \in SUBSET ((DOMAIN t) \X (DOMAIN t))
  BY DEF Words
<1> QED
  BY <1>3, <1>4, FS_Subset

\* A word of t ends where its first blank is.
LEMMA WordFrom ==
  ASSUME NEW t \in Seq(Key), NEW a \in 1 .. Len(t), NEW b \in a .. Len(t),
         \A i \in a .. b : t[i] # Blank,
         a = 1 \/ t[a - 1] = Blank, b = Len(t) \/ t[b + 1] = Blank
  PROVE  <<a, b>> \in Words(t) /\ \A w \in Words(t) : w[1] = a => w = <<a, b>>
<1>1. <<a, b>> \in Words(t)
  BY DEF Words
<1>2. ASSUME NEW w \in Words(t), w[1] = a PROVE w = <<a, b>>
  <2>1. /\ w = <<a, w[2]>> /\ w[2] \in a .. Len(t)
        /\ \A i \in a .. w[2] : t[i] # Blank
        /\ w[2] = Len(t) \/ t[w[2] + 1] = Blank
    BY <1>2 DEF Words
  <2>2. ~(w[2] < b)
    <3>1. w[2] < b => w[2] + 1 \in a .. b /\ w[2] # Len(t)
      BY <2>1
    <3> QED
      BY <2>1, <3>1
  <2>3. ~(b < w[2])
    <3>1. b < w[2] => b + 1 \in a .. w[2] /\ b # Len(t)
      BY <2>1
    <3> QED
      BY <2>1, <3>1
  <2>4. w[2] = b
    BY <2>1, <2>2, <2>3
  <2> QED
    BY <2>1, <2>4
<1> QED
  BY <1>1, <1>2

\* l begins with the n characters of t and a NUL.
BeginsWith(l, n, t) ==
  /\ l \in [1 .. LINE -> Key \cup {NUL}] /\ n \in 1 .. LINE - 1
  /\ t \in Seq(Key) /\ Len(t) = n
  /\ \A i \in 1 .. n : t[i] = l[i]
  /\ l[n + 1] = NUL

LEMMA ParseMeant ==
  ASSUME Habits = {}, arg \in Seq(Key), NEW l, NEW n, NEW t, BeginsWith(l, n, t), Provided(t)
  PROVE  Effective(parseCmd(l)) = Meant(t)
<1>0. /\ l \in [1 .. LINE -> Key \cup {NUL}] /\ n \in 1 .. LINE - 1
      /\ t \in Seq(Key) /\ Len(t) = n
      /\ \A i \in 1 .. n : t[i] = l[i]
      /\ l[n + 1] = NUL
  BY DEF BeginsWith
<1> USE <1>0
<1> DEFINE W == Words(t)
           S == Parsed(l)[LINE]
<1>1. Tidy(t) /\ (Cardinality(W) \notin {0, 2} => Text(t, First(W)) \notin {<<cd>>, <<mkdir>>})
  <2>1. t # << >>
    OBVIOUS
  <2> QED
    BY <2>1 DEF Provided
<1>2. t[n] # Blank /\ n \in Nat
  BY <1>1, LineAssumption DEF Tidy
<1>3. PICK f \in 1 .. n :
        /\ t[f] # Blank /\ \A i \in 1 .. f - 1 : t[i] = Blank
        /\ InCmd(S, t, f, n, "end") \/ InArg(S, t, f, n, "end")
  BY <1>1, ParsedTyped
<1>4. \A w \in W : f <= w[1]
  <2> SUFFICES ASSUME NEW w \in W, w[1] < f PROVE FALSE
    BY DEF Words
  <2>1. w[1] \in 1 .. f - 1 /\ t[w[1]] # Blank
    BY DEF Words
  <2> QED
    BY <1>3, <2>1
<1>5. f = 1 \/ t[f - 1] = Blank
  BY <1>2, <1>3
<1>6. IsFiniteSet(W)
  BY WordsFinite
<1>7. ASSUME NEW b \in f .. n, <<f, b>> \in W, \A w \in W : w[1] = f => w = <<f, b>>
      PROVE  First(W) = <<f, b>> /\ Text(t, First(W)) = SubSeq(t, f, b)
  <2>1. \A v \in W : <<f, b>>[1] <= v[1]
    BY <1>4
  <2>2. ASSUME NEW w \in W, \A v \in W : w[1] <= v[1] PROVE w = <<f, b>>
    <3>1. w[1] <= f
      <4>1. w[1] <= <<f, b>>[1]
        <5> HIDE DEF W
        <5> QED
          BY <1>7, <2>2
      <4> QED
        BY <4>1
    <3>2. f <= w[1] /\ w[1] \in Nat
      BY <1>4 DEF Words
    <3>3. w[1] = f
      BY <3>1, <3>2
    <3> HIDE DEF W
    <3> QED
      BY <1>7, <3>3
  <2>3. First(W) = <<f, b>>
    <3> HIDE DEF W
    <3> QED
      BY <1>7, <2>1, <2>2 DEF First
  <2> QED
    BY <2>3 DEF Text
<1>8. Effective(parseCmd(l))
        = [cmd |-> IF S.inArg THEN S.cmd ELSE S.word,
           arg |-> IF (IF S.inArg THEN S.cmd ELSE S.word) \in {<<cd>>, <<mkdir>>}
                   THEN IF S.inArg THEN String(S.word) ELSE arg ELSE << >>]
  BY DEF Effective, parseCmd
<1>9. W # {} => Meant(t)
        = [cmd |-> Text(t, First(W)),
           arg |-> IF Text(t, First(W)) \in {<<cd>>, <<mkdir>>}
                   THEN IF Cardinality(W) = 2 THEN Text(t, First(W \ {First(W)})) ELSE << >>
                   ELSE << >>]
  <2> DEFINE F == Text(t, First(W))
             A == IF Cardinality(W) = 2 THEN Text(t, First(W \ {First(W)})) ELSE << >>
  <2>1. W # {} => Meant(t) = Effective([cmd |-> F, arg |-> A])
    BY DEF Meant
  <2> HIDE DEF F, A
  <2>2. Effective([cmd |-> F, arg |-> A])
          = [cmd |-> F, arg |-> IF F \in {<<cd>>, <<mkdir>>} THEN A ELSE << >>]
    BY DEF Effective
  <2> HIDE DEF W
  <2> QED
    BY <2>1, <2>2 DEF F, A
<1> HIDE DEF S
<1>10. CASE InCmd(S, t, f, n, "end")
  <2>1. \A i \in f .. n : t[i] # Blank
    BY <1>10 DEF InCmd
  <2>2. S.inArg = FALSE /\ S.word = SubSeq(t, f, n)
    BY <1>10 DEF InCmd
  <2>3. n \in f .. n /\ <<f, n>> \in W /\ \A w \in W : w[1] = f => w = <<f, n>>
    BY <1>2, <1>5, <2>1, WordFrom
  <2>4. First(W) = <<f, n>> /\ Text(t, First(W)) = SubSeq(t, f, n)
    BY <1>7, <2>3
  <2>5. W = {<<f, n>>}
    <3> SUFFICES ASSUME NEW w \in W PROVE w[1] = f
      BY <2>3
    <3>1. w[1] \in 1 .. n /\ (w[1] = 1 \/ t[w[1] - 1] = Blank) /\ f <= w[1]
      BY <1>4 DEF Words
    <3>2. w[1] # f => w[1] - 1 \in f .. n /\ w[1] # 1
      BY <1>2, <3>1
    <3> QED
      BY <2>1, <3>1, <3>2
  <2>6. Cardinality(W) = 1
    <3> HIDE DEF W
    <3> QED
      BY <2>5, FS_Singleton
  <2>7. SubSeq(t, f, n) \notin {<<cd>>, <<mkdir>>}
    <3> HIDE DEF W
    <3>1. Cardinality(W) \notin {0, 2}
      BY <2>6
    <3> QED
      BY <1>1, <2>4, <3>1
  <2> HIDE DEF W
  <2> QED
    BY <1>8, <1>9, <2>2, <2>3, <2>4, <2>7
<1>11. CASE InArg(S, t, f, n, "end")
  <2>1. PICK b \in f + 1 .. n, e \in f + 1 .. n :
          /\ b <= e /\ \A i \in f .. b - 1 : t[i] # Blank
          /\ t[b] = Blank /\ t[e] = Blank
          /\ \A i \in e + 1 .. n : t[i] # Blank
          /\ S = [cmd |-> SubSeq(t, f, b - 1), inArg |-> TRUE, word |-> SubSeq(t, e + 1, n),
                  at |-> "end"]
    BY <1>11 DEF InArg
  <2>2. S.inArg = TRUE /\ S.cmd = SubSeq(t, f, b - 1) /\ S.word = SubSeq(t, e + 1, n)
    BY <2>1
  <2>3. b - 1 \in f .. n /\ b - 1 + 1 = b /\ e # n /\ e + 1 \in 1 .. n /\ n \in e + 1 .. n /\ e + 1 - 1 = e
    BY <1>2, <2>1
  <2>4. <<f, b - 1>> \in W /\ \A w \in W : w[1] = f => w = <<f, b - 1>>
    BY <1>5, <2>1, <2>3, WordFrom
  <2>5. <<e + 1, n>> \in W
    <3> DEFINE a == e + 1
    <3>1. a \in 1 .. n /\ n \in a .. n /\ t[a - 1] = Blank /\ \A i \in a .. n : t[i] # Blank
      BY <2>1, <2>3
    <3> HIDE DEF a
    <3>2. <<a, n>> \in W
      BY <3>1, WordFrom
    <3> QED
      BY <3>2 DEF a
  <2>6. First(W) = <<f, b - 1>> /\ Text(t, First(W)) = SubSeq(t, f, b - 1)
    BY <1>7, <2>3, <2>4
  <2>7. String(S.word) = SubSeq(t, e + 1, n)
    <3>1. SubSeq(t, e + 1, n) \in Seq(Key)
      BY <2>3
    <3>2. SubSeq(t, e + 1, n) \in Seq(Key \cup {NUL})
      BY <2>3
    <3> DEFINE w == SubSeq(t, e + 1, n)
    <3> HIDE DEF w
    <3>3. String(w) = w
      BY <3>1, <3>2, StringType DEF w
    <3> QED
      BY <2>2, <3>3 DEF w
  <2>8. CASE SubSeq(t, f, b - 1) \notin {<<cd>>, <<mkdir>>}
    <3> HIDE DEF W
    <3> QED
      <4>1. Meant(t) = [cmd |-> SubSeq(t, f, b - 1), arg |-> << >>]
        BY <1>9, <2>4, <2>6, <2>8
      <4>2. Effective(parseCmd(l)) = [cmd |-> SubSeq(t, f, b - 1), arg |-> << >>]
        <5> HIDE DEF S
        <5> QED
          BY <1>8, <2>2, <2>8
      <4> QED
        BY <4>1, <4>2
  <2>9. CASE SubSeq(t, f, b - 1) \in {<<cd>>, <<mkdir>>}
    <3> DEFINE u == <<f, b - 1>>
               v == <<e + 1, n>>
    <3>1. u # v
      BY <2>1
    <3> HIDE DEF W, u, v
    <3>2. Cardinality(W) = 2
      <4>1. Cardinality(W) # 0
        BY <1>6, <2>4, FS_EmptySet
      <4> QED
        BY <1>1, <2>6, <2>9, <4>1
    <3>3. PICK x : W \ {u} = {x}
      <4>1. IsFiniteSet(W \ {u}) /\ Cardinality(W \ {u}) = 1
        <5>1. u \in W
          BY <2>4 DEF u
        <5> QED
          BY <1>6, <3>2, <5>1, FS_RemoveElement
      <4> QED
        BY <4>1, FS_Singleton
    <3>4. W \ {u} = {v}
      BY <2>5, <3>1, <3>3 DEF v
    <3>5. First({v}) = v
      <4>1. v[1] <= v[1]
        BY <2>3 DEF v
      <4> QED
        BY <4>1 DEF First
    <3>6. Text(t, First(W \ {First(W)})) = SubSeq(t, e + 1, n)
      <4>1. First(W) = u
        BY <2>6 DEF u
      <4>2. First(W \ {First(W)}) = v
        BY <3>4, <3>5, <4>1
      <4>3. Text(t, v) = SubSeq(t, e + 1, n)
        BY DEF Text, v
      <4> QED
        BY <4>2, <4>3
    <3>7. Meant(t) = [cmd |-> SubSeq(t, f, b - 1), arg |-> SubSeq(t, e + 1, n)]
      <4>1. W # {}
        BY <2>4
      <4> QED
        BY <1>9, <2>6, <2>9, <3>2, <3>6, <4>1
    <3>8. Effective(parseCmd(l)) = [cmd |-> SubSeq(t, f, b - 1), arg |-> SubSeq(t, e + 1, n)]
      <4> HIDE DEF S
      <4> QED
        BY <1>8, <2>2, <2>7, <2>9
    <3> QED
      BY <3>7, <3>8
  <2> QED
    BY <2>8, <2>9
<1> QED
  BY <1>3, <1>10, <1>11

------------------------------------------------------------------------------
(* The keyboard interrupt *)

\* Users wait for the prompt, and erase only what they have typed.
Patient == Habits \cap {"fast", "erase"} = {}

\* The row of the cursor shows what has been typed and not yet run.
Displayed ==
  /\ Clean(screen)
  /\ screen.video[At(screen.row, 0)] = "$"
  /\ \A i \in 1 .. Len(typed) : screen.video[At(screen.row, i)] = typed[i] /\ line[i] = typed[i]

\* While a backspace is under way the character that it erases still counts.
Erasing == Displayed /\ pos > 0 /\ Len(typed) = pos - 1

\* What the handler that is under way, a, still has to do.
Under(a) ==
  /\ a.at = "setPos" => Erasing /\ screen.col = pos + 1 /\ a.row = screen.row /\ a.col = screen.col
  /\ a.at = "load" => Erasing /\ screen.col = pos
  /\ a.at = "store" => Erasing /\ screen.col = pos /\ a.pos = pos
  /\ a.at \in {"reset", "prompt"} => typed = << >>
  /\ a.at = "prompt" => pos = 0

LineInv ==
  /\ acts = << >> => Displayed /\ Len(typed) = pos /\ screen.col = pos + 1
  /\ acts # << >> => Len(acts) = 1 /\ Under(acts[1])

ShellInv == ShellTypeOK /\ Behind(screen) /\ LineInv

\* A handler begins when there is none, and there is none when it returns.
LEMMA OneHandler ==
  ASSUME NEW a \in Activation
  PROVE  /\ <<a>> \o << >> = <<a>> /\ Len(<<a>>) = 1 /\ <<a>>[1] = a /\ <<a>> # << >>
         /\ <<a>> \in Seq(Activation)
OBVIOUS

LEMMA OnlyHandler ==
  ASSUME acts \in Seq(Activation), acts # << >>, Len(acts) = 1
  PROVE  acts[1] \in Activation /\ Head(acts) = acts[1] /\ Tail(acts) = << >>
<1>1. acts[1] \in Activation /\ Head(acts) = acts[1]
  OBVIOUS
<1>2. Tail(acts) = << >>
  <2> DEFINE r == Tail(acts)
  <2>1. r \in Seq(Activation) /\ Len(r) = 0
    OBVIOUS
  <2> HIDE DEF r
  <2>2. r = << >>
    BY <2>1
  <2> QED
    BY <2>2 DEF r
<1> QED
  BY <1>1, <1>2

LEMMA AtPrompt ==
  ASSUME NEW s \in Screen, Prompted(s), screen' = s, typed' = << >>, acts' = << >>, pos' = 0
  PROVE  LineInv'
BY DEF Prompted, LineInv, Displayed

LEMMA InitShell == ShellInit => ShellInv
<1> SUFFICES ASSUME ShellInit PROVE ShellInv
  OBVIOUS
<1>1. screen \in Screen /\ Prompted(screen)
  BY FirstPrompt DEF ShellInit
<1>2. ShellTypeOK
  BY <1>1, LineAssumption DEF ShellInit, ShellTypeOK, ScreenTypeOK
<1>3. Behind(screen)
  BY <1>1, CleanBehind DEF Prompted
<1>4. LineInv
  BY <1>1 DEF ShellInit, LineInv, Displayed, Prompted
<1> QED
  BY <1>2, <1>3, <1>4 DEF ShellInv

LEMMA TakenIdle ==
  ASSUME Patient, ShellInv, Interrupt
  PROVE  /\ acts = << >> /\ Displayed /\ Len(typed) = pos /\ screen.col = pos + 1
         /\ keys' \in 0 .. MaxKeys
BY LineAssumption DEF Patient, ShellInv, ShellTypeOK, LineInv, Interrupt

LEMMA LetterKeeps == ASSUME Patient, ShellInv, PressLetter PROVE ShellInv'
<1>1. /\ acts = << >> /\ Displayed /\ Len(typed) = pos /\ screen.col = pos + 1
      /\ keys' \in 0 .. MaxKeys
  BY TakenIdle DEF PressLetter
<1>2. PICK k \in Key : /\ screen' = putc(screen, k)
                       /\ line' = [line EXCEPT ![pos + 1] = k]
                       /\ typed' = Append(typed, k)
  BY DEF PressLetter
<1>3. /\ screen \in Screen /\ Behind(screen) /\ typed \in Seq(Key)
      /\ line \in [1 .. LINE -> Key \cup {NUL}] /\ pos \in 0 .. MaxLine
      /\ pos < MaxLine /\ pos' = pos + 1 /\ acts' = acts /\ UNCHANGED arg
  BY DEF PressLetter, ShellInv, ShellTypeOK, ScreenTypeOK
<1>4. /\ k \in Char /\ screen.col < CSL_WIDTH /\ pos + 1 \in 1 .. LINE /\ pos + 1 \in 0 .. MaxLine
      /\ pos \in Nat /\ LINE \in Nat
  BY <1>1, <1>3, KeyFacts, LineAssumption, ScreenAssumption
<1>5. /\ screen' = [video |-> [screen.video EXCEPT ![At(screen.row, pos + 1)] = k],
                    row |-> screen.row, col |-> pos + 1 + 1]
      /\ screen' \in Screen /\ Clean(screen')
  BY <1>1, <1>2, <1>3, <1>4, PutcInRow
<1>6. /\ typed' \in Seq(Key) /\ Len(typed') = pos + 1 /\ typed'[pos + 1] = k
      /\ \A i \in 1 .. pos : typed'[i] = typed[i]
  BY <1>1, <1>2, <1>3
<1>7. line' \in [1 .. LINE -> Key \cup {NUL}] /\ line'[pos + 1] = k
      /\ \A i \in 1 .. pos : line'[i] = line[i]
  BY <1>2, <1>3, <1>4
<1>8. ShellTypeOK'
  BY <1>1, <1>3, <1>4, <1>5, <1>6, <1>7 DEF ShellInv, ShellTypeOK, ScreenTypeOK
<1>9. /\ screen'.row = screen.row /\ screen'.col = pos + 2
      /\ screen'.video[At(screen.row, pos + 1)] = k
      /\ \A i \in 0 .. pos : screen'.video[At(screen.row, i)] = screen.video[At(screen.row, i)]
  <2>1. screen.row \in 0 .. CSL_HEIGHT /\ screen.video \in [Cell -> Char]
        /\ \A i \in 0 .. pos + 1 : i \in 0 .. CSL_WIDTH
    BY <1>1, <1>3, <1>4, ScreenAssumption DEF Screen
  <2>2. \A i \in 0 .. pos + 1 : At(screen.row, i) \in Cell /\ At(screen.row, i) = At(screen.row, 0) + i
        /\ At(screen.row, 0) \in Nat
    BY <2>1, Cells
  <2>3. \A i \in 0 .. pos : At(screen.row, i) # At(screen.row, pos + 1)
    BY <1>4, <2>2
  <2> QED
    BY <1>4, <1>5, <2>1, <2>2, <2>3
<1>10. Displayed'
  <2>1. screen'.video[At(screen'.row, 0)] = "$"
    BY <1>1, <1>4, <1>9 DEF Displayed
  <2>2. ASSUME NEW i \in 1 .. pos + 1
        PROVE  screen'.video[At(screen'.row, i)] = typed'[i] /\ line'[i] = typed'[i]
    <3>1. CASE i = pos + 1
      BY <1>6, <1>7, <1>9, <3>1
    <3>2. CASE i # pos + 1
      <4>1. i \in 1 .. pos /\ i \in 0 .. pos
        BY <1>4, <3>2
      <4> QED
        BY <1>1, <1>6, <1>7, <1>9, <4>1 DEF Displayed
    <3> QED
      BY <3>1, <3>2
  <2> QED
    BY <1>5, <1>6, <2>1, <2>2 DEF Displayed
<1>11. LineInv'
  BY <1>1, <1>3, <1>4, <1>6, <1>9, <1>10 DEF LineInv
<1> QED
  BY <1>5, <1>8, <1>11, CleanBehind DEF ShellInv

LEMMA BackspaceKeeps == ASSUME Patient, ShellInv, PressBackspace PROVE ShellInv'
<1>1. /\ acts = << >> /\ Displayed /\ Len(typed) = pos /\ screen.col = pos + 1
      /\ keys' \in 0 .. MaxKeys
  BY TakenIdle DEF PressBackspace
<1> DEFINE a == [at |-> "setPos", row |-> screen.row, col |-> screen.col]
<1>2. /\ screen \in Screen /\ typed \in Seq(Key) /\ pos \in 0 .. MaxLine /\ pos > 0
      /\ UNCHANGED <<screen, line, pos, arg>>
      /\ acts' = <<a>> \o acts
      /\ typed' = IF typed = << >> THEN typed ELSE Front(typed)
  BY DEF Patient, PressBackspace, ShellInv, ShellTypeOK, ScreenTypeOK, buffers
<1>3. a \in Activation
  BY <1>2 DEF Activation, Screen
<1>4. acts' = <<a>> /\ acts' \in Seq(Activation) /\ Len(acts') = 1 /\ acts'[1] = a /\ acts' # << >>
  <2> HIDE DEF a
  <2> QED
    BY <1>1, <1>2, <1>3, OneHandler
<1>5. /\ typed' \in Seq(Key) /\ Len(typed') = pos - 1 /\ \A i \in 1 .. pos - 1 : typed'[i] = typed[i]
  <2>1. pos \in Nat /\ typed # << >>
    BY <1>1, <1>2, LineAssumption
  <2>2. typed' = SubSeq(typed, 1, pos - 1)
    BY <1>1, <1>2, <2>1 DEF Front
  <2> HIDE DEF a
  <2> QED
    BY <1>1, <1>2, <2>1, <2>2
<1>6. ShellTypeOK'
  <2> HIDE DEF a
  <2> QED
    BY <1>1, <1>2, <1>4, <1>5, LineAssumption DEF ShellInv, ShellTypeOK, ScreenTypeOK
<1>7. Erasing'
  <2> HIDE DEF a
  <2>1. \A i \in 1 .. pos - 1 : i \in 1 .. pos
    BY <1>2, LineAssumption
  <2> QED
    BY <1>1, <1>2, <1>5, <2>1 DEF Erasing, Displayed
<1>8. LineInv'
  <2>1. acts'[1].at = "setPos" /\ acts'[1].row = screen.row /\ acts'[1].col = screen.col
    BY <1>4
  <2> HIDE DEF a
  <2>2. Under(acts[1])'
    BY <1>1, <1>2, <1>7, <2>1 DEF Under
  <2> QED
    BY <1>4, <2>2 DEF LineInv
<1> QED
  BY <1>2, <1>6, <1>8 DEF ShellInv

LEMMA EmptyKeeps == ASSUME Patient, ShellInv, PressEnterOnEmpty PROVE ShellInv'
<1>1. acts = << >> /\ keys' \in 0 .. MaxKeys
  BY TakenIdle DEF PressEnterOnEmpty
<1>2. screen \in Screen /\ Behind(screen)
  BY DEF ShellInv, ShellTypeOK, ScreenTypeOK
<1>3. /\ pos = 0 /\ typed' = << >> /\ screen' = printf(screen, prompt)
      /\ UNCHANGED <<line, pos, arg, acts>>
  BY DEF PressEnterOnEmpty, buffers
<1>4. screen' \in Screen /\ Prompted(screen')
  BY <1>2, <1>3, PromptPrinted
<1>5. ShellTypeOK'
  BY <1>1, <1>3, <1>4, LineAssumption DEF ShellInv, ShellTypeOK, ScreenTypeOK
<1>6. LineInv'
  BY <1>1, <1>3, <1>4, AtPrompt
<1> QED
  BY <1>4, <1>5, <1>6, CleanBehind DEF ShellInv, Prompted

\* What is printed before the handler goes on does not matter, but that it is
\* only behind the cursor.
LEMMA EnterKeeps == ASSUME Patient, ShellInv, PressEnter PROVE ShellInv'
<1>1. acts = << >> /\ keys' \in 0 .. MaxKeys
  BY TakenIdle DEF PressEnter
<1>2. /\ screen \in Screen /\ Behind(screen) /\ arg \in Seq(Key)
      /\ line \in [1 .. LINE -> Key \cup {NUL}] /\ pos \in 0 .. MaxLine
  BY DEF ShellInv, ShellTypeOK, ScreenTypeOK
<1> DEFINE c == parseCmd(Terminated)
           a == [at |-> "reset"]
<1>3. /\ line' = Terminated /\ arg' = c.arg /\ typed' = << >>
      /\ \/ /\ screen' = printf(screen, Output(c))
            /\ acts' = <<a>> \o acts /\ pos' = pos
         \/ pos' = 0 /\ screen' = printf(screen, prompt) /\ acts' = acts
  BY DEF PressEnter
<1>4. Terminated \in [1 .. LINE -> Key \cup {NUL}]
  BY <1>2 DEF Terminated
<1>5. c \in [cmd : Seq(Key), arg : Seq(Key)]
  BY <1>2, <1>4, ParseCmdType
<1> HIDE DEF c
<1>6. Output(c) \in Seq(Printed) /\ arg' \in Seq(Key)
  BY <1>3, <1>5, OutputType
<1>7. typed' \in Seq(Key) /\ Len(typed') <= MaxLine
  BY <1>3, LineAssumption
<1>8. CASE screen' = printf(screen, Output(c)) /\ acts' = <<a>> \o acts /\ pos' = pos
  <2>1. screen' \in Screen /\ Behind(screen')
    BY <1>2, <1>6, <1>8, PrintfKeeps
  <2>2. a \in Activation
    BY DEF Activation
  <2>3. acts' \in Seq(Activation) /\ Len(acts') = 1 /\ acts'[1] = a /\ acts' # << >>
    <3> HIDE DEF a
    <3> QED
      BY <1>1, <1>8, <2>2, OneHandler
  <2>4. ShellTypeOK'
    <3> HIDE DEF a
    <3> QED
      BY <1>1, <1>2, <1>3, <1>4, <1>6, <1>7, <1>8, <2>1, <2>3, LineAssumption
      DEF ShellTypeOK, ScreenTypeOK
  <2>5. LineInv'
    <3>1. acts'[1].at = "reset"
      BY <2>3
    <3>2. Under(acts[1])'
      BY <1>3, <3>1 DEF Under
    <3> QED
      BY <2>3, <3>2 DEF LineInv
  <2> QED
    BY <2>1, <2>4, <2>5 DEF ShellInv
<1>9. CASE pos' = 0 /\ screen' = printf(screen, prompt) /\ acts' = acts
  <2>1. screen' \in Screen /\ Prompted(screen')
    BY <1>2, <1>9, PromptPrinted
  <2>2. ShellTypeOK'
    BY <1>1, <1>2, <1>3, <1>4, <1>6, <1>7, <1>9, <2>1, LineAssumption
    DEF ShellInv, ShellTypeOK, ScreenTypeOK
  <2>3. LineInv'
    BY <1>1, <1>3, <1>9, <2>1, AtPrompt
  <2> QED
    BY <2>1, <2>2, <2>3, CleanBehind DEF ShellInv, Prompted
<1> QED
  BY <1>3, <1>8, <1>9

\* The handler that is under way goes on with what it still has to do.
LEMMA StepFrom ==
  ASSUME ShellInv, NEW at, NEW then, Step(at, then)
  PROVE  /\ acts # << >> /\ Head(acts) = acts[1] /\ acts[1].at = at /\ acts[1] \in Activation
         /\ acts' = then \o << >> /\ Under(acts[1])
         /\ UNCHANGED <<line, arg, typed, keys>>
BY OnlyHandler DEF ShellInv, ShellTypeOK, LineInv, Step

LEMMA SetPosKeeps == ASSUME ShellInv, SetPos PROVE ShellInv'
<1> DEFINE a == [at |-> "load"]
<1>1. /\ Head(acts) = acts[1] /\ acts[1].at = "setPos" /\ Under(acts[1])
      /\ acts' = <<a>> \o << >> /\ UNCHANGED <<line, arg, typed, keys>>
  BY StepFrom DEF SetPos
<1>2. /\ Erasing /\ screen.col = pos + 1
      /\ acts[1].row = screen.row /\ acts[1].col = screen.col
  BY <1>1 DEF Under
<1>3. /\ screen' = setPos(screen, acts[1].row, acts[1].col - 1, Blank) /\ pos' = pos
  BY <1>1 DEF SetPos
<1>4. a \in Activation
  BY DEF Activation
<1> HIDE DEF a
<1>5. acts' \in Seq(Activation) /\ Len(acts') = 1 /\ acts'[1] = a /\ acts' # << >>
  BY <1>1, <1>4, OneHandler
<1>6. /\ screen \in Screen /\ pos \in 0 .. MaxLine /\ pos > 0 /\ Len(typed) = pos - 1 /\ pos \in Nat
      /\ Displayed
  BY <1>2, LineAssumption DEF ShellInv, ShellTypeOK, ScreenTypeOK, Erasing
<1>7. screen' = [video |-> [screen.video EXCEPT ![At(screen.row, pos)] = Blank],
                 row |-> screen.row, col |-> pos]
  <2>1. acts[1].col - 1 = pos
    BY <1>2, <1>6
  <2> QED
    BY <1>2, <1>3, <2>1 DEF setPos
<1>8. screen.row \in 0 .. CSL_HEIGHT /\ screen.video \in [Cell -> Char] /\ Blank \in Char
      /\ \A i \in 0 .. pos + 1 : i \in 0 .. CSL_WIDTH
  BY <1>6, LineAssumption, ScreenAssumption DEF Screen, Char
<1>9. \A i \in 0 .. pos + 1 : At(screen.row, i) \in Cell /\ At(screen.row, i) = At(screen.row, 0) + i
      /\ At(screen.row, 0) \in Nat
  BY <1>8, Cells
<1>10. screen' \in Screen /\ screen'.row = screen.row /\ screen'.col = pos
       /\ screen'.video = [screen.video EXCEPT ![At(screen.row, pos)] = Blank]
  <2>1. At(screen.row, pos) \in Cell /\ pos \in 0 .. CSL_WIDTH
    BY <1>6, <1>8, <1>9
  <2> QED
    BY <1>7, <1>8, <2>1 DEF Screen
<1>11. Clean(screen')
  <2> SUFFICES ASSUME NEW i \in Cell, At(screen.row, pos) <= i, i < At(CSL_HEIGHT, 0)
               PROVE  screen'.video[i] = Blank
    BY <1>10 DEF Clean
  <2>1. CASE i = At(screen.row, pos)
    BY <1>8, <1>10, <2>1
  <2>2. CASE i # At(screen.row, pos)
    <3>1. /\ At(screen.row, pos) = At(screen.row, 0) + pos
          /\ At(screen.row, pos + 1) = At(screen.row, 0) + (pos + 1) /\ At(screen.row, 0) \in Nat
      BY <1>6, <1>9
    <3>2. i \in Nat
      BY ScreenAssumption DEF Cell
    <3>3. At(screen.row, screen.col) <= i
      BY <1>2, <1>6, <2>2, <3>1, <3>2
    <3>4. screen.video[i] = Blank
      BY <1>6, <3>3 DEF Displayed, Clean
    <3> QED
      BY <1>8, <1>10, <2>2, <3>4
  <2> QED
    BY <2>1, <2>2
<1>12. \A i \in 0 .. pos - 1 : screen'.video[At(screen.row, i)] = screen.video[At(screen.row, i)]
  <2>1. \A i \in 0 .. pos - 1 : At(screen.row, i) # At(screen.row, pos) /\ At(screen.row, i) \in Cell
    BY <1>6, <1>9
  <2> QED
    BY <1>8, <1>10, <2>1
<1>13. Displayed'
  <2>1. 0 \in 0 .. pos - 1 /\ \A i \in 1 .. pos - 1 : i \in 0 .. pos - 1
    BY <1>6
  <2> QED
    BY <1>1, <1>6, <1>10, <1>11, <1>12, <2>1 DEF Displayed
<1>14. ShellTypeOK'
  BY <1>1, <1>3, <1>5, <1>10, LineAssumption DEF ShellInv, ShellTypeOK, ScreenTypeOK
<1>15. LineInv'
  <2>1. Erasing'
    BY <1>1, <1>3, <1>6, <1>13 DEF Erasing
  <2>2. acts'[1].at = "load"
    BY <1>5 DEF a
  <2>3. Under(acts[1])'
    BY <1>3, <1>10, <2>1, <2>2 DEF Under
  <2> QED
    BY <1>5, <2>3 DEF LineInv
<1> QED
  BY <1>10, <1>11, <1>14, <1>15, CleanBehind DEF ShellInv

LEMMA LoadKeeps == ASSUME ShellInv, LoadPos PROVE ShellInv'
<1> DEFINE a == [at |-> "store", pos |-> pos]
<1>1. /\ acts[1].at = "load" /\ Under(acts[1])
      /\ acts' = <<a>> \o << >> /\ UNCHANGED <<line, arg, typed, keys>>
  BY StepFrom DEF LoadPos
<1>2. UNCHANGED <<screen, pos>>
  BY DEF LoadPos
<1>3. Erasing /\ screen.col = pos
  BY <1>1 DEF Under
<1>4. a \in Activation
  BY DEF Activation, ShellInv, ShellTypeOK
<1>5. acts' \in Seq(Activation) /\ Len(acts') = 1 /\ acts'[1] = a /\ acts' # << >>
  <2> HIDE DEF a
  <2> QED
    BY <1>1, <1>4, OneHandler
<1>6. acts'[1].at = "store" /\ acts'[1].pos = pos
  BY <1>5
<1> HIDE DEF a
<1>7. ShellTypeOK'
  BY <1>1, <1>2, <1>5, LineAssumption DEF ShellInv, ShellTypeOK, ScreenTypeOK
<1>8. LineInv'
  <2>1. Erasing'
    BY <1>1, <1>2, <1>3 DEF Erasing, Displayed
  <2>2. Under(acts[1])'
    BY <1>2, <1>3, <1>6, <2>1 DEF Under
  <2> QED
    BY <1>5, <2>2 DEF LineInv
<1> QED
  BY <1>2, <1>7, <1>8 DEF ShellInv

LEMMA StoreKeeps == ASSUME ShellInv, StorePos PROVE ShellInv'
<1>1. /\ Head(acts) = acts[1] /\ acts[1].at = "store" /\ Under(acts[1])
      /\ acts' = << >> \o << >> /\ UNCHANGED <<line, arg, typed, keys>>
  BY StepFrom DEF StorePos
<1>2. acts' = << >> /\ acts' \in Seq(Activation) /\ Len(acts') = 0
  BY <1>1
<1>3. UNCHANGED screen /\ pos' = acts[1].pos - 1
  BY <1>1 DEF StorePos
<1>4. Erasing /\ screen.col = pos /\ acts[1].pos = pos
  BY <1>1 DEF Under
<1>5. pos' = pos - 1 /\ pos' \in 0 .. MaxLine /\ pos \in Nat
  BY <1>3, <1>4, LineAssumption DEF ShellInv, ShellTypeOK, Erasing
<1>6. ShellTypeOK'
  BY <1>1, <1>2, <1>3, <1>5, LineAssumption DEF ShellInv, ShellTypeOK, ScreenTypeOK
<1>7. LineInv'
  BY <1>1, <1>2, <1>3, <1>4, <1>5 DEF LineInv, Erasing, Displayed
<1> QED
  BY <1>3, <1>6, <1>7 DEF ShellInv

LEMMA ResetKeeps == ASSUME ShellInv, ResetPos PROVE ShellInv'
<1> DEFINE a == [at |-> "prompt"]
<1>1. /\ acts[1].at = "reset" /\ Under(acts[1])
      /\ acts' = <<a>> \o << >> /\ UNCHANGED <<line, arg, typed, keys>>
  BY StepFrom DEF ResetPos
<1>2. UNCHANGED screen /\ pos' = 0
  BY DEF ResetPos
<1>3. a \in Activation
  BY DEF Activation
<1>4. acts' \in Seq(Activation) /\ Len(acts') = 1 /\ acts'[1] = a /\ acts' # << >>
  <2> HIDE DEF a
  <2> QED
    BY <1>1, <1>3, OneHandler
<1>5. ShellTypeOK'
  <2> HIDE DEF a
  <2> QED
    BY <1>1, <1>2, <1>4, LineAssumption DEF ShellInv, ShellTypeOK, ScreenTypeOK
<1>6. LineInv'
  <2>1. acts'[1].at = "prompt" /\ typed' = << >>
    BY <1>1, <1>4 DEF Under
  <2>2. Under(acts[1])'
    BY <1>2, <2>1 DEF Under
  <2> QED
    BY <1>4, <2>2 DEF LineInv
<1> QED
  BY <1>2, <1>5, <1>6 DEF ShellInv

LEMMA PromptKeeps == ASSUME ShellInv, PrintPrompt PROVE ShellInv'
<1>1. /\ acts[1].at = "prompt" /\ Under(acts[1])
      /\ acts' = << >> \o << >> /\ UNCHANGED <<line, arg, typed, keys>>
  BY StepFrom DEF PrintPrompt
<1>2. acts' = << >> /\ acts' \in Seq(Activation) /\ Len(acts') = 0
  BY <1>1
<1>3. pos' = pos /\ pos = 0 /\ typed = << >> /\ screen' = printf(screen, prompt)
  BY <1>1 DEF PrintPrompt, Under
<1>4. screen' \in Screen /\ Prompted(screen')
  BY <1>3, PromptPrinted DEF ShellInv, ShellTypeOK, ScreenTypeOK
<1>5. ShellTypeOK'
  BY <1>1, <1>2, <1>3, <1>4, LineAssumption DEF ShellInv, ShellTypeOK, ScreenTypeOK
<1>6. LineInv'
  BY <1>1, <1>2, <1>3, <1>4, AtPrompt
<1> QED
  BY <1>4, <1>5, <1>6, CleanBehind DEF ShellInv, Prompted

LEMMA NextShell == ASSUME Patient, ShellInv, [ShellNext]_shellvars PROVE ShellInv'
<1>1. CASE UNCHANGED shellvars
  BY <1>1 DEF shellvars, buffers, ShellInv, ShellTypeOK, ScreenTypeOK, LineInv, Under, Erasing, Displayed
<1> QED
  BY <1>1, LetterKeeps, BackspaceKeeps, EmptyKeeps, EnterKeeps, SetPosKeeps, LoadKeeps,
     StoreKeeps, ResetKeeps, PromptKeeps DEF ShellNext

LEMMA ShellInvCorrect == ASSUME Patient PROVE ShellSpec => []ShellInv
<1>1. ShellInv /\ [ShellNext]_shellvars => ShellInv'
  BY NextShell
<1> QED
  BY <1>1, InitShell, PTL DEF ShellSpec

(***************************************************************************)
(* The shell keeps its types for any screen, any length of lines and any   *)
(* number of keys, whatever blanks are typed (kbdInterruptHandler).        *)
(***************************************************************************)
THEOREM ShellTypeCorrect == ASSUME Patient PROVE ShellSpec => []ShellTypeOK
<1>1. ShellInv => ShellTypeOK
  BY DEF ShellInv
<1> QED
  BY <1>1, ShellInvCorrect, PTL

(***************************************************************************)
(* The line behind the prompt is the one that Enter will run (putc,        *)
(* setPos, and the stores to line and pos of kbdInterruptHandler).         *)
(***************************************************************************)
THEOREM EchoCorrect == ASSUME Patient PROVE ShellSpec => []EchoesTheLine
<1>1. ASSUME ShellInv, acts = << >>
      PROVE  /\ screen.col > pos /\ screen.video[At(screen.row, screen.col - pos - 1)] = "$"
             /\ Shown = SubSeq(line, 1, pos) /\ typed = SubSeq(line, 1, pos)
  <2>1. Displayed /\ Len(typed) = pos /\ screen.col = pos + 1 /\ pos \in 0 .. MaxLine
    BY <1>1 DEF ShellInv, ShellTypeOK, LineInv
  <2>2. screen.col - pos - 1 = 0 /\ pos \in Nat
    BY <2>1, LineAssumption
  <2>3. \A i \in 1 .. pos : screen.col - pos + i - 1 = i
    BY <2>1, LineAssumption
  <2>4. typed \in Seq(Key) /\ line \in [1 .. LINE -> Key \cup {NUL}] /\ \A i \in 1 .. pos : i \in 1 .. LINE
    BY <1>1, <2>1, LineAssumption DEF ShellInv, ShellTypeOK
  <2>5. SubSeq(line, 1, pos) = [i \in 1 .. pos |-> line[i]]
    BY <2>2
  <2>6. Shown = [i \in 1 .. pos |-> line[i]]
    <3>1. \A i \in 1 .. pos : screen.video[At(screen.row, screen.col - pos + i - 1)] = line[i]
      BY <2>1, <2>3 DEF Displayed
    <3> QED
      BY <3>1 DEF Shown
  <2>7. typed = [i \in 1 .. pos |-> line[i]]
    BY <2>1, <2>2, <2>4 DEF Displayed
  <2> QED
    BY <2>1, <2>2, <2>5, <2>6, <2>7 DEF Displayed
<1>2. ShellInv => EchoesTheLine
  BY <1>1 DEF EchoesTheLine
<1> QED
  BY <1>2, ShellInvCorrect, PTL

(***************************************************************************)
(* Nothing that was erased, or printed before, is left behind the cursor   *)
(* (putc, setPos, clear).                                                  *)
(***************************************************************************)
THEOREM NothingBehindCorrect == ASSUME Patient PROVE ShellSpec => []NothingBehindCursor
<1>1. ASSUME ShellInv, acts = << >>, screen.row < CSL_HEIGHT,
             NEW c \in screen.col .. CSL_WIDTH - 1
      PROVE  screen.video[At(screen.row, c)] = Blank
  <2>1. Clean(screen) /\ screen \in Screen
    BY <1>1 DEF ShellInv, ShellTypeOK, ScreenTypeOK, LineInv, Displayed
  <2>2. /\ screen.row \in 0 .. CSL_HEIGHT /\ screen.col \in 0 .. CSL_WIDTH
        /\ c \in 0 .. CSL_WIDTH /\ c < CSL_WIDTH /\ screen.col <= c
    BY <2>1, ScreenAssumption DEF Screen
  <2>3. /\ At(screen.row, c) \in Cell /\ At(screen.row, c) = At(screen.row, 0) + c
        /\ At(screen.row, screen.col) = At(screen.row, 0) + screen.col
        /\ At(screen.row, 0) \in Nat /\ At(screen.row + 1, 0) = At(screen.row, 0) + CSL_WIDTH
        /\ At(screen.row + 1, 0) <= At(CSL_HEIGHT, 0)
    BY <1>1, <2>2, Cells
  <2>4. At(CSL_HEIGHT, 0) \in Nat
    BY Cells, ScreenAssumption
  <2>5. At(screen.row, screen.col) <= At(screen.row, c) /\ At(screen.row, c) < At(CSL_HEIGHT, 0)
    BY <2>2, <2>3, <2>4, ScreenAssumption
  <2> QED
    BY <2>1, <2>3, <2>5 DEF Clean
<1>2. ShellInv => NothingBehindCursor
  BY <1>1 DEF NothingBehindCursor
<1> QED
  BY <1>2, ShellInvCorrect, PTL

(***************************************************************************)
(* What Enter runs is what was typed, with the blanks and arguments that   *)
(* the parser provides for, whatever earlier lines have left in the        *)
(* buffers (parseCmd, kbdInterruptHandler).                                *)
(***************************************************************************)
THEOREM RunsCorrect == ASSUME Habits = {} PROVE ShellSpec => []RunsWhatWasTyped
<1>1. Patient
  BY DEF Patient
<1>2. ShellInit => RunsWhatWasTyped
  BY DEF ShellInit, RunsWhatWasTyped
<1>3. ASSUME ShellInv, RunsWhatWasTyped, [ShellNext]_shellvars PROVE RunsWhatWasTyped'
  <2>1. CASE PressEnter
    <3>1. acts = << >> /\ Displayed /\ Len(typed) = pos
      BY <1>1, <1>3, <2>1, TakenIdle DEF PressEnter
    <3>2. /\ arg \in Seq(Key) /\ line \in [1 .. LINE -> Key \cup {NUL}]
          /\ typed \in Seq(Key) /\ pos \in 1 .. LINE - 1 /\ pos + 1 \in 1 .. LINE
      BY <1>3, <2>1, LineAssumption DEF ShellInv, ShellTypeOK, PressEnter
    <3>3. /\ Terminated \in [1 .. LINE -> Key \cup {NUL}] /\ Terminated[pos + 1] = NUL
          /\ \A i \in 1 .. pos : typed[i] = Terminated[i]
      <4>1. \A i \in 1 .. pos : i # pos + 1 /\ i \in 1 .. LINE
        BY <3>2, LineAssumption
      <4>2. /\ Terminated \in [1 .. LINE -> Key \cup {NUL}] /\ Terminated[pos + 1] = NUL
            /\ \A i \in 1 .. LINE : i # pos + 1 => Terminated[i] = line[i]
        BY <3>2 DEF Terminated
      <4>3. \A i \in 1 .. pos : line[i] = typed[i]
        BY <3>1 DEF Displayed
      <4> QED
        BY <4>1, <4>2, <4>3
    <3>4. Provided(typed)
      BY <2>1 DEF PressEnter
    <3>5. Effective(parseCmd(Terminated)) = Meant(typed)
      <4> DEFINE l == Terminated
                 n == pos
                 t == typed
      <4>1. BeginsWith(l, n, t) /\ Provided(t) /\ arg \in Seq(Key)
        BY <3>1, <3>2, <3>3, <3>4 DEF BeginsWith
      <4> HIDE DEF l, n, t
      <4>2. Effective(parseCmd(l)) = Meant(t)
        BY <4>1, ParseMeant
      <4> QED
        BY <4>2 DEF l, t
    <3> QED
      BY <2>1, <3>5 DEF PressEnter, RunsWhatWasTyped
  <2>2. CASE PressLetter \/ PressBackspace \/ PressEnterOnEmpty
    BY <1>3, <2>2 DEF PressLetter, PressBackspace, PressEnterOnEmpty, RunsWhatWasTyped
  <2>3. CASE SetPos \/ LoadPos \/ StorePos \/ ResetPos \/ PrintPrompt
    BY <1>3, <2>3 DEF SetPos, LoadPos, StorePos, ResetPos, PrintPrompt, Step, RunsWhatWasTyped
  <2>4. CASE UNCHANGED shellvars
    BY <1>3, <2>4 DEF shellvars, RunsWhatWasTyped
  <2> QED
    BY <1>3, <2>1, <2>2, <2>3, <2>4 DEF ShellNext
<1>4. ShellInv /\ RunsWhatWasTyped /\ [ShellNext]_shellvars => RunsWhatWasTyped'
  BY <1>3
<1>5. ShellSpec => []ShellInv
  BY <1>1, ShellInvCorrect
<1> QED
  BY <1>2, <1>4, <1>5, PTL DEF ShellSpec
==============================================================================
