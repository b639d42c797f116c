------------------------------- MODULE RawI2c --------------------------------
(***************************************************************************)
(* read_raw_adt7420_temp_mc: the display helper bangs the bits of an I2C   *)
(* bus through one CSR, reads the sensor's configuration and then its      *)
(* temperature, and may be killed between any two writes of that CSR.  The *)
(* register keeps the pins as they were, the sensor stays in the middle of *)
(* its byte, and the next process begins on both.                          *)
(*                                                                         *)
(* A byte has AddressBits + 1 bits, so an address and the direction fill   *)
(* it.  Every delay is longer than the sensor takes to react: it reacts in *)
(* the step that changes the pins.  SDA is only ever pulled low (SDA_W is  *)
(* never written with SDA_DIR as 1), so `low' stands for both bits.        *)
(***************************************************************************)
EXTENDS SequencesExt

CONSTANTS Address,    \* ambient_i2c_addr, a sequence of bits
          Sensors,    \* addresses at which the sensor may be
          Contents,   \* what its registers 0 .. 3 may hold
          MaxKills    \* bound: times the process is killed

AddressBits == Len(Address)
ByteBits    == AddressBits + 1
Byte        == [1..ByteBits -> {0, 1}]

ASSUME RawI2cAssumption ==
    /\ Address \in Seq({0, 1}) /\ AddressBits >= 2
    /\ Sensors \subseteq [1..AddressBits -> {0, 1}]
    /\ Contents \subseteq [0..3 -> Byte]
    /\ MaxKills \in Nat

VARIABLES
    (* process *)
    at,      \* next operation of Program; 0 between two readings
    acked,   \* what write_byte read in the acknowledge clock
    bits,    \* bits read so far: cfg, temp[0], temp[1]
    result,  \* of the last reading: "none", "ok" or "failed"
    settled, \* before this reading nobody was killed, or one was "ok" since
    kills,
    (* CSR *)
    scl, low,
    (* sensor *)
    sensor,  \* its address
    file,    \* its registers
    mode,    \* "idle", "address", "pointer", "data" (written), "send"
    count,   \* clocks of the byte under way
    shift,   \* bits received of it; the master's answer when sending
    ptr,     \* address pointer
    pull     \* pulls SDA low

process == <<at, acked, bits, result, settled, kills>>
pins    == <<scl, low>>
slave   == <<sensor, file, mode, count, shift, ptr, pull>>
vars    == <<process, pins, slave>>

Wire(l, p) == IF l \/ p THEN 0 ELSE 1

SDA == Wire(low, pull)

-----------------------------------------------------------------------------
(* The operations of one reading, in the order of the code *)

Register(r) == [b \in 1..ByteBits |->
                  IF b < ByteBits - 1 THEN 0
                  ELSE IF b = ByteBits THEN r % 2 ELSE r \div 2]

raw_i2c_init_bus == <<"zero", "release", "scl1">>

raw_i2c_start == <<"release", "scl1", "low", "scl0">>

\* Mutant: the line is not released at the end.
raw_i2c_stop_Held == <<"low", "scl1">>

raw_i2c_stop == <<"low", "scl1", "release">>

\* Mutant: the data line moves before the clock is low.
raw_i2c_write_byte_Early(byte) ==
    FlattenSeq([b \in 1..ByteBits |->
                  <<IF byte[b] = 1 THEN "release" ELSE "low", "scl0", "scl1">>])
    \o <<"scl0", "release", "scl1", "release", "ack", "scl0", "check">>

raw_i2c_write_byte(byte) ==
    FlattenSeq([b \in 1..ByteBits |->
                  <<"scl0", IF byte[b] = 1 THEN "release" ELSE "low", "scl1">>])
    \o <<"scl0", "release", "scl1", "release", "ack", "scl0", "check">>

\* Mutant: every byte is acknowledged, the last one too.
raw_i2c_read_byte_AckAll(ack) ==
    <<"release">>
    \o FlattenSeq([b \in 1..ByteBits |->
                     <<"scl0", "release", "scl1", "release", "bit">>])
    \o <<"scl0", "low", "scl1", "scl0", "release">>

raw_i2c_read_byte(ack) ==
    <<"release">>
    \o FlattenSeq([b \in 1..ByteBits |->
                     <<"scl0", "release", "scl1", "release", "bit">>])
    \o <<"scl0", IF ack THEN "low" ELSE "release", "scl1", "scl0", "release">>

\* Mutant: the direction is turned without a second start.
raw_i2c_read_reg_NoRestart(reg, len) ==
    raw_i2c_start
    \o raw_i2c_write_byte(Append(Address, 0))
    \o raw_i2c_write_byte(Register(reg))
    \o raw_i2c_write_byte(Append(Address, 1))
    \o FlattenSeq([b \in 1..len |-> raw_i2c_read_byte(b < len)])
    \o raw_i2c_stop

raw_i2c_read_reg(reg, len) ==
    raw_i2c_start
    \o raw_i2c_write_byte(Append(Address, 0))
    \o raw_i2c_write_byte(Register(reg))
    \o raw_i2c_start
    \o raw_i2c_write_byte(Append(Address, 1))
    \o FlattenSeq([b \in 1..len |-> raw_i2c_read_byte(b < len)])
    \o raw_i2c_stop

\* The stop after the second register, and the one before csr_close.
Ending == raw_i2c_stop \o <<"close">>

Program == raw_i2c_init_bus \o raw_i2c_read_reg(3, 1) \o raw_i2c_read_reg(0, 2) \o Ending

\* A byte that is not acknowledged leads to read_reg's stop, then to the end.
FailAt == Len(Program) - Len(Ending) - Len(raw_i2c_stop) + 1

-----------------------------------------------------------------------------
(* Sensor (external) *)

Receiving == mode \in {"address", "pointer", "data"}

SentBit(r, b) == file[r][b] = 0          \* a 0 is sent by pulling

Value(byte) == 2 * byte[ByteBits - 1] + byte[ByteBits]

Seen(m) == /\ mode' = m
           /\ count' = 0 /\ shift' = <<>> /\ pull' = FALSE
           /\ UNCHANGED <<sensor, file, ptr>>

\* The clock rises: a bit is taken.
Rise(bit) ==
    /\ IF mode = "idle" THEN UNCHANGED <<count, shift>>
       ELSE /\ count' = count + 1
            /\ shift' = IF mode = "send" THEN <<bit>>
                        ELSE IF count < ByteBits THEN Append(shift, bit) ELSE shift
    /\ UNCHANGED <<sensor, file, mode, ptr, pull>>

\* The clock falls after the last bit of a byte received: acknowledge it.
Acknowledge ==
    /\ Receiving
    /\ count = ByteBits
    /\ \/ mode = "address" /\ SubSeq(shift, 1, AddressBits) # sensor /\ Seen("idle")
       \/ /\ mode = "address" => SubSeq(shift, 1, AddressBits) = sensor
          /\ pull' = TRUE
          /\ UNCHANGED <<sensor, file, mode, count, shift, ptr>>

\* The clock falls after the acknowledge: the byte takes effect.  Only the
\* configuration can be written.
Accept ==
    /\ Receiving
    /\ count = ByteBits + 1
    /\ count' = 0 /\ shift' = <<>>
    /\ mode' = IF mode # "address" THEN "data"
               ELSE IF shift[ByteBits] = 1 THEN "send" ELSE "pointer"
    /\ pull' = (mode' = "send" /\ SentBit(ptr, 1))
    /\ file' = IF mode = "data" /\ ptr = 3 THEN [file EXCEPT ![3] = shift] ELSE file
    /\ ptr' = IF mode = "pointer" THEN Value(shift)
              ELSE IF mode = "data" THEN (ptr + 1) % 4 ELSE ptr
    /\ UNCHANGED sensor

\* The clock falls while sending: the next bit, or the master's answer.
Send ==
    /\ mode = "send"
    /\ \/ /\ count < ByteBits
          /\ pull' = SentBit(ptr, count + 1)
          /\ UNCHANGED <<mode, count, shift, ptr>>
       \/ /\ count = ByteBits
          /\ pull' = FALSE
          /\ UNCHANGED <<mode, count, shift, ptr>>
       \/ /\ count = ByteBits + 1
          /\ count' = 0 /\ shift' = <<>>
          /\ ptr' = (ptr + 1) % 4
          /\ mode' = IF shift = <<0>> THEN "send" ELSE "idle"
          /\ pull' = (mode' = "send" /\ SentBit(ptr', 1))
    /\ UNCHANGED <<sensor, file>>

Fall == \/ Acknowledge \/ Accept \/ Send
        \/ mode = "idle" /\ UNCHANGED slave
        \/ Receiving /\ count < ByteBits /\ UNCHANGED slave

\* What the sensor makes of the pins' change.
React(newScl, newLow) ==
    LET now == Wire(newLow, pull) IN
    \/ scl = 1 /\ newScl = 1 /\ SDA = 1 /\ now = 0 /\ Seen("address")   \* start
    \/ scl = 1 /\ newScl = 1 /\ SDA = 0 /\ now = 1 /\ Seen("idle")      \* stop
    \/ scl = 0 /\ newScl = 1 /\ Rise(now)
    \/ scl = 1 /\ newScl = 0 /\ Fall
    \/ scl = newScl /\ (scl = 0 \/ SDA = now) /\ UNCHANGED slave

-----------------------------------------------------------------------------
(* Process *)

Init ==
    /\ at = 0 /\ acked = FALSE /\ bits = <<>>
    /\ result = "none" /\ settled = TRUE /\ kills = 0
    /\ scl = 0 /\ low = FALSE               \* the CSR's reset value
    /\ sensor \in Sensors
    /\ file \in Contents
    /\ mode = "idle" /\ count = 0 /\ shift = <<>> /\ ptr = 0 /\ pull = FALSE

Op == Program[at]

Begin ==
    /\ at = 0
    /\ at' = 1
    /\ bits' = <<>>
    /\ result' = "none"
    /\ settled' = (settled \/ result = "ok")
    /\ UNCHANGED <<acked, kills, pins, slave>>

SetPins ==
    /\ at > 0 /\ Op \in {"zero", "scl0", "scl1", "low", "release"}
    /\ scl' = IF Op \in {"zero", "scl0"} THEN 0 ELSE IF Op = "scl1" THEN 1 ELSE scl
    /\ low' = IF Op \in {"zero", "release"} THEN FALSE
              ELSE IF Op = "low" THEN TRUE ELSE low
    /\ React(scl', low')
    /\ at' = at + 1
    /\ UNCHANGED <<acked, bits, result, settled, kills>>

ReadAck ==
    /\ at > 0 /\ Op = "ack"
    /\ acked' = (SDA = 0)
    /\ at' = at + 1
    /\ UNCHANGED <<bits, result, settled, kills, pins, slave>>

\* Mutant: write_byte's result is not looked at.
CheckAck_Ignored ==
    /\ at > 0 /\ Op = "check"
    /\ at' = at + 1
    /\ UNCHANGED <<acked, bits, result, settled, kills, pins, slave>>

CheckAck ==
    /\ at > 0 /\ Op = "check"
    /\ at' = IF acked THEN at + 1 ELSE FailAt
    /\ result' = IF acked THEN result ELSE "failed"
    /\ UNCHANGED <<acked, bits, settled, kills, pins, slave>>

ReadBit ==
    /\ at > 0 /\ Op = "bit"
    /\ bits' = Append(bits, SDA)
    /\ at' = at + 1
    /\ UNCHANGED <<acked, result, settled, kills, pins, slave>>

Close ==
    /\ at > 0 /\ Op = "close"
    /\ at' = 0
    /\ result' = IF result = "failed" THEN "failed" ELSE "ok"
    /\ UNCHANGED <<acked, bits, settled, kills, pins, slave>>

Kill ==
    /\ at > 0
    /\ kills < MaxKills
    /\ kills' = kills + 1
    /\ at' = 0
    /\ result' = "none"
    /\ settled' = FALSE
    /\ UNCHANGED <<acked, bits, pins, slave>>

Step == Begin \/ SetPins \/ ReadAck \/ CheckAck \/ ReadBit \/ Close

Next == Step \/ Kill

Spec == Init /\ [][Next]_vars

\* build_display_cells tries again with every update.
FairSpec == Spec /\ WF_vars(Step)

-----------------------------------------------------------------------------
Closed == at = 0 /\ result # "none"

RightBits == bits = file[3] \o file[0] \o file[1]

TemperatureBits == \E cfg \in Byte : bits = cfg \o file[0] \o file[1]

(***************************************************************************)
(* A reading that nobody was killed before, or that follows a good one     *)
(* with no kill between, brings the three registers it asked for from the  *)
(* sensor it addressed, and fails only if no sensor is there.              *)
(***************************************************************************)
ReadsWhatItAsks ==
    settled /\ Closed => \/ result = "ok" /\ sensor = Address /\ RightBits
                         \/ result = "failed" /\ sensor # Address

(***************************************************************************)
(* Such a reading, a failed one too, and any good reading leave both lines *)
(* high and a sensor that has seen the stop.                               *)
(***************************************************************************)
LeavesBusIdle ==
    Closed /\ (settled \/ result = "ok") => scl = 1 /\ SDA = 1 /\ mode = "idle"

(***************************************************************************)
(* Whatever the processes killed before it have left on the bus, a reading *)
(* that counts as good has the temperature's two registers right.  Only    *)
(* its configuration byte may be of another register.                      *)
(***************************************************************************)
GoodIsRight == Closed /\ result = "ok" => TemperatureBits

(***************************************************************************)
(* No start or stop condition falls inside a byte: while the clock is high *)
(* SDA moves only where the sensor has no bit of a byte under way, in a    *)
(* reading that no kill disturbs.                                          *)
(***************************************************************************)
NoConditionInsideByte ==
    [][settled /\ scl = 1 /\ scl' = 1 /\ SDA' # SDA /\ mode # "idle" => count <= 1]_vars

(***************************************************************************)
(* Such a reading never writes a register.                                 *)
(***************************************************************************)
NeverWrites == [][settled => file' = file]_vars

(***************************************************************************)
(* After a kill anywhere in a transfer, the readings become right again by *)
(* themselves, though nothing clocks the sensor out of its byte.           *)
(***************************************************************************)
Recovers == sensor = Address => []<>(Closed /\ result = "ok" /\ RightBits)
==============================================================================
