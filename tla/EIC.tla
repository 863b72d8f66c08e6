-------------------------------- MODULE EIC --------------------------------
(***************************************************************************)
(* The External Interrupt Controller of the SAMD21 and everything in the   *)
(* port that uses it: the driver (peripherals/samd/external_interrupts.c   *)
(* and samd21/external_interrupts.c), its three clients (pulseio.PulseIn,  *)
(* rotaryio.IncrementalEncoder and wakey.zzz) and the reset between two    *)
(* Python programs.                                                        *)
(*                                                                         *)
(* Two threads of control share this state: the main thread, which runs    *)
(* one client operation at a time and writes the registers one after the   *)
(* other, and EIC_Handler, which preempts it between any two writes unless *)
(* interrupts are disabled.  The hardware latches an edge at any moment.   *)
(* A main-thread operation is a sequence of steps, with `pc' naming the    *)
(* next one; the steps of turn_on_eic_channel and turn_off_eic_channel are *)
(* shared by their callers, and `call' is the frame they run with.         *)
(***************************************************************************)
EXTENDS Integers

CONSTANTS
  N,             \* EIC_EXTINT_NUM, the number of channels
  Pin,           \* the pins of the board
  HasExtint,     \* the pins that have an EXTINT channel
  ChannelOf,     \* extint_channel of every pin (0 for a pin without one)
  PulseIn,       \* the PulseIn objects a program may create
  Encoder,       \* the IncrementalEncoder objects a program may create
  Ops,           \* the operations the Python program makes use of
  BackgroundOk,  \* what background_tasks_ok() may return
  Sleeper,       \* zzz, as a user of channels
  NULL           \* the null pointer, and NO_PIN

Channel == 0 .. N - 1
Client == PulseIn \cup Encoder
AllOps == {"pulsein", "encoder", "deinit", "pause", "resume", "zzz", "end"}

ASSUME ChannelsAssumption ==
  /\ N \in Nat \ {0}
  /\ HasExtint \subseteq Pin
  /\ ChannelOf \in [Pin -> Channel]
ASSUME ClientsAssumption ==
  /\ NULL \notin Client \cup Pin
  /\ PulseIn \cap Encoder = {}
  /\ Sleeper \notin Client \cup {NULL}
ASSUME OpsAssumption == Ops \subseteq AllOps /\ BackgroundOk \subseteq BOOLEAN

VARIABLES
  busclk,    \* PM.APBAMASK.EIC: without it EIC registers read 0, writes are lost
  enable,    \* EIC.CTRL.ENABLE
  config,    \* EIC.CONFIG: the edges each channel detects
  inten,     \* EIC.INTENSET/INTENCLR: the channels that interrupt
  intflag,   \* EIC.INTFLAG: the channels with a latched edge
  wakeup,    \* EIC.WAKEUP: the channels that wake the CPU from standby
  nvic,      \* EIC_IRQn is enabled in the NVIC
  mux,       \* the pins connected to the EIC (pin function A)
  data,      \* channel_data
  handler,   \* channel_handler
  pinA,      \* self->pin of a PulseIn, self->pin_a of an encoder; NULL: deinited
  pinB,      \* self->pin_b of an encoder; the same as pinA for a PulseIn
  first,     \* self->first_edge of every PulseIn
  errored,   \* self->errored_too_fast of every PulseIn
  isr,       \* EIC_Handler: what it does next, and for which channel
  pc,        \* the next step of the main thread; "idle" between operations
  self,      \* the object the main thread's operation is about
  call,      \* the arguments of the driver call the main thread is in
  copy,      \* the value of CONFIG read by configure_eic_channel
  misuse     \* not in the code: how far users got into each other's channels

regs == <<busclk, enable, config, inten, intflag, wakeup, nvic, mux>>
table == <<data, handler>>
objects == <<pinA, pinB, first, errored>>
handling == <<isr, misuse>>
thread == <<pc, self, call, copy>>
vars == <<regs, table, objects, handling, thread>>

Sense == {"none", "one", "both"}   \* "one": RISE or FALL, one edge only
Handler == {"none", "pulsein", "encoder", "wakey"}
Labels == {"idle", "cfg_read", "cfg_write", "intenset", "set_handler", "cpu_irq",
           "encoder_b", "off_inten", "off_data", "off_nvic", "off_ctrl", "off_b",
           "unpin", "res_first", "res_flag", "res_inten", "wake_ctrl", "sleep", "wfi"}

(* Since the program began, "none"; or zzz took a channel that an object owns, *)
(* or the controller was turned off while an object still owned one, "shared"; *)
(* or, since the board was reset, a handler ran on something that is not its    *)
(* object, "stray".  The properties that this ends say so.                     *)
Misuse == {"none", "shared", "stray"}
Shared == misuse' = IF misuse = "none" THEN "shared" ELSE misuse

Frame(c, s, h, ret) == [ch |-> c, sense |-> s, handler |-> h, ret |-> ret]
NoFrame == Frame(0, "none", "none", "idle")
Frames == [ch : Channel, sense : Sense, handler : Handler, ret : Labels]
Quiet == [phase |-> "out", ch |-> 0]
AllNone == [c \in Channel |-> "none"]

Live(o) == pinA[o] # NULL
ChannelA(o) == ChannelOf[pinA[o]]
ChannelB(o) == ChannelOf[pinB[o]]

----------------------------------------------------------------------------
(* Hardware: a register of the EIC needs the bus clock.                     *)

Written(reg, value) == IF busclk THEN value ELSE reg
ReadInten == IF busclk THEN inten ELSE {}
eic_get_enable == busclk /\ enable

(* An edge on a connected pin is latched whether or not INTEN is set.        *)
Edge(p) ==
  /\ p \in mux \cap HasExtint
  /\ enable
  /\ config[ChannelOf[p]] # "none"
  /\ ChannelOf[p] \notin intflag
  /\ intflag' = intflag \cup {ChannelOf[p]}
  /\ UNCHANGED <<busclk, enable, config, inten, wakeup, nvic, mux, table, objects, handling, thread>>

PowerOn ==
  /\ busclk = TRUE /\ enable = FALSE /\ nvic = FALSE
  /\ config = AllNone
  /\ inten = {} /\ intflag = {} /\ wakeup = {} /\ mux = {}
  /\ data = [c \in Channel |-> NULL]
  /\ handler = AllNone
  /\ pinA = [o \in Client |-> NULL] /\ pinB = [o \in Client |-> NULL]
  /\ first = [o \in PulseIn |-> TRUE] /\ errored = [o \in PulseIn |-> FALSE]
  /\ isr = Quiet /\ misuse = "none"
  /\ pc = "idle" /\ self = NULL /\ call = NoFrame /\ copy = AllNone

----------------------------------------------------------------------------
(* The main thread: steps of the driver.                                    *)

Running(l) == pc = l /\ isr.phase = "out"
Starts(op) == Running("idle") /\ op \in Ops
Goto(l) == pc' = l /\ UNCHANGED <<self, call, copy>>
Calls(l, o, frame) == pc' = l /\ self' = o /\ call' = frame /\ UNCHANGED copy
Return == pc' = call.ret /\ UNCHANGED <<self, call, copy>>
Done == pc' = "idle" /\ self' = NULL /\ call' = NoFrame /\ copy' = AllNone

eic_channel_free(c) == data[c] = NULL /\ c \notin ReadInten

\* What the constructors ask of a channel before they take it.
AvailableUnchecked(c) == TRUE
Available(c) == eic_get_enable => eic_channel_free(c)

TurnOnClockOnly == busclk' = TRUE /\ UNCHANGED enable
TurnOnController == busclk' = TRUE /\ enable' = TRUE

(* turn_on_eic_channel: CONFIG is read and written back with interrupts     *)
(* disabled, then INTENSET, channel_handler and the NVIC are written.       *)
ConfigRead ==
  /\ Running("cfg_read")
  /\ copy' = IF busclk THEN config ELSE AllNone
  /\ pc' = "cfg_write"
  /\ UNCHANGED <<regs, table, objects, handling, self, call>>

ConfigWrite ==
  /\ Running("cfg_write")
  /\ config' = Written(config, [copy EXCEPT ![call.ch] = call.sense])
  /\ copy' = AllNone
  /\ pc' = "intenset"
  /\ UNCHANGED <<busclk, enable, inten, intflag, wakeup, nvic, mux, table, objects, handling, self, call>>

IntenSet ==
  /\ Running("intenset")
  /\ inten' = Written(inten, inten \cup {call.ch})
  /\ Goto("set_handler")
  /\ UNCHANGED <<busclk, enable, config, intflag, wakeup, nvic, mux, table, objects, handling>>

SetHandler ==
  /\ Running("set_handler")
  /\ handler' = [handler EXCEPT ![call.ch] = call.handler]
  /\ Goto("cpu_irq")
  /\ UNCHANGED <<regs, data, objects, handling>>

TurnOnCpuInterrupt ==
  /\ Running("cpu_irq")
  /\ nvic' = TRUE
  /\ IF call.ret = "idle" THEN Done ELSE Return
  /\ UNCHANGED <<busclk, enable, config, inten, intflag, wakeup, mux, table, objects, handling>>

(* turn_off_eic_channel: INTENSET is read twice, and interrupts are enabled  *)
(* throughout.                                                              *)
OffMaskForgotten(c) == {}
OffMask(c) == {c}
DataKept(c) == data
DataCleared(c) == [data EXCEPT ![c] = NULL]
OwnBitClear == call.ch \notin ReadInten
NothingEnabled == ReadInten = {}

OffInten ==
  /\ Running("off_inten")
  /\ inten' = Written(inten, inten \ OffMask(call.ch))
  /\ Goto("off_data")
  /\ UNCHANGED <<busclk, enable, config, intflag, wakeup, nvic, mux, table, objects, handling>>

OffData ==
  /\ Running("off_data")
  /\ data' = DataCleared(call.ch)
  /\ Goto("off_nvic")
  /\ UNCHANGED <<regs, handler, objects, handling>>

OffNvic ==
  /\ Running("off_nvic")
  /\ nvic' = (nvic /\ ~NothingEnabled)
  /\ Goto("off_ctrl")
  /\ UNCHANGED <<busclk, enable, config, inten, intflag, wakeup, mux, table, objects, handling>>

OffController ==
  /\ Running("off_ctrl")
  /\ enable' = (enable /\ ~NothingEnabled)
  /\ busclk' = (busclk /\ ~NothingEnabled)
  /\ IF NothingEnabled /\ \E o \in Client \ {self} : Live(o) THEN Shared ELSE UNCHANGED misuse
  /\ Return
  /\ UNCHANGED <<config, inten, intflag, wakeup, nvic, mux, table, objects, isr>>

----------------------------------------------------------------------------
(* The main thread: the clients' operations.  What an operation does before  *)
(* its first visible register write is part of its first step.              *)

PulseInConstruct(o, p) ==
  LET c == ChannelOf[p] IN
  /\ Starts("pulsein")
  /\ ~Live(o)
  /\ p \notin mux                                    \* assert_pin_free
  /\ p \in HasExtint
  /\ Available(c)
  /\ data' = [data EXCEPT ![c] = o]
  /\ TurnOnController
  /\ mux' = mux \cup {p}
  /\ nvic' = TRUE
  /\ pinA' = [pinA EXCEPT ![o] = p] /\ pinB' = [pinB EXCEPT ![o] = p]
  /\ first' = [first EXCEPT ![o] = TRUE] /\ errored' = [errored EXCEPT ![o] = FALSE]
  /\ Calls("cfg_read", o, Frame(c, "one", "pulsein", "idle"))
  /\ UNCHANGED <<config, inten, intflag, wakeup, handler, handling>>

(* The has_extint test reads pin_a twice and never pin_b.                    *)
EncoderConstruct(o, p, q) ==
  /\ Starts("encoder")
  /\ ~Live(o)
  /\ {p, q} \cap mux = {}                            \* assert_pin_free
  /\ p \in HasExtint
  /\ \A r \in {p, q} : Available(ChannelOf[r])
  /\ TurnOnController
  /\ mux' = mux \cup {p, q}
  /\ data' = [data EXCEPT ![ChannelOf[p]] = o, ![ChannelOf[q]] = o]
  /\ pinA' = [pinA EXCEPT ![o] = p] /\ pinB' = [pinB EXCEPT ![o] = q]
  /\ Calls("cfg_read", o, Frame(ChannelOf[p], "both", "encoder", "encoder_b"))
  /\ UNCHANGED <<config, inten, intflag, wakeup, nvic, handler, first, errored, handling>>

EncoderSecondChannel ==
  /\ Running("encoder_b")
  /\ Calls("cfg_read", self, Frame(ChannelB(self), "both", "encoder", "idle"))
  /\ UNCHANGED <<regs, table, objects, handling>>

Deinit(o) ==
  /\ Starts("deinit")
  /\ Live(o)
  /\ Calls("off_inten", o,
           Frame(ChannelA(o), "none", "none", IF o \in Encoder THEN "off_b" ELSE "unpin"))
  /\ UNCHANGED <<regs, table, objects, handling>>

DeinitSecondChannel ==
  /\ Running("off_b")
  /\ Calls("off_inten", self, Frame(ChannelB(self), "none", "none", "unpin"))
  /\ UNCHANGED <<regs, table, objects, handling>>

ResetPins ==
  /\ Running("unpin")
  /\ mux' = mux \ {pinA[self], pinB[self]}
  /\ pinA' = [pinA EXCEPT ![self] = NULL] /\ pinB' = [pinB EXCEPT ![self] = NULL]
  /\ Done
  /\ UNCHANGED <<busclk, enable, config, inten, intflag, wakeup, nvic, table, first, errored, handling>>

PauseEverything(o) == Channel
PauseMask(o) == {ChannelA(o)}

Pause(o) ==
  /\ Starts("pause")
  /\ o \in PulseIn /\ Live(o)
  /\ inten' = Written(inten, inten \ PauseMask(o))
  /\ UNCHANGED <<busclk, enable, config, intflag, wakeup, nvic, mux, table, objects, handling, thread>>

(* resume: pause and forget the error, then (after the trigger pulse) rearm. *)
Resume(o) ==
  /\ Starts("resume")
  /\ o \in PulseIn /\ Live(o)
  /\ inten' = Written(inten, inten \ PauseMask(o))
  /\ errored' = [errored EXCEPT ![o] = FALSE]
  /\ Calls("res_first", o, Frame(ChannelA(o), "one", "pulsein", "idle"))
  /\ UNCHANGED <<busclk, enable, config, intflag, wakeup, nvic, mux, table, pinA, pinB, first, handling>>

ResumeFirstEdge ==
  /\ Running("res_first")
  /\ first' = [first EXCEPT ![self] = TRUE]
  /\ mux' = mux \cup {pinA[self]}
  /\ Goto("res_flag")
  /\ UNCHANGED <<busclk, enable, config, inten, intflag, wakeup, nvic, table, pinA, pinB, errored, handling>>

ResumeClearFlag ==
  /\ Running("res_flag")
  /\ intflag' = Written(intflag, intflag \ {call.ch})
  /\ Goto("res_inten")
  /\ UNCHANGED <<busclk, enable, config, inten, wakeup, nvic, mux, table, objects, handling>>

ResumeInten ==
  /\ Running("res_inten")
  /\ inten' = Written(inten, inten \cup {call.ch})
  /\ Goto("cfg_read")
  /\ UNCHANGED <<busclk, enable, config, intflag, wakeup, nvic, mux, table, objects, handling>>

(* zzz(pin): config_EIC and time_to_sleep.  No ownership is checked or taken. *)
Zzz(p) ==
  /\ Starts("zzz")
  /\ mux' = mux \cup {p}
  /\ wakeup' = Written(wakeup, wakeup \cup {ChannelOf[p]})
  /\ IF data[ChannelOf[p]] # NULL THEN Shared ELSE UNCHANGED misuse
  /\ Calls("cfg_read", NULL, Frame(ChannelOf[p], "one", "wakey", "wake_ctrl"))
  /\ UNCHANGED <<busclk, enable, config, inten, intflag, nvic, table, objects, isr>>

WakeController ==
  /\ Running("wake_ctrl")
  /\ TurnOnController
  /\ Goto("sleep")
  /\ UNCHANGED <<config, inten, intflag, wakeup, nvic, mux, table, objects, handling>>

EnterSleep ==
  /\ Running("sleep")
  /\ Goto("wfi")
  /\ UNCHANGED <<regs, table, objects, handling>>

(* Any other enabled interrupt (SysTick, USB) ends WFI just as well.          *)
OtherInterrupt ==
  /\ Running("wfi")
  /\ Done
  /\ UNCHANGED <<regs, table, objects, handling>>

(* The end of a Python program: eic_reset and reset_all_pins of reset_port.  *)
(* The objects go with the heap.                                            *)
EicReset ==
  /\ Starts("end")
  /\ enable' = Written(enable, FALSE)
  /\ config' = Written(config, AllNone)
  /\ inten' = Written(inten, {})
  /\ intflag' = Written(intflag, {})
  /\ wakeup' = Written(wakeup, {})
  /\ data' = [c \in Channel |-> NULL]
  /\ nvic' = FALSE
  /\ mux' = {}
  /\ pinA' = [o \in Client |-> NULL] /\ pinB' = [o \in Client |-> NULL]
  /\ first' = [o \in PulseIn |-> TRUE] /\ errored' = [o \in PulseIn |-> FALSE]
  /\ misuse' = IF misuse = "stray" THEN "stray" ELSE "none"
  /\ UNCHANGED <<busclk, handler, isr, thread>>

----------------------------------------------------------------------------
(* EIC_Handler: every channel from 0 up, whatever INTENSET says.             *)

IrqLine == nvic /\ busclk /\ inten \cap intflag # {}
NeverOff == FALSE
InterruptsOff == pc = "cfg_write"

EnterHandler ==
  /\ isr.phase = "out"
  /\ IrqLine
  /\ ~InterruptsOff
  /\ isr' = [phase |-> "scan", ch |-> 0]
  /\ IF pc = "wfi" THEN Done ELSE UNCHANGED thread
  /\ UNCHANGED <<regs, table, objects, misuse>>

LoopEndsEarly == N - 1
LoopEnd == N
LoopRunsOver == isr.phase = "scan" /\ isr.ch <= LoopEnd
InLoop == isr.phase = "scan" /\ isr.ch < LoopEnd

SkipChannel ==
  /\ InLoop
  /\ isr.ch \notin intflag
  /\ isr' = [phase |-> "scan", ch |-> isr.ch + 1]
  /\ UNCHANGED <<regs, table, objects, thread, misuse>>

Dispatches(h) ==
  /\ InLoop
  /\ isr.ch \in intflag
  /\ handler[isr.ch] = h
Handled == isr' = [phase |-> "clear", ch |-> isr.ch]

(* pulsein_interrupt_handler, but for the pulse itself (module PulseInBuffer). *)
PulseInHandler ==
  LET o == data[isr.ch]
      c == ChannelA(o) IN
  /\ Dispatches("pulsein")
  /\ o \in PulseIn
  /\ \/ /\ errored[o] \/ FALSE \in BackgroundOk
        /\ errored' = [errored EXCEPT ![o] = TRUE]
        /\ inten' = inten \ PauseMask(o)
        /\ UNCHANGED <<first, config>>
     \/ /\ ~errored[o] /\ TRUE \in BackgroundOk
        /\ first' = [first EXCEPT ![o] = FALSE]
        /\ config' = IF first[o] THEN [config EXCEPT ![c] = "both"] ELSE config
        /\ UNCHANGED <<errored, inten>>
  /\ Handled
  /\ UNCHANGED <<busclk, enable, intflag, wakeup, nvic, mux, table, pinA, pinB, thread, misuse>>

(* incrementalencoder_interrupt_handler: its position is not modelled.      *)
EncoderHandler ==
  /\ Dispatches("encoder")
  /\ data[isr.ch] \in Encoder
  /\ Handled
  /\ UNCHANGED <<regs, table, objects, thread, misuse>>

(* wakey_interrupt_handler only evaluates eic_channel_free.                  *)
WakeyHandler ==
  /\ Dispatches("wakey")
  /\ Handled
  /\ UNCHANGED <<regs, table, objects, thread, misuse>>

NoHandler ==
  /\ Dispatches("none")
  /\ Handled
  /\ UNCHANGED <<regs, table, objects, thread, misuse>>

(* A handler on a null pointer or on an object of another type takes what it    *)
(* finds there for the object.  pulsein_interrupt_handler then pauses, or        *)
(* configures, whatever channel it reads; either handler may end in              *)
(* HardFault_Handler, which loops until the board is reset.  What they write      *)
(* into memory is not modelled.                                               *)
Misdirected ==
  \/ Dispatches("pulsein") /\ data[isr.ch] \notin PulseIn
  \/ Dispatches("encoder") /\ data[isr.ch] \notin Encoder
StrayWrite(c) ==
  \/ inten' = inten \ {c} /\ UNCHANGED config
  \/ config' = [config EXCEPT ![c] = "both"] /\ UNCHANGED inten
StrayHandler ==
  /\ Misdirected
  /\ \/ UNCHANGED <<config, inten>>
     \/ handler[isr.ch] = "pulsein" /\ \E c \in Channel : StrayWrite(c)
  /\ misuse' = "stray"
  /\ Handled \/ isr' = [phase |-> "fault", ch |-> isr.ch]
  /\ UNCHANGED <<busclk, enable, intflag, wakeup, nvic, mux, table, objects, thread>>

ClearFlag ==
  /\ isr.phase = "clear"
  /\ intflag' = intflag \ {isr.ch}
  /\ isr' = [phase |-> "scan", ch |-> isr.ch + 1]
  /\ UNCHANGED <<busclk, enable, config, inten, wakeup, nvic, mux, table, objects, thread, misuse>>

LeaveHandler ==
  /\ isr.phase = "scan" /\ isr.ch = LoopEnd
  /\ isr' = Quiet
  /\ UNCHANGED <<regs, table, objects, thread, misuse>>

(* The reset button, after a hard fault.                                     *)
ResetButton ==
  /\ isr.phase = "fault"
  /\ busclk' = TRUE /\ enable' = FALSE /\ nvic' = FALSE
  /\ config' = AllNone
  /\ inten' = {} /\ intflag' = {} /\ wakeup' = {} /\ mux' = {}
  /\ data' = [c \in Channel |-> NULL] /\ handler' = AllNone
  /\ pinA' = [o \in Client |-> NULL] /\ pinB' = [o \in Client |-> NULL]
  /\ first' = [o \in PulseIn |-> TRUE] /\ errored' = [o \in PulseIn |-> FALSE]
  /\ isr' = Quiet /\ misuse' = "none"
  /\ Done

----------------------------------------------------------------------------
DriverStep ==
  \/ ConfigRead \/ ConfigWrite \/ IntenSet \/ SetHandler \/ TurnOnCpuInterrupt
  \/ OffInten \/ OffData \/ OffNvic \/ OffController
  \/ EncoderSecondChannel \/ DeinitSecondChannel \/ ResetPins
  \/ ResumeFirstEdge \/ ResumeClearFlag \/ ResumeInten
  \/ WakeController \/ EnterSleep

Operation ==
  \/ \E o \in PulseIn, p \in Pin : PulseInConstruct(o, p)
  \/ \E o \in Encoder, p, q \in Pin : EncoderConstruct(o, p, q)
  \/ \E o \in Client : Deinit(o)
  \/ \E o \in PulseIn : Pause(o) \/ Resume(o)
  \/ \E p \in Pin : Zzz(p)
  \/ EicReset

Interrupt ==
  \/ EnterHandler \/ SkipChannel \/ PulseInHandler \/ EncoderHandler \/ WakeyHandler
  \/ NoHandler \/ StrayHandler \/ ClearFlag \/ LeaveHandler

Environment == (\E p \in Pin : Edge(p)) \/ OtherInterrupt \/ ResetButton

Next == DriverStep \/ Operation \/ Interrupt \/ Environment

Spec == PowerOn /\ [][Next]_vars

(* The CPU runs: a handler that was entered goes on, the main thread goes on   *)
(* when no handler runs, and a pending interrupt is taken as soon as          *)
(* interrupts are enabled, however briefly.                                  *)
FairSpec == Spec /\ WF_vars(Interrupt) /\ WF_vars(DriverStep) /\ SF_vars(EnterHandler)
----------------------------------------------------------------------------
(* What must hold.                                                          *)

(* The state has the shape the code gives it.                               *)
TypeOK ==
  /\ busclk \in BOOLEAN /\ enable \in BOOLEAN /\ nvic \in BOOLEAN
  /\ config \in [Channel -> Sense] /\ copy \in [Channel -> Sense]
  /\ inten \in SUBSET Channel /\ intflag \in SUBSET Channel /\ wakeup \in SUBSET Channel
  /\ mux \in SUBSET Pin
  /\ data \in [Channel -> Client \cup {NULL}]
  /\ handler \in [Channel -> Handler]
  /\ pinA \in [Client -> Pin \cup {NULL}] /\ pinB \in [Client -> Pin \cup {NULL}]
  /\ first \in [PulseIn -> BOOLEAN] /\ errored \in [PulseIn -> BOOLEAN]
  /\ isr \in [phase : {"out", "scan", "clear", "fault"}, ch : 0 .. N]
  /\ pc \in Labels
  /\ self \in Client \cup {NULL}
  /\ call \in Frames
  /\ misuse \in Misuse

(* Between operations, and while the CPU sleeps, a channel that interrupts    *)
(* has a clocked and enabled controller and an NVIC that lets it through:     *)
(* turn_off_eic_channel, which reads INTENSET twice while EIC_Handler may     *)
(* clear bits of it, never turns the controller off under a running client.   *)
Listening ==
  pc \in {"idle", "wfi"} /\ inten # {} => busclk /\ enable /\ nvic

(* The read-modify-write of CONFIG in configure_eic_channel loses no update:  *)
(* what it writes back differs from the register in its own channel only,     *)
(* although EIC_Handler writes CONFIG too.                                   *)
ConfigUpdateKept ==
  pc = "cfg_write" => copy = IF busclk THEN config ELSE AllNone

(* A pointer in channel_data is to an object that still has the pins it took  *)
(* that channel with; deinit leaves no pointer behind, and neither does a     *)
(* second PulseIn or encoder on a channel.                                   *)
NoDanglingData ==
  \A c \in Channel :
    data[c] # NULL => Live(data[c]) /\ c \in {ChannelA(data[c]), ChannelB(data[c])}

(* EIC_Handler serves one channel at a time: running the handler of a channel *)
(* changes neither the enable bit nor the sense setting of another one, unless *)
(* a handler has run on something that is not its object.                     *)
HandlerStaysOnChannel ==
  [][\A c \in Channel :
       isr.phase = "scan" /\ isr'.phase = "clear" /\ c # isr.ch /\ misuse' # "stray" =>
         config'[c] = config[c] /\ (c \in inten') = (c \in inten)]_vars

(* A latched edge of an enabled channel is handled, or the channel is turned  *)
(* off: neither the other channels' edges nor the main thread keep the handler *)
(* from it for ever.                                                         *)
EdgeServed ==
  \A c \in Channel :
    c \in inten \cap intflag ~> c \notin inten \/ c \notin intflag \/ isr.phase = "fault"

(* Between operations an enabled channel has a handler that suits its data:   *)
(* that of a live PulseIn or of a live encoder, or, on a channel of neither,     *)
(* the wake-up handler.                                                      *)
Suits(c) ==
  \/ handler[c] = "wakey" /\ data[c] = NULL
  \/ handler[c] = "pulsein" /\ data[c] \in PulseIn
  \/ handler[c] = "encoder" /\ data[c] \in Encoder
EnabledIsOwned ==
  pc = "idle" /\ misuse = "none" => \A c \in inten : Suits(c)

(* An object that was constructed and not deinited has its channels to itself:  *)
(* their data, their handler and the edges they detect, and the clock they need. *)
(* Only zzz on a channel of it, or the controller turned off under it, ends that. *)
HandlerFor(o) == IF o \in PulseIn THEN "pulsein" ELSE "encoder"
Sensed(o, c) == config[c] = "both" \/ (o \in PulseIn /\ config[c] = "one")
ClientsKeepChannels ==
  pc = "idle" /\ misuse = "none" => \A o \in Client : Live(o) =>
    /\ eic_get_enable
    /\ \A c \in {ChannelA(o), ChannelB(o)} :
         data[c] = o /\ handler[c] = HandlerFor(o) /\ Sensed(o, c)

(* Who has a channel: zzz, if the channel interrupts with the handler it set     *)
(* (and is not just being set up for an object), otherwise the object in         *)
(* channel_data.  The driver and its users implement the exclusive use of        *)
(* channels (module ChannelUse): an object and zzz too take free channels only,   *)
(* as long as there is no misuse.                                              *)
TurningOn == {"cfg_read", "cfg_write", "intenset", "set_handler", "cpu_irq"}
SetUpForObject(c) == pc \in TurningOn /\ call.ch = c /\ call.handler # "wakey"
Owners ==
  [c \in Channel |->
     IF c \in inten /\ handler[c] = "wakey" /\ ~SetUpForObject(c) THEN Sleeper ELSE data[c]]
Use == INSTANCE ChannelUse WITH Client <- Client \cup {Sleeper}, owner <- Owners
ChannelsUsedExclusively == Use!Init /\ [][misuse' = "none" => Use!Next]_Owners

(* After its first edge a PulseIn listens to both edges, so that every entry   *)
(* of its buffer is one pulse and not a period.                              *)
FirstEdgeThenBoth ==
  pc = "idle" /\ misuse # "stray" => \A o \in PulseIn :
    Live(o) /\ ~first[o] /\ ChannelA(o) \in inten /\ handler[ChannelA(o)] = "pulsein"
      => config[ChannelA(o)] = "both"

(* The CPU only sleeps when the channel zzz was asked to wake it by is able to. *)
SleepIsArmed ==
  pc = "wfi" /\ misuse # "stray" =>
    call.ch \in inten \cap wakeup /\ config[call.ch] # "none" /\ enable /\ nvic

(* An edge of the wake channel that is latched before WFI is not lost: zzz     *)
(* returns.                                                                 *)
WakeNotLost == pc = "sleep" /\ call.ch \in inten \cap intflag ~> pc = "idle"

----------------------------------------------------------------------------
(* The inductive invariant behind the safety properties.                     *)

TurningOff == {"off_inten", "off_data", "off_nvic", "off_ctrl"}
Resuming == {"res_first", "res_flag", "res_inten"}

(* The pins of an object come and go together.                               *)
PinsInv ==
  /\ \A o \in Client : pinA[o] = NULL <=> pinB[o] = NULL
  /\ \A o \in PulseIn : pinA[o] = pinB[o]

(* Where the main thread is, the frame it runs with, and the object it is for. *)
ThreadInv ==
  /\ pc = "idle" => call = NoFrame
  /\ pc \in TurningOn => call.ret \in {"idle", "encoder_b", "wake_ctrl"}
  /\ pc \in TurningOff => call.ret \in {"off_b", "unpin"}
  /\ pc \in {"encoder_b", "off_b", "unpin", "wake_ctrl"} => call.ret = pc
  /\ pc \in Resuming => call.ret = "idle"
  /\ pc \in {"sleep", "wfi"} => call.ret = "wake_ctrl"
  /\ pc # "idle" /\ call.ret # "wake_ctrl" => self \in Client /\ Live(self)
  /\ pc # "idle" /\ call.ret \in {"encoder_b", "off_b"} => self \in Encoder
  /\ pc # "idle" /\ call.ret = "off_b" => call.ch = ChannelA(self)
  /\ pc # "idle" /\ call.ret = "unpin" => call.ch = ChannelB(self)

(* EIC_Handler is within its loop, and not inside the critical section.       *)
HandlerInv ==
  /\ isr.phase = "clear" => isr.ch < N
  /\ pc = "cfg_write" => isr.phase = "out"

(* What an object being deinited has given back so far.                       *)
Returned(c) == data[c] # self
DeinitInv ==
  /\ pc \in {"off_nvic", "off_ctrl", "off_b", "unpin"} => Returned(call.ch)
  /\ pc # "idle" /\ call.ret = "unpin" /\ self \in Encoder => Returned(ChannelA(self))

(* Clock, enable bit and NVIC follow the channels that interrupt.             *)
PowerInv ==
  /\ enable => busclk
  /\ inten # {} => busclk
  /\ busclk /\ ~enable => \A o \in Client : ~Live(o)
  /\ inten # {} /\ ~enable => pc \in {"set_handler", "cpu_irq", "wake_ctrl"}
  /\ inten # {} /\ ~nvic => pc \in {"set_handler", "cpu_irq"}
  /\ pc = "wake_ctrl" => nvic
  /\ busclk /\ ~nvic /\ (\E o \in Client : Live(o)) =>
       \/ pc \in TurningOn /\ call.ret = "encoder_b"
       \/ pc = "off_ctrl" /\ inten = {}

(* Together: what every reachable state satisfies and every step preserves.   *)
IInv ==
  /\ TypeOK /\ PinsInv /\ ThreadInv /\ HandlerInv /\ DeinitInv /\ PowerInv
  /\ NoDanglingData /\ ConfigUpdateKept
=============================================================================
