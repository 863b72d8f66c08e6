----------------------------- MODULE EICProofs -----------------------------
(* Proofs about module EIC, for any number of channels, pins and objects.     *)
EXTENDS EIC, TLAPS

USE ChannelsAssumption, ClientsAssumption
USE DEF Client, regs, table, objects, handling, thread

(* The values registers, tables and objects have after a reset.               *)
LEMMA ResetValues ==
  /\ AllNone \in [Channel -> Sense] /\ AllNone \in [Channel -> Handler]
  /\ [c \in Channel |-> NULL] \in [Channel -> Client \cup {NULL}]
  /\ [o \in Client |-> NULL] \in [Client -> Pin \cup {NULL}]
  /\ [o \in PulseIn |-> TRUE] \in [PulseIn -> BOOLEAN]
  /\ [o \in PulseIn |-> FALSE] \in [PulseIn -> BOOLEAN]
  /\ NoFrame \in Frames
  /\ Quiet \in [phase : {"out", "scan", "clear", "fault"}, ch : 0 .. N]
<1>1. NoFrame \in Frames
  BY DEF NoFrame, Frame, Frames, Labels, Sense, Handler, Channel
<1> QED
  BY <1>1 DEF AllNone, Quiet, Sense, Handler

(* The end of an operation.                                                  *)
LEMMA DoneTypes ==
  Done => pc' \in Labels /\ self' = NULL /\ call' \in Frames /\ copy' \in [Channel -> Sense]
BY ResetValues DEF Done, Labels

(* Power-on establishes the types.                                           *)
LEMMA PowerOnTypes == PowerOn => TypeOK
<1> SUFFICES ASSUME PowerOn PROVE TypeOK
  OBVIOUS
<1>1. /\ config = AllNone /\ copy = AllNone /\ handler = AllNone
      /\ data = [c \in Channel |-> NULL]
      /\ pinA = [o \in Client |-> NULL] /\ pinB = [o \in Client |-> NULL]
      /\ first = [o \in PulseIn |-> TRUE] /\ errored = [o \in PulseIn |-> FALSE]
      /\ isr = Quiet /\ call = NoFrame
  BY DEF PowerOn
<1>2. /\ busclk \in BOOLEAN /\ enable \in BOOLEAN /\ nvic \in BOOLEAN
      /\ inten = {} /\ intflag = {} /\ wakeup = {} /\ mux = {}
      /\ pc \in Labels /\ self = NULL /\ misuse \in Misuse
  BY DEF PowerOn, Labels, Misuse
<1> QED
  BY ONLY <1>1, <1>2, ResetValues DEF TypeOK

(* Turning a channel on, off and back on keeps the types.                     *)
LEMMA DriverTypes == IInv /\ DriverStep => TypeOK'
<1> SUFFICES ASSUME IInv, DriverStep PROVE TypeOK'
  OBVIOUS
<1> USE DEF IInv, TypeOK
<1>1. CASE ConfigRead
  BY <1>1 DEF ConfigRead, Running, AllNone, Sense, Labels
<1>2. CASE ConfigWrite
  BY <1>2 DEF ConfigWrite, Written, Running, AllNone, Sense, Labels, Frames
<1>3. CASE IntenSet
  BY <1>3 DEF IntenSet, Written, Goto, Labels, Frames, Running
<1>4. CASE SetHandler
  BY <1>4 DEF SetHandler, Goto, Labels, Frames, Running
<1>5. CASE TurnOnCpuInterrupt
  BY <1>5, DoneTypes DEF TurnOnCpuInterrupt, Return, Frames
<1>6. CASE OffInten
  BY <1>6 DEF OffInten, Written, Goto, Labels, Running
<1>7. CASE OffData
  BY <1>7 DEF OffData, DataCleared, Goto, Labels, Running
<1>8. CASE OffNvic
  BY <1>8 DEF OffNvic, NothingEnabled, ReadInten, Goto, Labels, Running
<1>9. CASE OffController
  BY <1>9 DEF OffController, NothingEnabled, ReadInten, Return, Frames, Running, Shared, Misuse
<1>10. CASE EncoderSecondChannel
  BY <1>10 DEF EncoderSecondChannel, ChannelB, Calls, Frame, Frames, Labels, Sense, Handler, Running,
     ThreadInv, PinsInv, Live
<1>11. CASE DeinitSecondChannel
  BY <1>11 DEF DeinitSecondChannel, ChannelB, Calls, Frame, Frames, Labels, Sense, Handler, Running,
     ThreadInv, PinsInv, Live
<1>12. CASE ResetPins
  <2>1. /\ pinA' \in [Client -> Pin \cup {NULL}] /\ pinB' \in [Client -> Pin \cup {NULL}]
        /\ mux' \in SUBSET Pin
    BY <1>12 DEF ResetPins
  <2> QED
    BY <1>12, <2>1, DoneTypes DEF ResetPins
<1>13. CASE ResumeFirstEdge
  <2>1. self \in Client /\ pinA[self] \in Pin
    BY <1>13 DEF ResumeFirstEdge, Running, ThreadInv, Resuming, Live
  <2>2. mux' \in SUBSET Pin /\ first' \in [PulseIn -> BOOLEAN] /\ pc' \in Labels
    BY <1>13, <2>1 DEF ResumeFirstEdge, Goto, Labels
  <2> QED
    BY <1>13, <2>2 DEF ResumeFirstEdge, Goto
<1>14. CASE ResumeClearFlag
  BY <1>14 DEF ResumeClearFlag, Written, Goto, Labels, Running
<1>15. CASE ResumeInten
  BY <1>15 DEF ResumeInten, Written, Goto, Labels, Frames, Running
<1>16. CASE WakeController
  BY <1>16 DEF WakeController, TurnOnController, Goto, Labels, Running
<1>17. CASE EnterSleep
  BY <1>17 DEF EnterSleep, Goto, Labels, Running
<1> QED
  BY <1>1, <1>2, <1>3, <1>4, <1>5, <1>6, <1>7, <1>8, <1>9, <1>10, <1>11, <1>12, <1>13, <1>14,
     <1>15, <1>16, <1>17 DEF DriverStep

(* So does every operation of a client,                                      *)
LEMMA OperationTypes == IInv /\ Operation => TypeOK'
<1> SUFFICES ASSUME IInv, Operation PROVE TypeOK'
  OBVIOUS
<1> USE DEF IInv, TypeOK
<1>1. ASSUME NEW o \in PulseIn, NEW p \in Pin, PulseInConstruct(o, p) PROVE TypeOK'
  BY <1>1 DEF PulseInConstruct, TurnOnController,
     Calls, Frame, Frames, Labels, Sense, Handler
<1>2. ASSUME NEW o \in Encoder, NEW p \in Pin, NEW q \in Pin, EncoderConstruct(o, p, q) PROVE TypeOK'
  BY <1>2 DEF EncoderConstruct, TurnOnController,
     Calls, Frame, Frames, Labels, Sense, Handler
<1>3. ASSUME NEW o \in Client, Deinit(o) PROVE TypeOK'
  BY <1>3 DEF Deinit, Live, ChannelA,
     Calls, Frame, Frames, Labels, Sense, Handler
<1>4. ASSUME NEW o \in PulseIn, Pause(o) PROVE TypeOK'
  <2>1. inten' \in SUBSET Channel
    BY <1>4 DEF Pause, Written
  <2> QED
    BY <1>4, <2>1 DEF Pause
<1>5. ASSUME NEW o \in PulseIn, Resume(o) PROVE TypeOK'
  BY <1>5 DEF Resume, Written, Live, ChannelA,
     Calls, Frame, Frames, Labels, Sense, Handler
<1>6. ASSUME NEW p \in Pin, Zzz(p) PROVE TypeOK'
  <2>1. wakeup' \in SUBSET Channel /\ mux' \in SUBSET Pin
    BY <1>6 DEF Zzz, Written
  <2>2. call' \in Frames /\ pc' \in Labels /\ self' = NULL
    BY <1>6 DEF Zzz, Calls, Frame, Frames, Labels, Sense, Handler
  <2>3. misuse' \in Misuse
    BY <1>6 DEF Zzz, Shared, Misuse
  <2> QED
    BY <1>6, <2>1, <2>2, <2>3 DEF Zzz, Calls
<1>7. CASE EicReset
  <2>1. /\ enable' \in BOOLEAN /\ nvic' = FALSE /\ busclk' = busclk
        /\ inten' \in SUBSET Channel /\ intflag' \in SUBSET Channel
        /\ wakeup' \in SUBSET Channel /\ mux' = {}
    BY <1>7 DEF EicReset, Written
  <2>2. config' \in [Channel -> Sense]
    BY <1>7, ResetValues DEF EicReset, Written
  <2>3. /\ data' = [c \in Channel |-> NULL]
        /\ pinA' = [o \in Client |-> NULL] /\ pinB' = [o \in Client |-> NULL]
        /\ first' = [o \in PulseIn |-> TRUE] /\ errored' = [o \in PulseIn |-> FALSE]
    BY <1>7 DEF EicReset
  <2>4. misuse' \in Misuse
    BY <1>7 DEF EicReset, Misuse
  <2> QED
    BY <1>7, <2>1, <2>2, <2>3, <2>4, ResetValues DEF EicReset
<1> QED
  BY <1>1, <1>2, <1>3, <1>4, <1>5, <1>6, <1>7 DEF Operation

(* every step of EIC_Handler, and whatever the hardware does.                 *)
LEMMA InterruptTypes == IInv /\ (Interrupt \/ Environment) => TypeOK'
<1> SUFFICES ASSUME IInv, Interrupt \/ Environment PROVE TypeOK'
  OBVIOUS
<1> USE DEF IInv, TypeOK
<1>1. CASE EnterHandler
  BY <1>1, DoneTypes DEF EnterHandler
<1>2. CASE SkipChannel
  <2>1. isr' \in [phase : {"out", "scan", "clear", "fault"}, ch : 0 .. N]
    <3>1. isr.ch \in 0 .. N /\ isr.ch < N
      BY <1>2 DEF SkipChannel, InLoop, LoopEnd
    <3>2. isr.ch + 1 \in 0 .. N
      BY <3>1
    <3> QED
      BY <1>2, <3>2 DEF SkipChannel
  <2> QED
    BY <1>2, <2>1 DEF SkipChannel
<1>3. CASE PulseInHandler
  BY <1>3 DEF PulseInHandler, Dispatches, Handled, InLoop, LoopEnd, Sense
<1>4. CASE EncoderHandler \/ WakeyHandler \/ NoHandler
  <2>1. /\ UNCHANGED <<regs, table, objects, thread, misuse>>
        /\ isr' = [phase |-> "clear", ch |-> isr.ch]
    BY <1>4 DEF EncoderHandler, WakeyHandler, NoHandler, Handled
  <2> QED
    BY <2>1
<1>10. CASE StrayHandler
  <2>1. isr' \in [phase : {"out", "scan", "clear", "fault"}, ch : 0 .. N]
    BY <1>10 DEF StrayHandler, Handled
  <2>2. config' \in [Channel -> Sense] /\ inten' \in SUBSET Channel /\ misuse' \in Misuse
    BY <1>10 DEF StrayHandler, StrayWrite, Sense, Misuse
  <2> QED
    BY <1>10, <2>1, <2>2 DEF StrayHandler
<1>5. CASE ClearFlag
  <2>1. isr' \in [phase : {"out", "scan", "clear", "fault"}, ch : 0 .. N]
    <3>1. isr.ch \in 0 .. N /\ isr.ch < N
      BY <1>5 DEF ClearFlag, HandlerInv
    <3>2. isr.ch + 1 \in 0 .. N
      BY <3>1
    <3> QED
      BY <1>5, <3>2 DEF ClearFlag
  <2> QED
    BY <1>5, <2>1 DEF ClearFlag
<1>6. CASE LeaveHandler
  BY <1>6 DEF LeaveHandler, Quiet
<1>7. ASSUME NEW p \in Pin, Edge(p) PROVE TypeOK'
  BY <1>7 DEF Edge
<1>8. CASE OtherInterrupt
  BY <1>8, DoneTypes DEF OtherInterrupt
<1>9. CASE ResetButton
  <2>1. /\ config' = AllNone /\ copy' = AllNone /\ handler' = AllNone
        /\ data' = [c \in Channel |-> NULL]
        /\ pinA' = [o \in Client |-> NULL] /\ pinB' = [o \in Client |-> NULL]
        /\ first' = [o \in PulseIn |-> TRUE] /\ errored' = [o \in PulseIn |-> FALSE]
        /\ isr' = Quiet /\ call' = NoFrame
    BY <1>9 DEF ResetButton, Done
  <2>2. /\ busclk' \in BOOLEAN /\ enable' \in BOOLEAN /\ nvic' \in BOOLEAN
        /\ inten' = {} /\ intflag' = {} /\ wakeup' = {} /\ mux' = {}
        /\ pc' \in Labels /\ self' = NULL /\ misuse' \in Misuse
    BY <1>9 DEF ResetButton, Done, Labels, Misuse
  <2> QED
    BY ONLY <2>1, <2>2, ResetValues DEF TypeOK
<1> QED
  BY <1>1, <1>2, <1>3, <1>4, <1>5, <1>6, <1>7, <1>8, <1>9, <1>10 DEF Interrupt, Environment

(* A step of the driver preserves the rest of the invariant.                  *)
LEMMA DriverInv == IInv /\ DriverStep => IInv'
<1> SUFFICES ASSUME IInv, DriverStep PROVE IInv'
  OBVIOUS
<1> TypeOK'
  BY DriverTypes
<1> USE DEF IInv, TypeOK, Frames, TurningOn, TurningOff, Resuming, Live, ChannelA, ChannelB, Returned
<1>1. CASE ConfigRead
  <2> USE <1>1 DEF ConfigRead, Running, Goto
  <2>1. PinsInv' /\ ThreadInv' /\ HandlerInv'
    BY DEF PinsInv, ThreadInv, HandlerInv
  <2>2. DeinitInv' /\ NoDanglingData'
    BY DEF PinsInv, ThreadInv, DeinitInv, NoDanglingData
  <2>3. PowerInv' /\ ConfigUpdateKept'
    BY DEF PinsInv, ThreadInv, HandlerInv, PowerInv, ConfigUpdateKept
  <2> QED
    BY <2>1, <2>2, <2>3
<1>2. CASE ConfigWrite
  <2> USE <1>2 DEF ConfigWrite, Running, Written
  <2>1. PinsInv' /\ ThreadInv' /\ HandlerInv'
    BY DEF PinsInv, ThreadInv, HandlerInv
  <2>2. DeinitInv' /\ NoDanglingData'
    BY DEF PinsInv, ThreadInv, DeinitInv, NoDanglingData
  <2>3. PowerInv' /\ ConfigUpdateKept'
    BY DEF PinsInv, ThreadInv, HandlerInv, PowerInv, ConfigUpdateKept
  <2> QED
    BY <2>1, <2>2, <2>3
<1>3. CASE IntenSet
  <2> USE <1>3 DEF IntenSet, Running, Goto, Written
  <2>1. PinsInv' /\ ThreadInv' /\ HandlerInv'
    BY DEF PinsInv, ThreadInv, HandlerInv
  <2>2. DeinitInv' /\ NoDanglingData'
    BY DEF PinsInv, ThreadInv, DeinitInv, NoDanglingData
  <2>3. PowerInv' /\ ConfigUpdateKept'
    BY DEF PinsInv, ThreadInv, HandlerInv, PowerInv, ConfigUpdateKept
  <2> QED
    BY <2>1, <2>2, <2>3
<1>4. CASE SetHandler
  <2> USE <1>4 DEF SetHandler, Running, Goto
  <2>1. PinsInv' /\ ThreadInv' /\ HandlerInv'
    BY DEF PinsInv, ThreadInv, HandlerInv
  <2>2. DeinitInv' /\ NoDanglingData'
    BY DEF PinsInv, ThreadInv, DeinitInv, NoDanglingData
  <2>3. PowerInv' /\ ConfigUpdateKept'
    BY DEF PinsInv, ThreadInv, HandlerInv, PowerInv, ConfigUpdateKept
  <2> QED
    BY <2>1, <2>2, <2>3
<1>5. CASE TurnOnCpuInterrupt
  <2> USE <1>5 DEF TurnOnCpuInterrupt, Running, Done, Return
  <2>1. PinsInv' /\ ThreadInv' /\ HandlerInv'
    BY DEF PinsInv, ThreadInv, HandlerInv
  <2>2. DeinitInv' /\ NoDanglingData'
    BY DEF PinsInv, ThreadInv, DeinitInv, NoDanglingData
  <2>3. PowerInv' /\ ConfigUpdateKept'
    BY DEF PinsInv, ThreadInv, HandlerInv, PowerInv, ConfigUpdateKept
  <2> QED
    BY <2>1, <2>2, <2>3
<1>6. CASE OffInten
  <2> USE <1>6 DEF OffInten, Running, Goto, Written, OffMask
  <2>1. PinsInv' /\ ThreadInv' /\ HandlerInv'
    BY DEF PinsInv, ThreadInv, HandlerInv
  <2>2. DeinitInv' /\ NoDanglingData'
    BY DEF PinsInv, ThreadInv, DeinitInv, NoDanglingData
  <2>3. PowerInv' /\ ConfigUpdateKept'
    BY DEF PinsInv, ThreadInv, HandlerInv, PowerInv, ConfigUpdateKept
  <2> QED
    BY <2>1, <2>2, <2>3
<1>7. CASE OffData
  <2> USE <1>7 DEF OffData, Running, Goto, DataCleared
  <2>1. PinsInv' /\ ThreadInv' /\ HandlerInv'
    BY DEF PinsInv, ThreadInv, HandlerInv
  <2>2. DeinitInv' /\ NoDanglingData'
    BY DEF PinsInv, ThreadInv, DeinitInv, NoDanglingData
  <2>3. PowerInv' /\ ConfigUpdateKept'
    BY DEF PinsInv, ThreadInv, HandlerInv, PowerInv, ConfigUpdateKept
  <2> QED
    BY <2>1, <2>2, <2>3
<1>8. CASE OffNvic
  <2> USE <1>8 DEF OffNvic, Running, Goto, NothingEnabled, ReadInten
  <2>1. PinsInv' /\ ThreadInv' /\ HandlerInv'
    BY DEF PinsInv, ThreadInv, HandlerInv
  <2>2. DeinitInv' /\ NoDanglingData'
    BY DEF PinsInv, ThreadInv, DeinitInv, NoDanglingData
  <2>3. PowerInv' /\ ConfigUpdateKept'
    BY DEF PinsInv, ThreadInv, HandlerInv, PowerInv, ConfigUpdateKept
  <2> QED
    BY <2>1, <2>2, <2>3
<1>9. CASE OffController
  <2> USE <1>9 DEF OffController, Running, NothingEnabled, ReadInten, Return
  <2>1. PinsInv' /\ ThreadInv' /\ HandlerInv'
    BY DEF PinsInv, ThreadInv, HandlerInv
  <2>2. DeinitInv' /\ NoDanglingData'
    BY DEF PinsInv, ThreadInv, DeinitInv, NoDanglingData
  <2>3. PowerInv' /\ ConfigUpdateKept'
    BY DEF PinsInv, ThreadInv, HandlerInv, PowerInv, ConfigUpdateKept
  <2> QED
    BY <2>1, <2>2, <2>3
<1>10. CASE EncoderSecondChannel
  <2> USE <1>10 DEF EncoderSecondChannel, Running, Calls, Frame
  <2>1. PinsInv' /\ ThreadInv' /\ HandlerInv'
    BY DEF PinsInv, ThreadInv, HandlerInv
  <2>2. DeinitInv' /\ NoDanglingData'
    BY DEF PinsInv, ThreadInv, DeinitInv, NoDanglingData
  <2>3. PowerInv' /\ ConfigUpdateKept'
    BY DEF PinsInv, ThreadInv, HandlerInv, PowerInv, ConfigUpdateKept
  <2> QED
    BY <2>1, <2>2, <2>3
<1>11. CASE DeinitSecondChannel
  <2> USE <1>11 DEF DeinitSecondChannel, Running, Calls, Frame
  <2>1. PinsInv' /\ ThreadInv' /\ HandlerInv'
    BY DEF PinsInv, ThreadInv, HandlerInv
  <2>2. DeinitInv' /\ NoDanglingData'
    BY DEF PinsInv, ThreadInv, DeinitInv, NoDanglingData
  <2>3. PowerInv' /\ ConfigUpdateKept'
    BY DEF PinsInv, ThreadInv, HandlerInv, PowerInv, ConfigUpdateKept
  <2> QED
    BY <2>1, <2>2, <2>3
<1>12. CASE ResetPins
  <2> USE <1>12 DEF ResetPins, Running, Done
  <2>1. PinsInv' /\ ThreadInv' /\ HandlerInv'
    BY DEF PinsInv, ThreadInv, HandlerInv
  <2>2. DeinitInv' /\ NoDanglingData'
    BY DEF PinsInv, ThreadInv, DeinitInv, NoDanglingData
  <2>3. PowerInv' /\ ConfigUpdateKept'
    BY DEF PinsInv, ThreadInv, HandlerInv, PowerInv, ConfigUpdateKept
  <2> QED
    BY <2>1, <2>2, <2>3
<1>13. CASE ResumeFirstEdge
  <2> USE <1>13 DEF ResumeFirstEdge, Running, Goto
  <2>1. PinsInv' /\ ThreadInv' /\ HandlerInv'
    BY DEF PinsInv, ThreadInv, HandlerInv
  <2>2. DeinitInv' /\ NoDanglingData'
    BY DEF PinsInv, ThreadInv, DeinitInv, NoDanglingData
  <2>3. PowerInv' /\ ConfigUpdateKept'
    BY DEF PinsInv, ThreadInv, HandlerInv, PowerInv, ConfigUpdateKept
  <2> QED
    BY <2>1, <2>2, <2>3
<1>14. CASE ResumeClearFlag
  <2> USE <1>14 DEF ResumeClearFlag, Running, Goto, Written
  <2>1. PinsInv' /\ ThreadInv' /\ HandlerInv'
    BY DEF PinsInv, ThreadInv, HandlerInv
  <2>2. DeinitInv' /\ NoDanglingData'
    BY DEF PinsInv, ThreadInv, DeinitInv, NoDanglingData
  <2>3. PowerInv' /\ ConfigUpdateKept'
    BY DEF PinsInv, ThreadInv, HandlerInv, PowerInv, ConfigUpdateKept
  <2> QED
    BY <2>1, <2>2, <2>3
<1>15. CASE ResumeInten
  <2> USE <1>15 DEF ResumeInten, Running, Goto, Written
  <2>1. PinsInv' /\ ThreadInv' /\ HandlerInv'
    BY DEF PinsInv, ThreadInv, HandlerInv
  <2>2. DeinitInv' /\ NoDanglingData'
    BY DEF PinsInv, ThreadInv, DeinitInv, NoDanglingData
  <2>3. PowerInv' /\ ConfigUpdateKept'
    BY DEF PinsInv, ThreadInv, HandlerInv, PowerInv, ConfigUpdateKept
  <2> QED
    BY <2>1, <2>2, <2>3
<1>16. CASE WakeController
  <2> USE <1>16 DEF WakeController, Running, Goto, TurnOnController
  <2>1. PinsInv' /\ ThreadInv' /\ HandlerInv'
    BY DEF PinsInv, ThreadInv, HandlerInv
  <2>2. DeinitInv' /\ NoDanglingData'
    BY DEF PinsInv, ThreadInv, DeinitInv, NoDanglingData
  <2>3. PowerInv' /\ ConfigUpdateKept'
    BY DEF PinsInv, ThreadInv, HandlerInv, PowerInv, ConfigUpdateKept
  <2> QED
    BY <2>1, <2>2, <2>3
<1>17. CASE EnterSleep
  <2> USE <1>17 DEF EnterSleep, Running, Goto
  <2>1. PinsInv' /\ ThreadInv' /\ HandlerInv'
    BY DEF PinsInv, ThreadInv, HandlerInv
  <2>2. DeinitInv' /\ NoDanglingData'
    BY DEF PinsInv, ThreadInv, DeinitInv, NoDanglingData
  <2>3. PowerInv' /\ ConfigUpdateKept'
    BY DEF PinsInv, ThreadInv, HandlerInv, PowerInv, ConfigUpdateKept
  <2> QED
    BY <2>1, <2>2, <2>3
<1> QED
  BY <1>1, <1>2, <1>3, <1>4, <1>5, <1>6, <1>7, <1>8, <1>9,
     <1>10, <1>11, <1>12, <1>13, <1>14, <1>15, <1>16, <1>17 DEF DriverStep

(* An operation of a client preserves the rest of the invariant.              *)
LEMMA OperationInv == IInv /\ Operation => IInv'
<1> SUFFICES ASSUME IInv, Operation PROVE IInv'
  OBVIOUS
<1> TypeOK'
  BY OperationTypes
<1> USE DEF IInv, TypeOK, Frames, TurningOn, TurningOff, Resuming, Live, ChannelA, ChannelB, Returned
<1>1. ASSUME NEW o \in PulseIn, NEW p \in Pin, PulseInConstruct(o, p) PROVE IInv'
  <2> USE <1>1 DEF PulseInConstruct, Starts, Running, Calls, Frame, TurnOnController, Available,
                  eic_get_enable, eic_channel_free, ReadInten
  <2>1. PinsInv' /\ ThreadInv' /\ HandlerInv'
    BY DEF PinsInv, ThreadInv, HandlerInv
  <2>2. DeinitInv' /\ NoDanglingData'
    BY DEF PinsInv, ThreadInv, DeinitInv, NoDanglingData
  <2>3. PowerInv' /\ ConfigUpdateKept'
    BY DEF PinsInv, ThreadInv, HandlerInv, PowerInv, ConfigUpdateKept
  <2> QED
    BY <2>1, <2>2, <2>3
<1>2. ASSUME NEW o \in Encoder, NEW p \in Pin, NEW q \in Pin, EncoderConstruct(o, p, q) PROVE IInv'
  <2> USE <1>2 DEF EncoderConstruct, Starts, Running, Calls, Frame, TurnOnController, Available,
                  eic_get_enable, eic_channel_free, ReadInten
  <2>1. PinsInv' /\ ThreadInv' /\ HandlerInv'
    BY DEF PinsInv, ThreadInv, HandlerInv
  <2>2. DeinitInv' /\ NoDanglingData'
    BY DEF PinsInv, ThreadInv, DeinitInv, NoDanglingData
  <2>3. PowerInv' /\ ConfigUpdateKept'
    BY DEF PinsInv, ThreadInv, HandlerInv, PowerInv, ConfigUpdateKept
  <2> QED
    BY <2>1, <2>2, <2>3
<1>3. ASSUME NEW o \in Client, Deinit(o) PROVE IInv'
  <2> USE <1>3 DEF Deinit, Starts, Running, Calls, Frame
  <2>1. PinsInv' /\ ThreadInv' /\ HandlerInv'
    BY DEF PinsInv, ThreadInv, HandlerInv
  <2>2. DeinitInv' /\ NoDanglingData'
    BY DEF PinsInv, ThreadInv, DeinitInv, NoDanglingData
  <2>3. PowerInv' /\ ConfigUpdateKept'
    BY DEF PinsInv, ThreadInv, HandlerInv, PowerInv, ConfigUpdateKept
  <2> QED
    BY <2>1, <2>2, <2>3
<1>4. ASSUME NEW o \in PulseIn, Pause(o) PROVE IInv'
  <2> USE <1>4 DEF Pause, Starts, Running, Written, PauseMask
  <2>1. PinsInv' /\ ThreadInv' /\ HandlerInv'
    BY DEF PinsInv, ThreadInv, HandlerInv
  <2>2. DeinitInv' /\ NoDanglingData'
    BY DEF PinsInv, ThreadInv, DeinitInv, NoDanglingData
  <2>3. PowerInv' /\ ConfigUpdateKept'
    BY DEF PinsInv, ThreadInv, HandlerInv, PowerInv, ConfigUpdateKept
  <2> QED
    BY <2>1, <2>2, <2>3
<1>5. ASSUME NEW o \in PulseIn, Resume(o) PROVE IInv'
  <2> USE <1>5 DEF Resume, Starts, Running, Calls, Frame, Written, PauseMask
  <2>1. PinsInv' /\ ThreadInv' /\ HandlerInv'
    BY DEF PinsInv, ThreadInv, HandlerInv
  <2>2. DeinitInv' /\ NoDanglingData'
    BY DEF PinsInv, ThreadInv, DeinitInv, NoDanglingData
  <2>3. PowerInv' /\ ConfigUpdateKept'
    BY DEF PinsInv, ThreadInv, HandlerInv, PowerInv, ConfigUpdateKept
  <2> QED
    BY <2>1, <2>2, <2>3
<1>6. ASSUME NEW p \in Pin, Zzz(p) PROVE IInv'
  <2> USE <1>6 DEF Zzz, Starts, Running, Calls, Frame, Written
  <2>1. PinsInv' /\ ThreadInv' /\ HandlerInv'
    BY DEF PinsInv, ThreadInv, HandlerInv
  <2>2. DeinitInv' /\ NoDanglingData'
    BY DEF PinsInv, ThreadInv, DeinitInv, NoDanglingData
  <2>3. PowerInv' /\ ConfigUpdateKept'
    BY DEF PinsInv, ThreadInv, HandlerInv, PowerInv, ConfigUpdateKept
  <2> QED
    BY <2>1, <2>2, <2>3
<1>7. CASE EicReset
  <2> USE <1>7 DEF EicReset, Starts, Running, Written
  <2>1. PinsInv' /\ ThreadInv' /\ HandlerInv'
    BY DEF PinsInv, ThreadInv, HandlerInv
  <2>2. DeinitInv' /\ NoDanglingData'
    BY DEF PinsInv, ThreadInv, DeinitInv, NoDanglingData
  <2>3. PowerInv' /\ ConfigUpdateKept'
    BY DEF PinsInv, ThreadInv, HandlerInv, PowerInv, ConfigUpdateKept
  <2> QED
    BY <2>1, <2>2, <2>3
<1> QED
  BY <1>1, <1>2, <1>3, <1>4, <1>5, <1>6, <1>7 DEF Operation

(* EIC_Handler and the hardware leave alone what the main thread relies on.    *)
LeftAlone ==
  /\ UNCHANGED <<busclk, enable, nvic, mux, table, pinA, pinB>>
  /\ inten' \subseteq inten
  /\ UNCHANGED thread \/ (pc = "wfi" /\ Done)
  /\ pc # "cfg_write"
  /\ isr'.phase = "clear" => isr'.ch < N

(* No step of EIC_Handler does more than that.                                *)
LEMMA InterruptFrame == IInv /\ Interrupt => LeftAlone
<1> SUFFICES ASSUME IInv, Interrupt PROVE LeftAlone
  OBVIOUS
<1> USE DEF LeftAlone
<1> USE DEF IInv, TypeOK
<1>1. CASE EnterHandler
  BY <1>1 DEF EnterHandler, InterruptsOff
<1>2. CASE SkipChannel
  BY <1>2 DEF SkipChannel, InLoop, LoopEnd, HandlerInv
<1>3. CASE PulseInHandler
  BY <1>3 DEF PulseInHandler, Dispatches, Handled, InLoop, LoopEnd, HandlerInv
<1>4. CASE EncoderHandler \/ WakeyHandler \/ NoHandler \/ StrayHandler
  BY <1>4 DEF EncoderHandler, WakeyHandler, NoHandler, StrayHandler, StrayWrite, Misdirected, Dispatches, Handled,
     InLoop, LoopEnd, HandlerInv
<1>5. CASE ClearFlag
  BY <1>5 DEF ClearFlag, HandlerInv
<1>6. CASE LeaveHandler
  BY <1>6 DEF LeaveHandler, Quiet, HandlerInv
<1> QED
  BY <1>1, <1>2, <1>3, <1>4, <1>5, <1>6 DEF Interrupt

(* So EIC_Handler preserves the invariant,                                   *)
LEMMA InterruptInv == IInv /\ Interrupt => IInv'
<1> SUFFICES ASSUME IInv, Interrupt PROVE IInv'
  OBVIOUS
<1> TypeOK'
  BY InterruptTypes
<1>0. LeftAlone
  BY InterruptFrame
<1> USE <1>0 DEF LeftAlone
<1> USE DEF IInv, TypeOK, Frames, TurningOn, TurningOff, Resuming, Live, ChannelA, ChannelB, Returned,
   Done, NoFrame, Frame
<1>1. PinsInv' /\ ThreadInv' /\ HandlerInv'
  BY DEF PinsInv, ThreadInv, HandlerInv
<1>2. DeinitInv' /\ NoDanglingData'
  BY DEF DeinitInv, NoDanglingData
<1>3. PowerInv' /\ ConfigUpdateKept'
  BY DEF ThreadInv, PowerInv, ConfigUpdateKept
<1> QED
  BY <1>1, <1>2, <1>3

(* and so do edges, other interrupts and the reset button.                    *)
LEMMA EnvironmentInv == IInv /\ Environment => IInv'
<1> SUFFICES ASSUME IInv, Environment PROVE IInv'
  OBVIOUS
<1> TypeOK'
  BY InterruptTypes
<1> USE DEF IInv, TypeOK, Frames, TurningOn, TurningOff, Resuming, Live, ChannelA, ChannelB, Returned
<1>1. ASSUME NEW p \in Pin, Edge(p) PROVE IInv'
  BY <1>1 DEF Edge, PinsInv, ThreadInv, HandlerInv, DeinitInv, PowerInv, NoDanglingData, ConfigUpdateKept
<1>2. CASE OtherInterrupt
  BY <1>2 DEF OtherInterrupt, Running, Done, NoFrame, Frame, PinsInv, ThreadInv, HandlerInv, DeinitInv, PowerInv,
     NoDanglingData, ConfigUpdateKept
<1>3. CASE ResetButton
  BY <1>3 DEF ResetButton, Done, Quiet, PinsInv, ThreadInv, HandlerInv, DeinitInv, PowerInv,
     NoDanglingData, ConfigUpdateKept
<1> QED
  BY <1>1, <1>2, <1>3 DEF Environment

(* The main thread leaves the progress of EIC_Handler alone.                   *)
LEMMA MainThreadLeavesHandler == DriverStep \/ Operation => UNCHANGED isr
BY DEF DriverStep, Operation, ConfigRead, ConfigWrite, IntenSet, SetHandler, TurnOnCpuInterrupt,
   OffInten, OffData, OffNvic, OffController, EncoderSecondChannel, DeinitSecondChannel, ResetPins,
   ResumeFirstEdge, ResumeClearFlag, ResumeInten, WakeController, EnterSleep,
   PulseInConstruct, EncoderConstruct, Deinit, Pause, Resume, Zzz, EicReset

(* The invariant holds after a reset.                                         *)
LEMMA PowerOnInv == PowerOn => IInv
BY PowerOnTypes DEF PowerOn, Quiet, Live, IInv, PinsInv, ThreadInv, HandlerInv, DeinitInv, PowerInv,
   NoDanglingData, ConfigUpdateKept, TurningOn, TurningOff, Resuming

(* Every step of the system preserves the invariant.                          *)
LEMMA StepInv == IInv /\ [Next]_vars => IInv'
<1>1. IInv /\ UNCHANGED vars => IInv'
  BY DEF vars, IInv, TypeOK, PinsInv, ThreadInv, HandlerInv, DeinitInv, PowerInv, NoDanglingData,
     ConfigUpdateKept, Live, ChannelA, ChannelB, Returned
<1> QED
  BY <1>1, DriverInv, OperationInv, InterruptInv, EnvironmentInv DEF Next

(* Every reachable state satisfies the inductive invariant: from power-on, no   *)
(* interleaving of the clients' operations, EIC_Handler and the hardware leaves *)
(* the driver's tables and registers in any other state.                       *)
THEOREM Inductive == Spec => []IInv
BY PowerOnInv, StepInv, PTL DEF Spec

(* The types of the state are those of the code.                              *)
THEOREM TypeCorrect == Spec => []TypeOK
<1>1. IInv => TypeOK
  BY DEF IInv
<1> QED
  BY <1>1, Inductive, PTL

(* turn_off_eic_channel and EIC_Handler, which both clear bits of INTENSET,     *)
(* never leave a channel enabled behind a controller or an NVIC that is off.   *)
THEOREM EnabledChannelsListen == Spec => []Listening
<1>1. IInv => Listening
  BY DEF IInv, PowerInv, Listening
<1> QED
  BY <1>1, Inductive, PTL

(* configure_eic_channel loses no update that EIC_Handler makes to CONFIG.     *)
THEOREM ConfigIsNotLost == Spec => []ConfigUpdateKept
<1>1. IInv => ConfigUpdateKept
  BY DEF IInv
<1> QED
  BY <1>1, Inductive, PTL

(* channel_data never points to an object that was deinited, or that has       *)
(* another channel.                                                           *)
THEOREM DataIsLive == Spec => []NoDanglingData
<1>1. IInv => NoDanglingData
  BY DEF IInv
<1> QED
  BY <1>1, Inductive, PTL

(* The handler that EIC_Handler runs for a channel touches that channel's       *)
(* enable bit and sense setting only, as long as it runs on the object it is    *)
(* meant for; on anything else it may touch any channel's.                     *)
THEOREM HandlerIsLocal == Spec => HandlerStaysOnChannel
<1> DEFINE Local == \A c \in Channel :
       isr.phase = "scan" /\ isr'.phase = "clear" /\ c # isr.ch /\ misuse' # "stray" =>
         config'[c] = config[c] /\ (c \in inten') = (c \in inten)
<1>1. IInv /\ [Next]_vars => Local
  <2> SUFFICES ASSUME IInv, [Next]_vars, isr.phase = "scan", isr'.phase = "clear",
                      NEW c \in Channel, c # isr.ch, misuse' # "stray"
               PROVE  config'[c] = config[c] /\ (c \in inten') = (c \in inten)
    OBVIOUS
  <2>1. CASE PulseInHandler
    <3>1. isr.ch \in Channel /\ data[isr.ch] \in PulseIn
      BY <2>1 DEF PulseInHandler, Dispatches, InLoop, LoopEnd, IInv, TypeOK, Channel
    <3>2. ChannelA(data[isr.ch]) = isr.ch
      BY <3>1 DEF IInv, NoDanglingData, PinsInv, ChannelA, ChannelB
    <3>3. /\ config' = config \/ config' = [config EXCEPT ![isr.ch] = "both"]
          /\ inten' = inten \/ inten' = inten \ {isr.ch}
      BY <2>1, <3>2 DEF PulseInHandler, PauseMask
    <3>4. config'[c] = config[c]
      BY <3>3 DEF IInv, TypeOK
    <3>5. c \in inten' <=> c \in inten
      BY <3>3
    <3> QED
      BY <3>4, <3>5
  <2>2. CASE EncoderHandler \/ WakeyHandler \/ NoHandler \/ StrayHandler
    BY <2>2 DEF EncoderHandler, WakeyHandler, NoHandler, StrayHandler
  <2>3. CASE EnterHandler \/ SkipChannel \/ ClearFlag \/ LeaveHandler
    BY <2>3 DEF EnterHandler, SkipChannel, ClearFlag, LeaveHandler, Quiet
  <2>4. CASE DriverStep \/ Operation
    BY <2>4, MainThreadLeavesHandler
  <2>5. CASE Environment \/ UNCHANGED vars
    BY <2>5 DEF Environment, Edge, OtherInterrupt, ResetButton, vars
  <2> QED
    BY <2>1, <2>2, <2>3, <2>4, <2>5 DEF Next, Interrupt
<1> QED
  BY <1>1, Inductive, PTL DEF Spec, HandlerStaysOnChannel
=============================================================================
