-------------------------- MODULE EICClientProofs --------------------------
(* What the external interrupt driver promises its users, for any number of     *)
(* channels, pins and objects.  The first part is about every program; a user    *)
(* loses what it has by a misuse of the driver only, which `misuse' marks.  The   *)
(* second is about programs that leave operations out: deinit of the last object *)
(* turns the clock off under the next zzz, and resume lets an edge in before it  *)
(* sets the channel back to one edge.                                          *)
EXTENDS EICProofs

USE ChannelsAssumption, ClientsAssumption
USE DEF Client, regs, table, objects, handling, thread

(* The object whose deinit is under way.                                      *)
BeingDeinited(o) == pc # "idle" /\ call.ret \in {"off_b", "unpin"} /\ o = self

(* The channels of an object.                                                *)
Channels(o) == {ChannelA(o), ChannelB(o)}

(* What the driver is called for: for a channel of the object at hand, with      *)
(* that object's handler and edges, or for a channel of no object by zzz.       *)
CallInv ==
  /\ pc # "idle" /\ call.ret # "wake_ctrl" => call.ch \in Channels(self)
  /\ pc # "idle" /\ call.ret = "wake_ctrl" => self = NULL
  /\ pc \in TurningOn /\ call.ret = "wake_ctrl" => call.handler = "wakey"
  /\ pc \in TurningOn \cup Resuming /\ call.ret # "wake_ctrl" =>
       /\ call.handler = HandlerFor(self)
       /\ call.sense = "both" \/ (self \in PulseIn /\ call.sense = "one")
ZzzInv == pc # "idle" /\ call.ret = "wake_ctrl" => data[call.ch] = NULL

(* Every object owns its channels until it gives them back, no two share, and    *)
(* the clock runs for them.                                                   *)
OwnInv ==
  /\ \A o \in Client : Live(o) /\ ~BeingDeinited(o) => busclk /\ \A c \in Channels(o) : data[c] = o
  /\ \A o1, o2 \in Client : Live(o1) /\ Live(o2) /\ o1 # o2 => Channels(o1) \cap Channels(o2) = {}

(* A channel that interrupts has the handler that suits its data, unless its    *)
(* handler is about to be set; one that is given back does not interrupt.       *)
HandlersInv ==
  /\ \A c \in inten : Suits(c) \/ (c = call.ch /\ pc \in TurningOn \ {"cpu_irq"})
  /\ pc = "off_data" => call.ch \notin inten

(* An object keeps its handler and its edges, once its constructor wrote them.   *)
ToCome(o, c) == pc # "idle" /\ o = self /\ call.ret = "encoder_b" /\ c = ChannelB(o)
KeptInv ==
  \A o \in Client : Live(o) => \A c \in Channels(o) :
    /\ \/ handler[c] = HandlerFor(o) \/ ToCome(o, c)
       \/ o = self /\ c = call.ch /\ pc \in TurningOn \ {"cpu_irq"}
    /\ \/ BeingDeinited(o) \/ Sensed(o, c) \/ ToCome(o, c)
       \/ o = self /\ c = call.ch /\ pc \in {"cfg_read", "cfg_write"}

UserInv == CallInv /\ ZzzInv /\ OwnInv /\ HandlersInv /\ KeptInv
UseInv == IInv /\ (misuse = "none" => UserInv)

(* On its own object, a handler turns off its own channel or sets it to both      *)
(* edges, and that is a channel of a PulseIn.                                  *)
LEMMA HandlerEffect ==
  ASSUME IInv, Interrupt, misuse' # "stray"
  PROVE  /\ UNCHANGED misuse
         /\ \A c \in Channel : config'[c] \in {config[c], "both"}
         /\ inten' = inten \/ (inten' = inten \ {isr.ch} /\ handler[isr.ch] = "pulsein")
<1>1. CASE PulseInHandler
  <2>1. isr.ch \in Channel /\ data[isr.ch] \in PulseIn /\ handler[isr.ch] = "pulsein" /\ misuse' = misuse
    BY <1>1 DEF PulseInHandler, Dispatches, InLoop, LoopEnd, IInv, TypeOK, Channel
  <2>2. ChannelA(data[isr.ch]) = isr.ch
    BY <2>1 DEF IInv, NoDanglingData, PinsInv, ChannelA, ChannelB
  <2>3. /\ config' = config \/ config' = [config EXCEPT ![isr.ch] = "both"]
        /\ inten' = inten \/ inten' = inten \ {isr.ch}
    BY <1>1, <2>2 DEF PulseInHandler, PauseMask
  <2>4. config \in [Channel -> Sense]
    BY DEF IInv, TypeOK
  <2> QED
    BY ONLY <2>1, <2>3, <2>4
<1>2. CASE StrayHandler
  BY <1>2 DEF StrayHandler
<1>3. CASE EnterHandler \/ SkipChannel \/ EncoderHandler \/ WakeyHandler \/ NoHandler
           \/ ClearFlag \/ LeaveHandler
  BY <1>3 DEF EnterHandler, SkipChannel, EncoderHandler, WakeyHandler, NoHandler, ClearFlag, LeaveHandler
<1> QED
  BY <1>1, <1>2, <1>3 DEF Interrupt

(* A channel that a constructor may take has no owner and does not interrupt.   *)
LEMMA AvailableIsFree ==
  ASSUME IInv, UserInv, pc = "idle", NEW c \in Channel, Available(c)
  PROVE  data[c] = NULL /\ c \notin inten
<1>1. CASE eic_get_enable
  BY <1>1 DEF Available, eic_channel_free, eic_get_enable, ReadInten
<1>2. CASE ~eic_get_enable
  <2>1. (\A o \in Client : ~Live(o)) /\ inten = {}
    BY <1>2 DEF eic_get_enable, UserInv, IInv, PowerInv, OwnInv, BeingDeinited
  <2> QED
    BY <2>1 DEF IInv, TypeOK, NoDanglingData
<1> QED
  BY <1>1, <1>2

(* A step of the driver for an object, or for zzz.                            *)
LEMMA UseDriver ==
  ASSUME IInv, UserInv, DriverStep, misuse' = "none"
  PROVE  UserInv'
<1> IInv'
  BY DriverInv
<1> USE DEF UserInv, IInv, TypeOK, PinsInv, ThreadInv, Frames, TurningOn, TurningOff, Resuming, Live,
        ChannelA, ChannelB, Channels, BeingDeinited
<1>1. CASE ConfigRead
  <2> USE <1>1 DEF ConfigRead, Running
  <2>1. CallInv' /\ ZzzInv' /\ OwnInv'
    BY DEF CallInv, ZzzInv, OwnInv, HandlerFor
  <2>2. HandlersInv' /\ KeptInv'
    BY DEF CallInv, ZzzInv, OwnInv, HandlersInv, KeptInv, ToCome, Suits, HandlerFor, Sensed
  <2> QED
    BY <2>1, <2>2 DEF UserInv
<1>2. CASE ConfigWrite
  <2> USE <1>2 DEF ConfigWrite, Running
  <2>1. CallInv' /\ ZzzInv' /\ OwnInv'
    BY DEF CallInv, ZzzInv, OwnInv, HandlerFor
  <2>2. HandlersInv'
    BY DEF HandlersInv, Suits
  <2>3. config' = config \/ config' = [config EXCEPT ![call.ch] = call.sense]
    BY DEF ConfigUpdateKept, Written
  <2>4. busclk => config' = [config EXCEPT ![call.ch] = call.sense]
    BY DEF ConfigUpdateKept, Written
  <2>5. \A c \in Channel : c # call.ch => config'[c] = config[c]
    <3>1. config \in [Channel -> Sense]
      OBVIOUS
    <3> QED
      BY ONLY <2>3, <3>1
  <2>6. call.ret # "wake_ctrl" => config'[call.ch] = call.sense
    BY <2>4 DEF OwnInv
  <2>7. KeptInv'
    <3> SUFFICES ASSUME NEW o \in Client, Live(o), NEW c \in Channels(o)
                 PROVE  /\ \/ handler[c] = HandlerFor(o) \/ ToCome(o, c)'
                           \/ o = self /\ c = call.ch
                        /\ Sensed(o, c)' \/ ToCome(o, c)'
      BY DEF KeptInv
    <3>1. c \in Channel
      OBVIOUS
    <3>2. CASE c # call.ch
      <4>1. /\ handler[c] = HandlerFor(o) \/ ToCome(o, c)
            /\ Sensed(o, c) \/ ToCome(o, c)
        BY <3>2 DEF KeptInv
      <4>2. config'[c] = config[c]
        BY <2>5, <3>1, <3>2
      <4>3. ToCome(o, c) => ToCome(o, c)'
        BY DEF ToCome
      <4> QED
        BY <4>1, <4>2, <4>3 DEF Sensed
    <3>3. CASE c = call.ch
      <4>1. call.ret # "wake_ctrl" /\ o = self
        BY <3>3 DEF CallInv, ZzzInv, OwnInv
      <4> QED
        BY <2>6, <3>3, <4>1 DEF CallInv, KeptInv, ToCome, Sensed
    <3> QED
      BY <3>2, <3>3
  <2> QED
    BY <2>1, <2>2, <2>7 DEF UserInv
<1>3. CASE IntenSet
  <2> USE <1>3 DEF IntenSet, Running, Goto, Written
  <2>1. CallInv' /\ ZzzInv' /\ OwnInv'
    BY DEF CallInv, ZzzInv, OwnInv, HandlerFor
  <2>2. HandlersInv' /\ KeptInv'
    BY DEF CallInv, ZzzInv, OwnInv, HandlersInv, KeptInv, ToCome, Suits, HandlerFor, Sensed
  <2> QED
    BY <2>1, <2>2 DEF UserInv
<1>4. CASE SetHandler
  <2> USE <1>4 DEF SetHandler, Running, Goto
  <2>1. CallInv' /\ ZzzInv' /\ OwnInv'
    BY DEF CallInv, ZzzInv, OwnInv, HandlerFor
  <2>2. HandlersInv' /\ KeptInv'
    BY DEF CallInv, ZzzInv, OwnInv, HandlersInv, KeptInv, ToCome, Suits, HandlerFor, Sensed
  <2> QED
    BY <2>1, <2>2 DEF UserInv
<1>5. CASE TurnOnCpuInterrupt
  <2> USE <1>5 DEF TurnOnCpuInterrupt, Running, Done, Return
  <2>1. CallInv' /\ ZzzInv' /\ OwnInv'
    BY DEF CallInv, ZzzInv, OwnInv, HandlerFor
  <2>2. HandlersInv' /\ KeptInv'
    BY DEF CallInv, ZzzInv, OwnInv, HandlersInv, KeptInv, ToCome, Suits, HandlerFor, Sensed
  <2> QED
    BY <2>1, <2>2 DEF UserInv
<1>6. CASE OffInten
  <2> USE <1>6 DEF OffInten, Running, Goto, Written, OffMask
  <2>1. CallInv' /\ ZzzInv' /\ OwnInv'
    BY DEF CallInv, ZzzInv, OwnInv, HandlerFor
  <2>2. inten' = inten \ {call.ch}
    BY DEF PowerInv
  <2>3. HandlersInv'
    BY <2>2 DEF HandlersInv, Suits
  <2>4. KeptInv'
    BY DEF KeptInv, ToCome, HandlerFor, Sensed
  <2> QED
    BY <2>1, <2>3, <2>4 DEF UserInv
<1>7. CASE OffData
  <2> USE <1>7 DEF OffData, Running, Goto, DataCleared
  <2>1. self \in Client /\ Live(self) /\ BeingDeinited(self) /\ call.ch \in Channels(self)
    BY DEF CallInv
  <2>2. \A o \in Client : Live(o) /\ o # self => call.ch \notin Channels(o)
    BY <2>1 DEF OwnInv
  <2>3. OwnInv'
    BY <2>1, <2>2 DEF OwnInv
  <2>4. CallInv' /\ ZzzInv'
    BY DEF CallInv, ZzzInv
  <2>5. HandlersInv' /\ KeptInv'
    BY DEF HandlersInv, KeptInv, ToCome, Suits, Sensed
  <2> QED
    BY <2>3, <2>4, <2>5 DEF UserInv
<1>8. CASE OffNvic
  <2> USE <1>8 DEF OffNvic, Running, Goto
  <2>1. CallInv' /\ ZzzInv' /\ OwnInv'
    BY DEF CallInv, ZzzInv, OwnInv, HandlerFor
  <2>2. HandlersInv' /\ KeptInv'
    BY DEF CallInv, ZzzInv, OwnInv, HandlersInv, KeptInv, ToCome, Suits, HandlerFor, Sensed
  <2> QED
    BY <2>1, <2>2 DEF UserInv
<1>9. CASE OffController
  <2> USE <1>9 DEF OffController, Running, NothingEnabled, ReadInten, Return, Shared
  <2>1. CallInv' /\ ZzzInv' /\ OwnInv'
    BY DEF CallInv, ZzzInv, OwnInv, HandlerFor
  <2>2. HandlersInv' /\ KeptInv'
    BY DEF CallInv, ZzzInv, OwnInv, HandlersInv, KeptInv, ToCome, Suits, HandlerFor, Sensed
  <2> QED
    BY <2>1, <2>2 DEF UserInv
<1>10. CASE EncoderSecondChannel
  <2> USE <1>10 DEF EncoderSecondChannel, Running, Calls, Frame
  <2>1. CallInv' /\ ZzzInv' /\ OwnInv'
    BY DEF CallInv, ZzzInv, OwnInv, HandlerFor
  <2>2. HandlersInv' /\ KeptInv'
    BY DEF CallInv, ZzzInv, OwnInv, HandlersInv, KeptInv, ToCome, Suits, HandlerFor, Sensed
  <2> QED
    BY <2>1, <2>2 DEF UserInv
<1>11. CASE DeinitSecondChannel
  <2> USE <1>11 DEF DeinitSecondChannel, Running, Calls, Frame
  <2>1. CallInv' /\ ZzzInv' /\ OwnInv'
    BY DEF CallInv, ZzzInv, OwnInv, HandlerFor
  <2>2. HandlersInv' /\ KeptInv'
    BY DEF CallInv, ZzzInv, OwnInv, HandlersInv, KeptInv, ToCome, Suits, HandlerFor, Sensed
  <2> QED
    BY <2>1, <2>2 DEF UserInv
<1>12. CASE ResetPins
  <2> USE <1>12 DEF ResetPins, Running, Done
  <2>1. CallInv' /\ ZzzInv' /\ OwnInv'
    BY DEF CallInv, ZzzInv, OwnInv, HandlerFor
  <2>2. HandlersInv' /\ KeptInv'
    BY DEF CallInv, ZzzInv, OwnInv, HandlersInv, KeptInv, ToCome, Suits, HandlerFor, Sensed
  <2> QED
    BY <2>1, <2>2 DEF UserInv
<1>13. CASE ResumeFirstEdge
  <2> USE <1>13 DEF ResumeFirstEdge, Running, Goto
  <2>1. CallInv' /\ ZzzInv' /\ OwnInv'
    BY DEF CallInv, ZzzInv, OwnInv, HandlerFor
  <2>2. HandlersInv' /\ KeptInv'
    BY DEF CallInv, ZzzInv, OwnInv, HandlersInv, KeptInv, ToCome, Suits, HandlerFor, Sensed
  <2> QED
    BY <2>1, <2>2 DEF UserInv
<1>14. CASE ResumeClearFlag
  <2> USE <1>14 DEF ResumeClearFlag, Running, Goto
  <2>1. CallInv' /\ ZzzInv' /\ OwnInv'
    BY DEF CallInv, ZzzInv, OwnInv, HandlerFor
  <2>2. HandlersInv' /\ KeptInv'
    BY DEF CallInv, ZzzInv, OwnInv, HandlersInv, KeptInv, ToCome, Suits, HandlerFor, Sensed
  <2> QED
    BY <2>1, <2>2 DEF UserInv
<1>15. CASE ResumeInten
  <2> USE <1>15 DEF ResumeInten, Running, Goto, Written
  <2>1. CallInv' /\ ZzzInv' /\ OwnInv'
    BY DEF CallInv, ZzzInv, OwnInv, HandlerFor
  <2>2. HandlersInv' /\ KeptInv'
    BY DEF CallInv, ZzzInv, OwnInv, HandlersInv, KeptInv, ToCome, Suits, HandlerFor, Sensed
  <2> QED
    BY <2>1, <2>2 DEF UserInv
<1>16. CASE WakeController
  <2> USE <1>16 DEF WakeController, Running, Goto, TurnOnController
  <2>1. CallInv' /\ ZzzInv' /\ OwnInv'
    BY DEF CallInv, ZzzInv, OwnInv, HandlerFor
  <2>2. HandlersInv' /\ KeptInv'
    BY DEF CallInv, ZzzInv, OwnInv, HandlersInv, KeptInv, ToCome, Suits, HandlerFor, Sensed
  <2> QED
    BY <2>1, <2>2 DEF UserInv
<1>17. CASE EnterSleep
  <2> USE <1>17 DEF EnterSleep, Running, Goto
  <2>1. CallInv' /\ ZzzInv' /\ OwnInv'
    BY DEF CallInv, ZzzInv, OwnInv, HandlerFor
  <2>2. HandlersInv' /\ KeptInv'
    BY DEF CallInv, ZzzInv, OwnInv, HandlersInv, KeptInv, ToCome, Suits, HandlerFor, Sensed
  <2> QED
    BY <2>1, <2>2 DEF UserInv
<1> QED
  BY <1>1, <1>2, <1>3, <1>4, <1>5, <1>6, <1>7, <1>8, <1>9,
     <1>10, <1>11, <1>12, <1>13, <1>14, <1>15, <1>16, <1>17 DEF DriverStep

(* An operation of a client.                                                  *)
LEMMA UseOperation ==
  ASSUME IInv, UserInv, Operation, misuse' = "none"
  PROVE  UserInv'
<1> IInv'
  BY OperationInv
<1> USE DEF IInv, TypeOK, PinsInv, ThreadInv, Frames, TurningOn, TurningOff, Resuming, Live,
        ChannelA, ChannelB, Channels, BeingDeinited
<1>1. ASSUME NEW o \in PulseIn, NEW p \in Pin, PulseInConstruct(o, p) PROVE UserInv'
  <2> USE <1>1 DEF PulseInConstruct, Starts, Running, Calls, Frame, TurnOnController, UserInv
  <2>0. data[ChannelOf[p]] = NULL /\ ChannelOf[p] \notin inten
    BY AvailableIsFree
  <2>1. CallInv' /\ ZzzInv' /\ OwnInv'
    BY <2>0 DEF CallInv, ZzzInv, OwnInv, HandlerFor
  <2>2. HandlersInv' /\ KeptInv'
    BY <2>0 DEF CallInv, ZzzInv, OwnInv, HandlersInv, KeptInv, ToCome, Suits, HandlerFor, Sensed
  <2> QED
    BY <2>1, <2>2
<1>2. ASSUME NEW o \in Encoder, NEW p \in Pin, NEW q \in Pin, EncoderConstruct(o, p, q) PROVE UserInv'
  <2> USE <1>2 DEF EncoderConstruct, Starts, Running, Calls, Frame, TurnOnController, UserInv
  <2>0. \A r \in {p, q} : data[ChannelOf[r]] = NULL /\ ChannelOf[r] \notin inten
    BY AvailableIsFree
  <2>1. CallInv' /\ ZzzInv' /\ OwnInv'
    BY <2>0 DEF CallInv, ZzzInv, OwnInv, HandlerFor
  <2>2. HandlersInv' /\ KeptInv'
    BY <2>0 DEF CallInv, ZzzInv, OwnInv, HandlersInv, KeptInv, ToCome, Suits, HandlerFor, Sensed
  <2> QED
    BY <2>1, <2>2
<1>3. ASSUME NEW o \in Client, Deinit(o) PROVE UserInv'
  <2> USE <1>3 DEF Deinit, Starts, Running, Calls, Frame, UserInv
  <2>1. CallInv' /\ ZzzInv' /\ OwnInv'
    BY DEF CallInv, ZzzInv, OwnInv, HandlerFor
  <2>2. HandlersInv' /\ KeptInv'
    BY DEF CallInv, ZzzInv, OwnInv, HandlersInv, KeptInv, ToCome, Suits, HandlerFor, Sensed
  <2> QED
    BY <2>1, <2>2
<1>4. ASSUME NEW o \in PulseIn, Pause(o) PROVE UserInv'
  <2> USE <1>4 DEF Pause, Starts, Running, Written, PauseMask, UserInv
  <2>1. CallInv' /\ ZzzInv' /\ OwnInv'
    BY DEF CallInv, ZzzInv, OwnInv, HandlerFor
  <2>2. HandlersInv' /\ KeptInv'
    BY DEF CallInv, ZzzInv, OwnInv, HandlersInv, KeptInv, ToCome, Suits, HandlerFor, Sensed
  <2> QED
    BY <2>1, <2>2
<1>5. ASSUME NEW o \in PulseIn, Resume(o) PROVE UserInv'
  <2> USE <1>5 DEF Resume, Starts, Running, Calls, Frame, Written, PauseMask, UserInv
  <2>1. CallInv' /\ ZzzInv' /\ OwnInv'
    BY DEF CallInv, ZzzInv, OwnInv, HandlerFor
  <2>2. HandlersInv' /\ KeptInv'
    BY DEF CallInv, ZzzInv, OwnInv, HandlersInv, KeptInv, ToCome, Suits, HandlerFor, Sensed
  <2> QED
    BY <2>1, <2>2
<1>6. ASSUME NEW p \in Pin, Zzz(p) PROVE UserInv'
  <2> USE <1>6 DEF Zzz, Starts, Running, Calls, Frame, Written, Shared, UserInv
  <2>1. CallInv' /\ ZzzInv' /\ OwnInv'
    BY DEF CallInv, ZzzInv, OwnInv, HandlerFor
  <2>2. HandlersInv' /\ KeptInv'
    BY DEF CallInv, ZzzInv, OwnInv, HandlersInv, KeptInv, ToCome, Suits, HandlerFor, Sensed
  <2> QED
    BY <2>1, <2>2
<1>7. CASE EicReset
  BY <1>7 DEF EicReset, Starts, Running, Written, PowerInv, UserInv, CallInv, ZzzInv, OwnInv, HandlersInv, KeptInv
<1> QED
  BY <1>1, <1>2, <1>3, <1>4, <1>5, <1>6, <1>7 DEF Operation

(* EIC_Handler and the hardware.                                              *)
LEMMA UseInterrupt ==
  ASSUME IInv, UserInv, Interrupt \/ Environment, misuse' = "none"
  PROVE  UserInv'
<1> IInv'
  BY InterruptInv, EnvironmentInv
<1> USE DEF IInv, TypeOK, PinsInv, ThreadInv, Frames, TurningOn, TurningOff, Resuming, Live,
        ChannelA, ChannelB, Channels, BeingDeinited
<1>1. CASE Interrupt
  <2>1. LeftAlone
    BY <1>1, InterruptFrame
  <2>2. \A c \in Channel : config'[c] \in {config[c], "both"}
    BY <1>1, HandlerEffect
  <2>3. UNCHANGED thread \/ (pc = "wfi" /\ pc' = "idle")
    BY <2>1 DEF LeftAlone, Done
  <2> USE <2>1, <2>3 DEF LeftAlone, UserInv
  <2>4. CallInv' /\ ZzzInv' /\ OwnInv'
    BY DEF CallInv, ZzzInv, OwnInv, HandlerFor
  <2>5. HandlersInv' /\ KeptInv'
    BY <2>2 DEF HandlersInv, KeptInv, ToCome, Suits, HandlerFor, Sensed
  <2> QED
    BY <2>4, <2>5
<1>2. ASSUME NEW p \in Pin, Edge(p) PROVE UserInv'
  BY <1>2 DEF Edge, UserInv, CallInv, ZzzInv, OwnInv, HandlersInv, KeptInv, ToCome, Suits, HandlerFor, Sensed
<1>3. CASE OtherInterrupt
  BY <1>3 DEF OtherInterrupt, Running, Done, UserInv, CallInv, ZzzInv, OwnInv, HandlersInv, KeptInv, ToCome, Suits,
     HandlerFor, Sensed
<1>4. CASE ResetButton
  BY <1>4 DEF ResetButton, Done, UserInv, CallInv, ZzzInv, OwnInv, HandlersInv, KeptInv
<1> QED
  BY <1>1, <1>2, <1>3, <1>4 DEF Environment

(* Until the next reset there is no way back from a misuse.                     *)
LEMMA UseStays ==
  ASSUME IInv, [Next]_vars, misuse' = "none", ~EicReset, ~ResetButton
  PROVE  misuse = "none"
<1>1. CASE DriverStep
  BY <1>1 DEF DriverStep, ConfigRead, ConfigWrite, IntenSet, SetHandler, TurnOnCpuInterrupt,
     OffInten, OffData, OffNvic, OffController, EncoderSecondChannel, DeinitSecondChannel, ResetPins,
     ResumeFirstEdge, ResumeClearFlag, ResumeInten, WakeController, EnterSleep, Shared
<1>2. CASE Operation
  BY <1>2 DEF Operation, PulseInConstruct, EncoderConstruct, Deinit, Pause, Resume, Zzz, Shared
<1>3. CASE Interrupt
  BY <1>3, HandlerEffect
<1>4. CASE Environment \/ UNCHANGED vars
  BY <1>4 DEF Environment, Edge, OtherInterrupt, vars
<1> QED
  BY <1>1, <1>2, <1>3, <1>4 DEF Next

(* The invariant holds after a reset and is kept by every step.                *)
LEMMA UseStep == UseInv /\ [Next]_vars => UseInv'
<1> SUFFICES ASSUME UseInv, [Next]_vars PROVE UseInv'
  OBVIOUS
<1>1. IInv /\ IInv'
  BY StepInv DEF UseInv
<1>2. CASE EicReset \/ ResetButton
  <2>1. /\ \A o \in Client : ~Live(o)'
        /\ inten' = {} /\ pc' = "idle"
    BY <1>1, <1>2 DEF EicReset, ResetButton, Starts, Running, Done, Written, Live, IInv, PowerInv
  <2> QED
    BY <1>1, <2>1 DEF UseInv, UserInv, CallInv, ZzzInv, OwnInv, HandlersInv, KeptInv, TurningOn, Resuming
<1>3. CASE ~EicReset /\ ~ResetButton
  <2> SUFFICES ASSUME misuse' = "none" PROVE UserInv'
    BY <1>1 DEF UseInv
  <2>1. misuse = "none"
    BY <1>1, <1>3, UseStays
  <2>2. UserInv
    BY <2>1 DEF UseInv
  <2>3. CASE UNCHANGED vars
    BY <2>2, <2>3 DEF vars, UserInv, CallInv, ZzzInv, OwnInv, HandlersInv, KeptInv, ToCome, Live, ChannelA,
       ChannelB, Channels, BeingDeinited, Suits, HandlerFor, Sensed
  <2> QED
    BY <1>1, <2>2, <2>3, UseDriver, UseOperation, UseInterrupt DEF Next
<1> QED
  BY <1>2, <1>3

LEMMA UsePowerOn == PowerOn => UseInv
BY PowerOnInv DEF PowerOn, UseInv, UserInv, CallInv, ZzzInv, OwnInv, HandlersInv, KeptInv, Live,
   TurningOn, Resuming

(* In every program, until a misuse, channels have users that keep them.       *)
THEOREM UseInductive == Spec => []UseInv
BY UsePowerOn, UseStep, PTL DEF Spec

(* A channel that interrupts between operations runs a handler that suits its   *)
(* channel_data, until there is a misuse: no handler casts a null pointer or an  *)
(* object of another type.                                                    *)
THEOREM EnabledChannelsAreOwned == Spec => []EnabledIsOwned
<1>1. UseInv => EnabledIsOwned
  BY DEF UseInv, UserInv, HandlersInv, TurningOn, EnabledIsOwned
<1> QED
  BY <1>1, UseInductive, PTL

(* An object that was constructed and not deinited is found on both of its      *)
(* channels, with its handler, its edges and a running controller: until there   *)
(* is a misuse, no constructor, zzz or end of another object's life took them.  *)
THEOREM ChannelsAreKept == Spec => []ClientsKeepChannels
<1>1. UseInv => ClientsKeepChannels
  <2> SUFFICES ASSUME UseInv, pc = "idle", misuse = "none", NEW o \in Client, Live(o)
               PROVE  /\ eic_get_enable
                      /\ \A c \in {ChannelA(o), ChannelB(o)} :
                           data[c] = o /\ handler[c] = HandlerFor(o) /\ Sensed(o, c)
    BY DEF ClientsKeepChannels
  <2>1. busclk /\ \A c \in Channels(o) : data[c] = o
    BY DEF UseInv, UserInv, OwnInv, BeingDeinited
  <2>2. eic_get_enable
    BY <2>1 DEF UseInv, IInv, TypeOK, PowerInv, eic_get_enable
  <2>3. \A c \in Channels(o) : handler[c] = HandlerFor(o) /\ Sensed(o, c)
    BY DEF UseInv, UserInv, KeptInv, ToCome, BeingDeinited, TurningOn
  <2> QED
    BY <2>1, <2>2, <2>3 DEF Channels
<1> QED
  BY <1>1, UseInductive, PTL

(* The user of one channel.                                                   *)
Owner(c) == IF c \in inten /\ handler[c] = "wakey" /\ ~SetUpForObject(c) THEN Sleeper ELSE data[c]
LEMMA OwnersByChannel ==
  /\ Owners = [c \in Channel |-> Owner(c)]
  /\ Owners' = [c \in Channel |-> Owner(c)']
BY DEF Owners, Owner, SetUpForObject

(* Every step is a step of the abstract exclusive use: the constructors and zzz  *)
(* take, turn_off_eic_channel gives back, and resets end all.                  *)
LEMMA UseRefines ==
  ASSUME UseInv, [Next]_vars, misuse' = "none"
  PROVE  [Use!Next]_Owners
<1>0. IInv /\ TypeOK
  BY DEF UseInv, IInv
<1>1. CASE EicReset \/ ResetButton
  <2>1. \A c \in Channel : Owner(c)' = NULL
    <3>1. inten' = {} /\ data' = [c \in Channel |-> NULL]
      BY <1>0, <1>1 DEF EicReset, ResetButton, Written, IInv, PowerInv
    <3> QED
      BY <3>1 DEF Owner
  <2> QED
    BY <2>1, OwnersByChannel DEF Use!Next, Use!EndOfProgram
<1>2. ASSUME ~EicReset, ~ResetButton, misuse = "none", UserInv
      PROVE  [Use!Next]_Owners
  <2> SUFFICES \/ \A c \in Channel : Owner(c)' = Owner(c)
               \/ Use!Next
    BY OwnersByChannel
  <2> USE <1>0, <1>2 DEF UserInv, IInv, TypeOK, PinsInv, ThreadInv, Frames, TurningOn, Resuming, TurningOff,
          Live, ChannelA, ChannelB, Channels, BeingDeinited, HandlerFor
  <2>1. ASSUME NEW o \in PulseIn, NEW p \in Pin, PulseInConstruct(o, p) PROVE Use!Next
    <3> DEFINE c == ChannelOf[p]
    <3>1. c \in Channel /\ data[c] = NULL /\ c \notin inten
      BY <2>1, AvailableIsFree DEF PulseInConstruct, Starts, Running
    <3>2. \A d \in Channel : Owner(d)' = IF d \in {c, c} THEN o ELSE Owner(d)
      BY <2>1, <3>1 DEF PulseInConstruct, Starts, Running, Calls, Frame, Owner, SetUpForObject
    <3>3. Owner(c) = NULL
      BY <3>1 DEF Owner
    <3>4. Use!Take(o, {c, c})
      BY ONLY <3>1, <3>2, <3>3, OwnersByChannel DEF Use!Take
    <3> QED
      BY <3>1, <3>4 DEF Use!Next
  <2>2. ASSUME NEW o \in Encoder, NEW p \in Pin, NEW q \in Pin, EncoderConstruct(o, p, q) PROVE Use!Next
    <3> DEFINE c == ChannelOf[p]
               d == ChannelOf[q]
    <3>1. c \in Channel /\ data[c] = NULL /\ c \notin inten /\ d \in Channel /\ data[d] = NULL /\ d \notin inten
      BY <2>2, AvailableIsFree DEF EncoderConstruct, Starts, Running
    <3>2. \A e \in Channel : Owner(e)' = IF e \in {c, d} THEN o ELSE Owner(e)
      BY <2>2, <3>1 DEF EncoderConstruct, Starts, Running, Calls, Frame, Owner, SetUpForObject
    <3>3. Owner(c) = NULL /\ Owner(d) = NULL
      BY <3>1 DEF Owner
    <3>4. Use!Take(o, {c, d})
      BY ONLY <3>1, <3>2, <3>3, OwnersByChannel DEF Use!Take
    <3> QED
      BY <3>1, <3>4 DEF Use!Next
  <2>3. CASE OffData
    <3>1. call.ch \in Channel /\ call.ch \notin inten
      BY <2>3 DEF OffData, Running, HandlersInv
    <3>2. \A d \in Channel : Owner(d)' = IF d = call.ch THEN NULL ELSE Owner(d)
      BY <2>3, <3>1 DEF OffData, DataCleared, Running, Goto, Owner, SetUpForObject
    <3>3. Use!GiveBack(call.ch)
      BY ONLY <3>2, OwnersByChannel DEF Use!GiveBack
    <3> QED
      BY <3>1, <3>3 DEF Use!Next
  <2>4. CASE IntenSet \/ SetHandler
    <3>1. call.ch \in Channel /\ \A d \in Channel : d # call.ch => Owner(d)' = Owner(d)
      BY <2>4 DEF IntenSet, SetHandler, Written, Running, Goto, Owner, SetUpForObject
    <3>2. Owner(call.ch)' = Owner(call.ch) \/ (Owner(call.ch) = NULL /\ Owner(call.ch)' = Sleeper)
      BY <2>4 DEF IntenSet, SetHandler, Written, Running, Goto, CallInv, ZzzInv, Owner, SetUpForObject
    <3>3. CASE Owner(call.ch) = NULL /\ Owner(call.ch)' = Sleeper
      <4>1. call' = call
        BY <2>4 DEF IntenSet, SetHandler, Goto
      <4>2. \A d \in Channel : Owner(d)' = IF d \in {call.ch, call.ch} THEN Sleeper ELSE Owner(d)
        BY <3>1, <3>3, <4>1
      <4>3. Use!Take(Sleeper, {call.ch, call.ch})
        BY ONLY <3>1, <3>3, <4>2, OwnersByChannel DEF Use!Take
      <4> QED
        BY <3>1, <4>3 DEF Use!Next
    <3> QED
      BY <2>4, <3>1, <3>2, <3>3 DEF IntenSet, SetHandler, Goto
  <2>5. CASE ConfigRead \/ ConfigWrite \/ OffNvic \/ OffController \/ DeinitSecondChannel \/ ResetPins
             \/ ResumeFirstEdge \/ ResumeClearFlag \/ WakeController \/ EnterSleep
    BY <2>5 DEF ConfigRead, ConfigWrite, OffNvic, OffController, DeinitSecondChannel, ResetPins, ResumeFirstEdge,
       ResumeClearFlag, WakeController, EnterSleep, Running, Goto, Calls, Return, Done, Owner, SetUpForObject
  <2>6. CASE TurnOnCpuInterrupt \/ EncoderSecondChannel \/ ResumeInten
    <3>1. call.ret # "wake_ctrl" => \A d \in Channels(self) : data[d] = self /\ self # NULL
      BY <2>6 DEF TurnOnCpuInterrupt, EncoderSecondChannel, ResumeInten, Running, OwnInv
    <3>2. CASE TurnOnCpuInterrupt
      BY <3>1, <3>2 DEF TurnOnCpuInterrupt, Running, Return, Done, NoFrame, Frame, CallInv, HandlersInv, Suits,
         Owner, SetUpForObject
    <3>3. CASE EncoderSecondChannel
      BY <3>1, <3>3 DEF EncoderSecondChannel, Running, Calls, Frame, HandlersInv, Suits, Owner, SetUpForObject
    <3>4. CASE ResumeInten
      BY <3>1, <3>4 DEF ResumeInten, Running, Written, Goto, CallInv, HandlersInv, Suits, Owner, SetUpForObject
    <3> QED
      BY <2>6, <3>2, <3>3, <3>4
  <2>7. CASE OffInten
    <3>1. handler[call.ch] # "wakey"
      BY <2>7 DEF OffInten, Running, CallInv, KeptInv, ToCome
    <3> QED
      BY <2>7, <3>1 DEF OffInten, OffMask, Running, Written, Goto, Owner, SetUpForObject
  <2>8. ASSUME NEW o \in PulseIn, Pause(o) \/ Resume(o) PROVE \A c \in Channel : Owner(c)' = Owner(c)
    <3>1. handler[ChannelA(o)] # "wakey"
      BY <2>8 DEF Pause, Resume, Starts, Running, KeptInv, ToCome
    <3> QED
      BY <2>8, <3>1 DEF Pause, Resume, Starts, Running, Calls, Frame, PauseMask, Written, Owner, SetUpForObject
  <2>9. ASSUME NEW o \in Client, Deinit(o) PROVE \A c \in Channel : Owner(c)' = Owner(c)
    BY <2>9 DEF Deinit, Starts, Running, Calls, Frame, Owner, SetUpForObject
  <2>10. ASSUME NEW p \in Pin, Zzz(p) \/ Edge(p) PROVE \A c \in Channel : Owner(c)' = Owner(c)
    BY <2>10 DEF Zzz, Edge, Starts, Running, Calls, Frame, Owner, SetUpForObject
  <2>11. CASE Interrupt
    <3>1. UNCHANGED <<data, handler>> /\ (UNCHANGED thread \/ (pc = "wfi" /\ pc' = "idle"))
      BY <2>11, InterruptFrame DEF LeftAlone, Done
    <3>2. inten' = inten \/ (inten' = inten \ {isr.ch} /\ handler[isr.ch] = "pulsein")
      BY <2>11, HandlerEffect
    <3> QED
      BY <3>1, <3>2 DEF Owner, SetUpForObject
  <2>12. CASE OtherInterrupt \/ UNCHANGED vars
    BY <2>12 DEF OtherInterrupt, Running, Done, vars, Owner, SetUpForObject
  <2> QED
    BY <2>1, <2>2, <2>3, <2>4, <2>5, <2>6, <2>7, <2>8, <2>9, <2>10, <2>11, <2>12
       DEF Next, DriverStep, Operation, Environment
<1> QED
  BY <1>1, <1>2, UseStays DEF UseInv

(* The driver and its users implement the exclusive use of channels, as long as   *)
(* there is no misuse: the constructors and zzz take channels that nobody has,    *)
(* and nothing but deinit and the end of the program gives them back.           *)
THEOREM ChannelsAreExclusive == Spec => ChannelsUsedExclusively
<1>1. PowerOn => Use!Init
  BY DEF PowerOn, Use!Init, Owners
<1>2. UseInv /\ [Next]_vars => [misuse' = "none" => Use!Next]_Owners
  BY UseRefines
<1> QED
  BY <1>1, <1>2, UseInductive, PTL DEF Spec, ChannelsUsedExclusively
----------------------------------------------------------------------------
(* background_tasks_ok never reports a late handler: no PulseIn gives up.      *)
HandlerKeepsUp == FALSE \notin BackgroundOk
NoErrors == \A o \in PulseIn : ~errored[o]

(* While no PulseIn has an error, EIC_Handler leaves INTENSET alone.           *)
LEMMA HandlerKeepsInten ==
  ASSUME HandlerKeepsUp, IInv, NoErrors, Interrupt, misuse' # "stray"
  PROVE  UNCHANGED <<inten, errored, wakeup>>
<1>1. CASE PulseInHandler
  <2>1. data[isr.ch] \in PulseIn
    BY <1>1 DEF PulseInHandler
  <2> QED
    BY <1>1, <2>1 DEF PulseInHandler, HandlerKeepsUp, NoErrors
<1>2. CASE EnterHandler \/ SkipChannel \/ EncoderHandler \/ WakeyHandler \/ NoHandler \/ StrayHandler
           \/ ClearFlag \/ LeaveHandler
  BY <1>2 DEF EnterHandler, SkipChannel, EncoderHandler, WakeyHandler, NoHandler, StrayHandler,
     ClearFlag, LeaveHandler
<1> QED
  BY <1>1, <1>2 DEF Interrupt

(* What EIC_Handler does to a PulseIn whose channel has a latched edge.         *)
LEMMA HandlerSense ==
  ASSUME HandlerKeepsUp, IInv, NoErrors, Interrupt, misuse' # "stray"
  PROVE  /\ intflag' \subseteq intflag
         /\ \/ UNCHANGED <<config, first>>
            \/ \E o \in PulseIn :
                 /\ Live(o) /\ ChannelA(o) \in intflag /\ data[ChannelA(o)] = o
                 /\ first' = [first EXCEPT ![o] = FALSE]
                 /\ config' = IF first[o] THEN [config EXCEPT ![ChannelA(o)] = "both"] ELSE config
<1>1. CASE PulseInHandler
  <2>1. isr.ch \in Channel /\ isr.ch \in intflag /\ data[isr.ch] \in PulseIn /\ intflag' = intflag
    BY <1>1 DEF PulseInHandler, Dispatches, InLoop, LoopEnd, IInv, TypeOK, Channel
  <2>2. Live(data[isr.ch]) /\ ChannelA(data[isr.ch]) = isr.ch
    BY <2>1 DEF IInv, NoDanglingData, PinsInv, ChannelA, ChannelB
  <2>3. /\ first' = [first EXCEPT ![data[isr.ch]] = FALSE]
        /\ config' = IF first[data[isr.ch]] THEN [config EXCEPT ![ChannelA(data[isr.ch])] = "both"]
                                            ELSE config
    BY <1>1, <2>1 DEF PulseInHandler, HandlerKeepsUp, NoErrors
  <2> QED
    BY <2>1, <2>2, <2>3
<1>2. CASE EnterHandler \/ SkipChannel \/ EncoderHandler \/ WakeyHandler \/ NoHandler \/ StrayHandler
           \/ ClearFlag \/ LeaveHandler
  BY <1>2 DEF EnterHandler, SkipChannel, EncoderHandler, WakeyHandler, NoHandler, StrayHandler,
     ClearFlag, LeaveHandler
<1> QED
  BY <1>1, <1>2 DEF Interrupt

(* Once a handler ran on something that is not its object, only the reset button *)
(* ends that.                                                                 *)
LEMMA StrayStays ==
  ASSUME IInv, [Next]_vars, misuse = "stray", ~ResetButton
  PROVE  misuse' = "stray"
<1>1. CASE DriverStep
  BY <1>1 DEF DriverStep, ConfigRead, ConfigWrite, IntenSet, SetHandler, TurnOnCpuInterrupt,
     OffInten, OffData, OffNvic, OffController, EncoderSecondChannel, DeinitSecondChannel, ResetPins,
     ResumeFirstEdge, ResumeClearFlag, ResumeInten, WakeController, EnterSleep, Shared
<1>2. CASE Operation
  BY <1>2 DEF Operation, PulseInConstruct, EncoderConstruct, Deinit, Pause, Resume, Zzz, EicReset, Shared
<1>3. CASE Interrupt
  BY <1>3, HandlerEffect
<1>4. CASE Environment \/ UNCHANGED vars
  BY <1>4 DEF Environment, Edge, OtherInterrupt, vars
<1> QED
  BY <1>1, <1>2, <1>3, <1>4 DEF Next

(* A program that does not deinit an object.                                  *)
NeverDeinited == "deinit" \notin Ops /\ HandlerKeepsUp

(* Without deinit nothing turns the clock off, and zzz arms its channel.       *)
ArmInv ==
  /\ busclk
  /\ call.ret \notin {"off_b", "unpin"}
  /\ pc # "idle" /\ call.ret = "wake_ctrl" => call.ch \in wakeup
  /\ pc \in TurningOn \cup Resuming => call.sense # "none"
  /\ pc \in {"intenset", "set_handler", "cpu_irq", "wake_ctrl", "sleep", "wfi"} => config[call.ch] # "none"
  /\ pc \in {"set_handler", "cpu_irq", "wake_ctrl", "sleep", "wfi"} => call.ch \in inten
  /\ pc \in {"wake_ctrl", "sleep", "wfi"} => nvic
  /\ pc \in {"sleep", "wfi"} => enable
SleepInv == IInv /\ NoErrors /\ ArmInv

(* Turning a channel on, for an object or for zzz; nothing is turned off.       *)
LEMMA SleepDriver ==
  ASSUME NeverDeinited, SleepInv, DriverStep, misuse' # "stray"
  PROVE  SleepInv'
<1> IInv /\ IInv'
  BY DriverInv DEF SleepInv
<1> USE DEF SleepInv, IInv, TypeOK, PinsInv, ThreadInv, Frames, TurningOn, TurningOff, Resuming, Live,
        ChannelA, ChannelB
<1>1. CASE ConfigRead
  <2> USE <1>1 DEF ConfigRead, Running
  <2>1. NoErrors' /\ ArmInv'
    BY DEF NoErrors, ArmInv
  <2> QED
    BY <2>1
<1>2. CASE ConfigWrite
  <2> USE <1>2 DEF ConfigWrite, Running, Written
  <2>1. NoErrors' /\ ArmInv'
    BY DEF NoErrors, ArmInv
  <2> QED
    BY <2>1
<1>3. CASE IntenSet
  <2> USE <1>3 DEF IntenSet, Running, Goto, Written
  <2>1. NoErrors' /\ ArmInv'
    BY DEF NoErrors, ArmInv
  <2> QED
    BY <2>1
<1>4. CASE SetHandler
  <2> USE <1>4 DEF SetHandler, Running, Goto
  <2>1. NoErrors' /\ ArmInv'
    BY DEF NoErrors, ArmInv
  <2> QED
    BY <2>1
<1>5. CASE TurnOnCpuInterrupt
  <2> USE <1>5 DEF TurnOnCpuInterrupt, Running, Done, Return, NoFrame, Frame
  <2>1. NoErrors' /\ ArmInv'
    BY DEF NoErrors, ArmInv
  <2> QED
    BY <2>1
<1>6. CASE EncoderSecondChannel
  <2> USE <1>6 DEF EncoderSecondChannel, Running, Calls, Frame
  <2>1. NoErrors' /\ ArmInv'
    BY DEF NoErrors, ArmInv
  <2> QED
    BY <2>1
<1>7. CASE WakeController
  <2> USE <1>7 DEF WakeController, Running, Goto, TurnOnController
  <2>1. NoErrors' /\ ArmInv'
    BY DEF NoErrors, ArmInv
  <2> QED
    BY <2>1
<1>8. CASE EnterSleep
  <2> USE <1>8 DEF EnterSleep, Running, Goto
  <2>1. NoErrors' /\ ArmInv'
    BY DEF NoErrors, ArmInv
  <2> QED
    BY <2>1
<1>9. CASE ResumeFirstEdge
  <2> USE <1>9 DEF ResumeFirstEdge, Running, Goto
  <2>1. NoErrors' /\ ArmInv'
    BY DEF NoErrors, ArmInv
  <2> QED
    BY <2>1
<1>10. CASE ResumeClearFlag
  <2> USE <1>10 DEF ResumeClearFlag, Running, Goto
  <2>1. NoErrors' /\ ArmInv'
    BY DEF NoErrors, ArmInv
  <2> QED
    BY <2>1
<1>11. CASE ResumeInten
  <2> USE <1>11 DEF ResumeInten, Running, Goto, Written
  <2>1. NoErrors' /\ ArmInv'
    BY DEF NoErrors, ArmInv
  <2> QED
    BY <2>1
<1>12. CASE OffInten \/ OffData \/ OffNvic \/ OffController \/ DeinitSecondChannel \/ ResetPins
  BY <1>12 DEF OffInten, OffData, OffNvic, OffController, DeinitSecondChannel, ResetPins, Running, ArmInv
<1> QED
  BY <1>1, <1>2, <1>3, <1>4, <1>5, <1>6, <1>7, <1>8, <1>9, <1>10, <1>11, <1>12 DEF DriverStep

(* An operation of a client: zzz finds the clock on.                           *)
LEMMA SleepOperation ==
  ASSUME NeverDeinited, SleepInv, Operation, misuse' # "stray"
  PROVE  SleepInv'
<1> IInv /\ IInv'
  BY OperationInv DEF SleepInv
<1> USE DEF SleepInv, IInv, TypeOK, PinsInv, ThreadInv, Frames, TurningOn, TurningOff, Resuming, Live,
        ChannelA, ChannelB
<1>1. ASSUME NEW o \in PulseIn, NEW p \in Pin, PulseInConstruct(o, p) PROVE SleepInv'
  <2> USE <1>1 DEF PulseInConstruct, Starts, Running, Calls, Frame, TurnOnController, Available,
          eic_get_enable, eic_channel_free, ReadInten
  <2>1. NoErrors' /\ ArmInv'
    BY DEF NoErrors, ArmInv, PowerInv
  <2> QED
    BY <2>1
<1>2. ASSUME NEW o \in Encoder, NEW p \in Pin, NEW q \in Pin, EncoderConstruct(o, p, q) PROVE SleepInv'
  <2> USE <1>2 DEF EncoderConstruct, Starts, Running, Calls, Frame, TurnOnController, Available,
          eic_get_enable, eic_channel_free, ReadInten
  <2>1. NoErrors' /\ ArmInv'
    BY DEF NoErrors, ArmInv, PowerInv
  <2> QED
    BY <2>1
<1>3. ASSUME NEW o \in Client, Deinit(o) PROVE SleepInv'
  BY <1>3 DEF Deinit, Starts, NeverDeinited, NeverDeinited
<1>4. ASSUME NEW o \in PulseIn, Pause(o) PROVE SleepInv'
  <2> USE <1>4 DEF Pause, Starts, Running, Written, PauseMask
  <2>1. NoErrors' /\ ArmInv'
    BY DEF NoErrors, ArmInv, PowerInv
  <2> QED
    BY <2>1
<1>5. ASSUME NEW o \in PulseIn, Resume(o) PROVE SleepInv'
  <2> USE <1>5 DEF Resume, Starts, Running, Calls, Frame, Written, PauseMask
  <2>1. NoErrors' /\ ArmInv'
    BY DEF NoErrors, ArmInv, PowerInv
  <2> QED
    BY <2>1
<1>6. ASSUME NEW p \in Pin, Zzz(p) PROVE SleepInv'
  <2> USE <1>6 DEF Zzz, Starts, Running, Calls, Frame, Written
  <2>1. NoErrors' /\ ArmInv'
    BY DEF NoErrors, ArmInv, PowerInv
  <2> QED
    BY <2>1
<1>7. CASE EicReset
  BY <1>7 DEF EicReset, Starts, Running, Written, NoFrame, Frame, AllNone, NoErrors, ArmInv
<1> QED
  BY <1>1, <1>2, <1>3, <1>4, <1>5, <1>6, <1>7 DEF Operation

(* EIC_Handler and the hardware leave the armed channel alone.                 *)
LEMMA SleepInterrupt ==
  ASSUME NeverDeinited, SleepInv, Interrupt \/ Environment, misuse' # "stray"
  PROVE  SleepInv'
<1> IInv /\ IInv'
  BY InterruptInv, EnvironmentInv DEF SleepInv
<1> USE DEF SleepInv, IInv, TypeOK, PinsInv, ThreadInv, Frames, TurningOn, TurningOff, Resuming, Live,
        ChannelA, ChannelB
<1>1. CASE Interrupt
  <2>1. LeftAlone /\ UNCHANGED <<inten, errored, wakeup>>
    BY <1>1, InterruptFrame, HandlerKeepsInten DEF NeverDeinited
  <2>2. UNCHANGED thread \/ (pc = "wfi" /\ pc' = "idle" /\ call' = NoFrame /\ self' = NULL)
    BY <2>1 DEF LeftAlone, Done
  <2> USE <2>1, <2>2 DEF LeftAlone
  <2>3. \A c \in Channel : config'[c] \in {config[c], "both"}
    <3>1. config' = config \/ \E c \in Channel : config' = [config EXCEPT ![c] = "both"]
      BY <1>1, HandlerSense DEF NeverDeinited
    <3>2. config \in [Channel -> Sense]
      OBVIOUS
    <3> QED
      BY ONLY <3>1, <3>2
  <2>4. NoErrors' /\ ArmInv'
    BY <2>3 DEF NoErrors, ArmInv, NoFrame, Frame
  <2> QED
    BY <2>4
<1>2. ASSUME NEW p \in Pin, Edge(p) PROVE SleepInv'
  BY <1>2 DEF Edge, NoErrors, ArmInv
<1>3. CASE OtherInterrupt
  BY <1>3 DEF OtherInterrupt, Running, Done, NoFrame, Frame, NoErrors, ArmInv
<1>4. CASE ResetButton
  BY <1>4 DEF ResetButton, Done, NoFrame, Frame, AllNone, NoErrors, ArmInv
<1> QED
  BY <1>1, <1>2, <1>3, <1>4 DEF Environment

(* Every step.                                                                *)
LEMMA SleepStep ==
  ASSUME NeverDeinited, IInv, misuse # "stray" => SleepInv, [Next]_vars, misuse' # "stray"
  PROVE  SleepInv'
<1>1. IInv'
  BY StepInv
<1>2. CASE ResetButton
  BY <1>1, <1>2 DEF ResetButton, Done, NoFrame, Frame, AllNone, SleepInv, NoErrors, ArmInv, TurningOn, Resuming
<1>3. CASE ~ResetButton
  <2>1. SleepInv
    BY <1>3, StrayStays
  <2>2. CASE UNCHANGED vars
    BY <1>1, <2>1, <2>2 DEF vars, SleepInv, Live, ChannelA, ChannelB, Channels, NoErrors, ArmInv
  <2> QED
    BY <2>1, <2>2, SleepDriver, SleepOperation, SleepInterrupt DEF Next
<1> QED
  BY <1>2, <1>3

(* The CPU only sleeps when the channel it is to be woken by interrupts, wakes,   *)
(* detects an edge and is behind a running controller, in every program that     *)
(* does not deinit: zzz in a program that does finds the clock off and arms      *)
(* nothing.                                                                   *)
THEOREM SleepsArmed ==
  ASSUME NeverDeinited
  PROVE  Spec => []SleepIsArmed
<1> DEFINE Inv == misuse # "stray" => SleepInv
<1>1. PowerOn => Inv
  BY PowerOnInv DEF PowerOn, NoFrame, Frame, SleepInv, NoErrors, ArmInv, TurningOn, Resuming
<1>2. IInv /\ Inv /\ [Next]_vars => Inv'
  BY SleepStep
<1>3. Inv => SleepIsArmed
  BY DEF SleepInv, IInv, ThreadInv, ArmInv, SleepIsArmed
<1> QED
  BY <1>1, <1>2, <1>3, Inductive, PTL DEF Spec

----------------------------------------------------------------------------
(* A program that neither deinits an object nor resumes a PulseIn.              *)
NeverRearmed == NeverDeinited /\ "resume" \notin Ops

(* Without resume either, every object owns its channels until a reset.         *)
KeepInv ==
  /\ pc \notin Resuming
  /\ \A o \in Client : Live(o) => \A c \in Channels(o) : data[c] = o
UnusedInv ==
  /\ \A c \in Channel : data[c] = NULL /\ c \notin inten =>
       config[c] = "none" \/ (pc = "intenset" /\ c = call.ch)
  /\ \A c \in intflag : config[c] # "none"
  /\ pc \in {"cfg_read", "cfg_write"} /\ self \in PulseIn => first[self] /\ config[call.ch] = "none"
SenseInv ==
  \A o \in PulseIn : Live(o) /\ ~first[o] =>
    \/ config[ChannelA(o)] = "both"
    \/ handler[ChannelA(o)] = "wakey" /\ ~(pc \in TurningOn /\ self = o)
    \/ pc \in {"intenset", "set_handler"} /\ call.ret = "wake_ctrl" /\ call.ch = ChannelA(o)
EdgeInv == SleepInv /\ CallInv /\ KeepInv /\ UnusedInv /\ SenseInv

(* A channel that a constructor may take has no owner and does not interrupt.   *)
LEMMA AvailableIsUnused ==
  ASSUME SleepInv, pc = "idle", NEW c \in Channel, Available(c)
  PROVE  data[c] = NULL /\ c \notin inten
<1>1. CASE enable
  BY <1>1 DEF SleepInv, ArmInv, Available, eic_get_enable, eic_channel_free, ReadInten
<1>2. CASE ~enable
  BY <1>2 DEF SleepInv, ArmInv, IInv, TypeOK, PowerInv, NoDanglingData
<1> QED
  BY <1>1, <1>2

(* Turning a channel on writes its sense setting before its first edge.        *)
LEMMA EdgeDriver ==
  ASSUME NeverRearmed, EdgeInv, DriverStep, misuse' # "stray"
  PROVE  EdgeInv'
<1> IInv /\ IInv' /\ SleepInv /\ SleepInv'
  BY SleepDriver DEF EdgeInv, SleepInv, NeverRearmed
<1> busclk /\ call.ret \notin {"off_b", "unpin"}
  BY DEF SleepInv, ArmInv
<1> USE DEF EdgeInv, IInv, TypeOK, PinsInv, ThreadInv, Frames, TurningOn, TurningOff, Resuming, Live,
        ChannelA, ChannelB, Channels
<1>1. CASE ConfigRead
  <2> USE <1>1 DEF ConfigRead, Running
  <2>1. CallInv' /\ KeepInv' /\ UnusedInv'
    BY DEF CallInv, HandlerFor, KeepInv, UnusedInv
  <2>2. SenseInv'
    BY DEF CallInv, HandlerFor, KeepInv, SenseInv
  <2> QED
    BY <2>1, <2>2
<1>2. CASE ConfigWrite
  <2> USE <1>2 DEF ConfigWrite, Running
  <2>1. config' = [config EXCEPT ![call.ch] = call.sense]
    BY DEF Written, ConfigUpdateKept
  <2>2. call.ch \in Channel /\ call.sense # "none" /\ pc = "cfg_write" /\ pc' = "intenset"
    BY DEF SleepInv, ArmInv
  <2>3. \A c \in Channel : c # call.ch => config'[c] = config[c]
    <3>1. config \in [Channel -> Sense]
      OBVIOUS
    <3> QED
      BY ONLY <2>1, <3>1
  <2>4. CallInv' /\ KeepInv'
    BY DEF CallInv, HandlerFor, KeepInv
  <2>5. call.ret = "wake_ctrl" \/ (call.ret # "wake_ctrl" /\ Live(self) /\ data[call.ch] = self)
    BY DEF CallInv, HandlerFor, KeepInv
  <2>6. UnusedInv'
    <3>1. config'[call.ch] # "none"
      BY <2>1, <2>2
    <3>2. \A c \in Channel : data[c] = NULL /\ c \notin inten =>
            config'[c] = "none" \/ (pc' = "intenset" /\ c = call'.ch)
      BY <2>3, <2>2 DEF UnusedInv
    <3>3. \A c \in intflag : c \in Channel /\ config[c] # "none"
      BY DEF UnusedInv
    <3>4. \A c \in intflag : config'[c] # "none"
      BY ONLY <2>3, <3>1, <3>3
    <3> QED
      BY <2>2, <3>2, <3>4 DEF UnusedInv
  <2>7. SenseInv'
    <3> SUFFICES ASSUME NEW o \in PulseIn, Live(o), ~first[o]
                 PROVE  \/ config'[ChannelA(o)] = "both"
                        \/ handler[ChannelA(o)] = "wakey" /\ self # o
                        \/ call.ret = "wake_ctrl" /\ call.ch = ChannelA(o)
      BY <2>2 DEF SenseInv
    <3>1. data[ChannelA(o)] = o /\ ChannelA(o) \in Channel
      BY DEF KeepInv
    <3>2. o # self
      BY <2>2 DEF UnusedInv
    <3>3. call.ch # ChannelA(o) => config'[ChannelA(o)] = config[ChannelA(o)]
      BY <2>3, <3>1
    <3> QED
      BY <2>2, <2>5, <3>1, <3>2, <3>3 DEF SenseInv
  <2> QED
    BY <2>4, <2>6, <2>7
<1>3. CASE IntenSet
  <2> USE <1>3 DEF IntenSet, Running, Goto, Written
  <2>1. CallInv' /\ KeepInv' /\ UnusedInv'
    BY DEF CallInv, HandlerFor, KeepInv, UnusedInv
  <2>2. SenseInv'
    BY DEF CallInv, HandlerFor, KeepInv, SenseInv
  <2> QED
    BY <2>1, <2>2
<1>4. CASE SetHandler
  <2> USE <1>4 DEF SetHandler, Running, Goto
  <2>1. CallInv' /\ KeepInv' /\ UnusedInv'
    BY DEF CallInv, HandlerFor, KeepInv, UnusedInv
  <2>2. SenseInv'
    <3> SUFFICES ASSUME NEW o \in PulseIn, Live(o), ~first[o]
                 PROVE  \/ config[ChannelA(o)] = "both"
                        \/ handler'[ChannelA(o)] = "wakey" /\ self # o
      BY DEF SenseInv
    <3>1. data[ChannelA(o)] = o /\ ChannelA(o) \in Channel
      BY DEF KeepInv
    <3>2. CASE call.ret = "wake_ctrl"
      BY <3>1, <3>2 DEF CallInv, HandlerFor, SenseInv
    <3>3. CASE call.ret # "wake_ctrl"
      <4>1. data[call.ch] = self
        BY <3>3 DEF CallInv, HandlerFor, KeepInv
      <4> QED
        BY <3>1, <3>3, <4>1 DEF SenseInv
    <3> QED
      BY <3>2, <3>3
  <2> QED
    BY <2>1, <2>2
<1>5. CASE TurnOnCpuInterrupt
  <2> USE <1>5 DEF TurnOnCpuInterrupt, Running, Done, Return, NoFrame, Frame
  <2>1. CallInv' /\ KeepInv' /\ UnusedInv'
    BY DEF CallInv, HandlerFor, KeepInv, UnusedInv
  <2>2. SenseInv'
    BY DEF CallInv, HandlerFor, KeepInv, SenseInv
  <2> QED
    BY <2>1, <2>2
<1>6. CASE EncoderSecondChannel
  <2> USE <1>6 DEF EncoderSecondChannel, Running, Calls, Frame
  <2>1. CallInv' /\ KeepInv' /\ UnusedInv'
    BY DEF CallInv, HandlerFor, KeepInv, UnusedInv
  <2>2. SenseInv'
    BY DEF CallInv, HandlerFor, KeepInv, SenseInv
  <2> QED
    BY <2>1, <2>2
<1>7. CASE WakeController
  <2> USE <1>7 DEF WakeController, Running, Goto, TurnOnController
  <2>1. CallInv' /\ KeepInv' /\ UnusedInv'
    BY DEF CallInv, HandlerFor, KeepInv, UnusedInv
  <2>2. SenseInv'
    BY DEF CallInv, HandlerFor, KeepInv, SenseInv
  <2> QED
    BY <2>1, <2>2
<1>8. CASE EnterSleep
  <2> USE <1>8 DEF EnterSleep, Running, Goto
  <2>1. CallInv' /\ KeepInv' /\ UnusedInv'
    BY DEF CallInv, HandlerFor, KeepInv, UnusedInv
  <2>2. SenseInv'
    BY DEF CallInv, HandlerFor, KeepInv, SenseInv
  <2> QED
    BY <2>1, <2>2
<1>9. CASE OffInten \/ OffData \/ OffNvic \/ OffController \/ DeinitSecondChannel \/ ResetPins
  BY <1>9 DEF OffInten, OffData, OffNvic, OffController, DeinitSecondChannel, ResetPins, Running
<1>10. CASE ResumeFirstEdge \/ ResumeClearFlag \/ ResumeInten
  BY <1>10 DEF ResumeFirstEdge, ResumeClearFlag, ResumeInten, Running, KeepInv
<1> QED
  BY <1>1, <1>2, <1>3, <1>4, <1>5, <1>6, <1>7, <1>8, <1>9, <1>10 DEF DriverStep

(* An operation of a client: a constructor takes a channel that detects nothing. *)
LEMMA EdgeOperation ==
  ASSUME NeverRearmed, EdgeInv, Operation, misuse' # "stray"
  PROVE  EdgeInv'
<1> IInv /\ IInv' /\ SleepInv /\ SleepInv'
  BY SleepOperation DEF EdgeInv, SleepInv, NeverRearmed
<1> busclk
  BY DEF SleepInv, ArmInv
<1> USE DEF EdgeInv, IInv, TypeOK, PinsInv, ThreadInv, Frames, TurningOn, TurningOff, Resuming, Live,
        ChannelA, ChannelB, Channels
<1>1. ASSUME NEW o \in PulseIn, NEW p \in Pin, PulseInConstruct(o, p) PROVE EdgeInv'
  <2> DEFINE c == ChannelOf[p]
  <2> USE <1>1 DEF PulseInConstruct, Starts, Running, Calls, Frame, TurnOnController
  <2>1. c \in Channel /\ data[c] = NULL /\ c \notin inten
    BY AvailableIsUnused
  <2>2. config[c] = "none"
    BY <2>1 DEF UnusedInv
  <2>3. CallInv'
    BY DEF CallInv, HandlerFor
  <2>4. KeepInv'
    BY <2>1 DEF KeepInv
  <2>5. UnusedInv'
    BY <2>1, <2>2 DEF UnusedInv
  <2>6. SenseInv'
    BY DEF SenseInv
  <2> QED
    BY <2>3, <2>4, <2>5, <2>6
<1>2. ASSUME NEW o \in Encoder, NEW p \in Pin, NEW q \in Pin, EncoderConstruct(o, p, q) PROVE EdgeInv'
  <2> DEFINE c == ChannelOf[p]
             d == ChannelOf[q]
  <2> USE <1>2 DEF EncoderConstruct, Starts, Running, Calls, Frame, TurnOnController
  <2>1. /\ c \in Channel /\ data[c] = NULL /\ c \notin inten
        /\ d \in Channel /\ data[d] = NULL /\ d \notin inten
    BY AvailableIsUnused
  <2>2. CallInv'
    BY DEF CallInv, HandlerFor
  <2>3. KeepInv'
    BY <2>1 DEF KeepInv
  <2>4. UnusedInv'
    BY <2>1 DEF UnusedInv
  <2>5. SenseInv'
    BY DEF SenseInv
  <2> QED
    BY <2>2, <2>3, <2>4, <2>5
<1>3. ASSUME NEW o \in Client, Deinit(o) \/ Resume(o) PROVE EdgeInv'
  BY <1>3 DEF Deinit, Resume, Starts, NeverRearmed, NeverDeinited
<1>4. ASSUME NEW o \in PulseIn, Pause(o) PROVE EdgeInv'
  <2> USE <1>4 DEF Pause, Starts, Running, Written, PauseMask
  <2>1. data[ChannelA(o)] = o /\ inten' = inten \ {ChannelA(o)}
    BY DEF KeepInv
  <2>2. CallInv' /\ KeepInv'
    BY DEF CallInv, HandlerFor, KeepInv
  <2>3. UnusedInv' /\ SenseInv'
    BY <2>1 DEF UnusedInv, SenseInv
  <2> QED
    BY <2>2, <2>3
<1>5. ASSUME NEW p \in Pin, Zzz(p) PROVE EdgeInv'
  <2> USE <1>5 DEF Zzz, Starts, Running, Calls, Frame
  <2>1. CallInv' /\ KeepInv'
    BY DEF CallInv, HandlerFor, KeepInv
  <2>2. UnusedInv' /\ SenseInv'
    BY DEF UnusedInv, SenseInv
  <2> QED
    BY <2>1, <2>2
<1>6. CASE EicReset
  BY <1>6 DEF EicReset, Starts, Running, Written, AllNone, CallInv, KeepInv, UnusedInv, SenseInv
<1> QED
  BY <1>1, <1>2, <1>3, <1>4, <1>5, <1>6 DEF Operation

(* The first edge sets both, and later ones leave the setting alone.           *)
LEMMA EdgeInterrupt ==
  ASSUME NeverRearmed, EdgeInv, Interrupt, misuse' # "stray"
  PROVE  EdgeInv'
<1> IInv /\ IInv' /\ SleepInv /\ SleepInv'
  BY SleepInterrupt DEF EdgeInv, SleepInv, NeverRearmed
<1>1. LeftAlone /\ UNCHANGED <<inten, errored, wakeup>>
  BY InterruptFrame, HandlerKeepsInten DEF SleepInv, NeverRearmed, NeverDeinited
<1>2. UNCHANGED thread \/ (pc = "wfi" /\ pc' = "idle" /\ call' = NoFrame /\ self' = NULL)
  BY <1>1 DEF LeftAlone, Done
<1> USE DEF EdgeInv, IInv, TypeOK, PinsInv, ThreadInv, Frames, TurningOn, TurningOff, Resuming, Live,
        ChannelA, ChannelB, Channels
<1> USE <1>1, <1>2 DEF LeftAlone
<1>3. CallInv' /\ KeepInv'
  BY DEF CallInv, HandlerFor, KeepInv
<1>4. intflag' \subseteq intflag
  BY HandlerSense DEF SleepInv, NeverRearmed, NeverDeinited
<1>5. CASE UNCHANGED <<config, first>>
  BY <1>3, <1>4, <1>5 DEF UnusedInv, SenseInv
<1>6. ASSUME NEW o \in PulseIn,
             Live(o) /\ ChannelA(o) \in intflag /\ data[ChannelA(o)] = o,
             first' = [first EXCEPT ![o] = FALSE],
             config' = IF first[o] THEN [config EXCEPT ![ChannelA(o)] = "both"] ELSE config
      PROVE  EdgeInv'
  <2> DEFINE c == ChannelA(o)
  <2>1. /\ c \in Channel /\ (first[o] => config'[c] = "both")
        /\ \A d \in Channel : config'[d] \in {config[d], "both"} /\ (d # c => config'[d] = config[d])
        /\ \A o2 \in PulseIn : o2 # o => first'[o2] = first[o2]
    BY <1>6
  <2>2. config[c] # "none"
    BY <1>6, <2>1 DEF UnusedInv
  <2>3. pc \in {"cfg_read", "cfg_write"} /\ self \in PulseIn => self # o /\ call.ch # c
    <3> SUFFICES ASSUME pc \in {"cfg_read", "cfg_write"}, self \in PulseIn
                 PROVE  self # o /\ call.ch # c
      OBVIOUS
    <3>1. call.ret # "wake_ctrl" /\ call.ch = ChannelA(self)
      BY DEF CallInv, HandlerFor
    <3>2. config[call.ch] = "none"
      BY DEF UnusedInv
    <3> QED
      BY <2>2, <3>1, <3>2
  <2>4. UnusedInv'
    <3>1. \A d \in Channel : data'[d] = NULL /\ d \notin inten' =>
            config'[d] = "none" \/ (pc' = "intenset" /\ d = call'.ch)
      BY <1>6, <2>1 DEF UnusedInv
    <3>2. \A d \in intflag' : config'[d] # "none"
      BY <1>4, <2>1 DEF UnusedInv
    <3>3. pc' \in {"cfg_read", "cfg_write"} /\ self' \in PulseIn => first'[self'] /\ config'[call'.ch] = "none"
      BY <2>1, <2>3 DEF UnusedInv
    <3> QED
      BY <3>1, <3>2, <3>3 DEF UnusedInv
  <2>5. SenseInv'
    <3> SUFFICES ASSUME NEW o2 \in PulseIn, Live(o2), ~first'[o2]
                 PROVE  \/ config'[ChannelA(o2)] = "both"
                        \/ handler[ChannelA(o2)] = "wakey" /\ ~(pc \in TurningOn /\ self = o2)
                        \/ /\ pc \in {"intenset", "set_handler"}
                           /\ call.ret = "wake_ctrl" /\ call.ch = ChannelA(o2)
      BY DEF SenseInv
    <3>1. ~first[o2] \/ config'[ChannelA(o2)] = "both"
      BY <2>1
    <3>2. ChannelA(o2) \in Channel
      OBVIOUS
    <3> QED
      BY <2>1, <3>1, <3>2 DEF SenseInv
  <2> QED
    BY <1>3, <2>4, <2>5
<1> QED
  BY <1>5, <1>6, HandlerSense DEF SleepInv, NeverRearmed, NeverDeinited

(* Only a connected channel that detects something has a latched edge.         *)
LEMMA EdgeEnvironment ==
  ASSUME NeverRearmed, EdgeInv, Environment, misuse' # "stray"
  PROVE  EdgeInv'
<1> IInv /\ IInv' /\ SleepInv /\ SleepInv'
  BY SleepInterrupt DEF EdgeInv, SleepInv, NeverRearmed
<1> USE DEF EdgeInv, IInv, TypeOK, PinsInv, ThreadInv, Frames, TurningOn, TurningOff, Resuming, Live,
        ChannelA, ChannelB, Channels
<1>1. ASSUME NEW p \in Pin, Edge(p) PROVE EdgeInv'
  BY <1>1 DEF Edge, CallInv, KeepInv, UnusedInv, SenseInv
<1>2. CASE OtherInterrupt
  BY <1>2 DEF OtherInterrupt, Running, Done, CallInv, KeepInv, UnusedInv, SenseInv
<1>3. CASE ResetButton
  BY <1>3 DEF ResetButton, Done, AllNone, CallInv, KeepInv, UnusedInv, SenseInv
<1> QED
  BY <1>1, <1>2, <1>3 DEF Environment

(* Every step, from power-on.                                                 *)
LEMMA EdgeStep ==
  ASSUME NeverRearmed, IInv, misuse # "stray" => EdgeInv, [Next]_vars, misuse' # "stray"
  PROVE  EdgeInv'
<1>1. IInv'
  BY StepInv
<1>2. CASE ResetButton
  BY <1>1, <1>2 DEF ResetButton, Done, NoFrame, Frame, AllNone, EdgeInv, SleepInv, NoErrors, ArmInv,
     CallInv, KeepInv, UnusedInv, SenseInv,
     TurningOn, Resuming, Live
<1>3. CASE ~ResetButton
  <2>1. EdgeInv
    BY <1>3, StrayStays
  <2>2. CASE UNCHANGED vars
    BY <1>1, <2>1, <2>2 DEF vars, EdgeInv, SleepInv, NoErrors, ArmInv, Live, ChannelA, ChannelB, Channels,
       CallInv, KeepInv, UnusedInv, SenseInv
  <2> QED
    BY <2>1, <2>2, EdgeDriver, EdgeOperation, EdgeInterrupt, EdgeEnvironment DEF Next
<1> QED
  BY <1>2, <1>3

(* After its first edge a PulseIn that still listens detects both edges, in       *)
(* every program that neither deinits nor resumes: resume lets an edge in before  *)
(* it sets the channel back to one edge.                                       *)
THEOREM BothEdgesAfterFirst ==
  ASSUME NeverRearmed
  PROVE  Spec => []FirstEdgeThenBoth
<1> DEFINE Inv == misuse # "stray" => EdgeInv
<1>1. PowerOn => Inv
  BY PowerOnInv DEF PowerOn, NoFrame, Frame, AllNone, EdgeInv, SleepInv, NoErrors, ArmInv, CallInv, KeepInv,
     UnusedInv, SenseInv, TurningOn, Resuming, Live
<1>2. IInv /\ Inv /\ [Next]_vars => Inv'
  BY EdgeStep
<1>3. Inv => FirstEdgeThenBoth
  BY DEF EdgeInv, SenseInv, TurningOn, FirstEdgeThenBoth
<1> QED
  BY <1>1, <1>2, <1>3, Inductive, PTL DEF Spec
=============================================================================
