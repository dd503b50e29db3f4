------------------------------ MODULE TPadMain ------------------------------
(***************************************************************************)
(* The main loop of the firmware (main.c:151-205) on top of the ADB host.  *)
(* A pass of the loop is ConnectionTasks, the steps of module Adb, and     *)
(* then one step of the state machine of main: turn says which is next.    *)
(* main is the client of the ADB host; it opens one channel to the phone,  *)
(* says hello, and leaves the rest to ADBCallback, which starts the core   *)
(* timer again when a keep-alive arrives.                                  *)
(***************************************************************************)
EXTENDS Adb

CONSTANTS
    EnumPasses      \* passes of the loop an enumeration takes at least

\* main may open a channel on the connection that was just lost, and then
\* needs a second pass to leave.
ASSUME MainAssumption == EnumPasses \in Nat /\ EnumPasses >= 2

VARIABLES
    turn,           \* "adb" or "main"
    main_state,     \* state in main.c
    handle,         \* h in main.c
    expired,        \* ReadCoreTimer() > 200000000
    unplugged,      \* passes since the phone is not attached
    openedIn        \* the session main's channel was opened in

mainState == <<main_state, handle, openedIn>>
mainVars  == <<turn, main_state, handle, expired, unplugged, openedIn>>
allVars   == <<vars, mainVars>>

InvalidHandle == -1

MainInit ==
    /\ Init
    /\ turn = "adb"
    /\ main_state = "INIT"
    /\ handle = 0
    /\ expired = FALSE
    /\ unplugged = 0
    /\ openedIn = 0

----------------------------------------------------------------------------
(* ConnectionTasks.                                                        *)

\* What comes from outside is seen by USBHostTasks, at the start of a pass.
World ==
    /\ turn = "adb"
    /\ \/ Attach /\ unplugged = EnumPasses
       \/ Detach \/ Bus \/ Answer \/ AdbdSend \/ AdbdClose
    /\ UNCHANGED mainVars

\* The callback ignores a closure; a keep-alive among the data it gets starts
\* the timer again.
ADBCallback ==
    \/ UNCHANGED expired
    \/ (\E c \in calls' : c.data > 0) /\ expired' = FALSE

ConnectionTasks ==
    /\ turn = "adb"
    /\ Loop
    /\ ADBCallback
    /\ turn' = IF pc' = "idle" THEN "main" ELSE "adb"
    /\ UNCHANGED <<mainState, unplugged>>

\* Time passes.
Tick ==
    /\ turn = "main" /\ ~expired
    /\ expired' = TRUE
    /\ UNCHANGED <<vars, turn, mainState, unplugged>>

----------------------------------------------------------------------------
(* The state machine of main.                                              *)

Pass ==
    /\ turn = "main" /\ turn' = "adb"
    /\ unplugged' = IF attached THEN 0
                    ELSE IF unplugged < EnumPasses THEN unplugged + 1
                    ELSE unplugged
    /\ calls' = {}
    /\ UNCHANGED <<pc, attached, conn, adb_buffer_refcount, current_channel,
                   port, phone, count>>

NoCall == UNCHANGED <<adb_channels, local_id_counter, owner>>

PassInit ==
    /\ Pass /\ main_state = "INIT"
    /\ main_state' = "WAITING"
    /\ handle' = InvalidHandle
    /\ NoCall
    /\ UNCHANGED <<expired, openedIn>>

PassWaiting ==
    /\ Pass /\ main_state = "WAITING"
    /\ main_state' = IF attached THEN "CONNECTING" ELSE "WAITING"
    /\ NoCall
    /\ UNCHANGED <<handle, expired, openedIn>>

\* main waits for the connection, or has opened as often as MaxOpens allows.
PassNotConnected ==
    /\ Pass /\ main_state = "CONNECTING"
    /\ ~ADBConnected \/ local_id_counter > MaxOpens
    /\ NoCall
    /\ UNCHANGED <<mainState, expired>>

\* ADBOpen, then ADBWrite of the hello on the channel that is not open yet.
PassOpen ==
    /\ Pass /\ main_state = "CONNECTING" /\ ADBConnected
    /\ local_id_counter <= MaxOpens
    /\ \E h \in FreeHandles :
          /\ \A g \in FreeHandles : h <= g
          /\ handle' = h
          /\ adb_channels' =
                [adb_channels EXCEPT
                   ![h] = [Opened(@, LocalId(local_id_counter, h))
                             EXCEPT !.data = 1]]
          /\ app' = [app EXCEPT ![h] = local_id_counter]
          /\ got' = [got EXCEPT ![h] = 0] /\ wrote' = [wrote EXCEPT ![h] = 1]
    /\ local_id_counter' = local_id_counter + 1
    /\ main_state' = "CONNECTED"
    /\ expired' = FALSE
    /\ openedIn' = sessions

PassNoChannel ==
    /\ Pass /\ main_state = "CONNECTING" /\ ADBConnected
    /\ local_id_counter <= MaxOpens /\ FreeHandles = {}
    /\ handle' = InvalidHandle
    /\ NoCall
    /\ UNCHANGED <<main_state, expired, openedIn>>

\* Only the timer, or only the cable, ends the connection; or both.
LeavesOnTimeout == expired
LeavesOnDetach  == ~attached
Leaves          == ~attached \/ expired

PassConnected ==
    /\ Pass /\ main_state = "CONNECTED"
    /\ main_state' = IF Leaves THEN "INIT" ELSE "CONNECTED"
    /\ NoCall
    /\ UNCHANGED <<handle, expired, openedIn>>

Main ==
    \/ PassInit \/ PassWaiting
    \/ PassNotConnected \/ PassOpen \/ PassNoChannel
    \/ PassConnected

MainNext == World \/ ConnectionTasks \/ Tick \/ Main

MainSpec == MainInit /\ [][MainNext]_allVars

\* No channel a keep-alive could come from.
Silent == \A h \in Handles : adb_channels[h].state = "FREE"

\* The loop never stops, and time passes where nothing resets the timer; the
\* bus and the daemon as in Adb.
MainFairness ==
    /\ WF_allVars(ConnectionTasks \/ Main)
    /\ SF_allVars(Tick /\ Silent)
    /\ SF_allVars(World /\ (SendDone \/ SendFails))
    /\ SF_allVars(World /\ (RecvDone \/ RecvFails))
    /\ SF_allVars(World /\ Answer)

MainFairSpec == MainSpec /\ MainFairness

----------------------------------------------------------------------------
(* Properties.                                                             *)

\* main never takes a channel of an earlier session for the one it has: while
\* a phone is attached, its channel was opened with this phone (main.c:190).
FreshSession == main_state = "CONNECTED" /\ attached => openedIn = sessions

\* An attached phone gets a channel, unless all of them are in use.
Connects ==
    attached ~> (~attached \/ main_state = "CONNECTED" \/ FreeHandles = {}
                           \/ local_id_counter > MaxOpens)

\* A channel that was refused or closed is given up: the callback ignores the
\* closure (main.c:281), the timer does not.
AbandonsDead ==
    (main_state = "CONNECTED" /\ Silent)
        ~> ~(main_state = "CONNECTED" /\ Silent)
=============================================================================
