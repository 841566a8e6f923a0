----------------------------- MODULE MCServices -----------------------------
\* Parts of the system that share no state with each other are checked in one
\* run: each behaviour takes the steps of one of them.
EXTENDS ThermalMonitor, IpcClient, WsStatus, RateLimit

CONSTANT First

VARIABLE part

MCIp == [b \in Browsers |-> "one address"]

servicesVars == <<part, thermalVars, ipcVars, wsVars, rateVars>>

ServicesInit ==
  /\ part \in {"thermal", "ipc", "ws", "rate"}
  /\ ThermalInit /\ IpcInit /\ WsInit /\ RateInit

OfThermal(A) ==
  part = "thermal" /\ A /\ UNCHANGED <<part, ipcVars, wsVars, rateVars>>
OfIpc(A) ==
  part = "ipc" /\ A /\ UNCHANGED <<part, thermalVars, wsVars, rateVars>>
OfWs(A) ==
  part = "ws" /\ A /\ UNCHANGED <<part, thermalVars, ipcVars, rateVars>>
OfRate(A) ==
  part = "rate" /\ A /\ UNCHANGED <<part, thermalVars, ipcVars, wsVars>>

\* Of the dashboards, which are alike, First is the first to be enabled.
InTurn == signIns = 1 => \A b \in Browsers \ {First} : ~enabled[b]

ServicesNext ==
  \/ OfThermal(ThermalNext) \/ OfIpc(IpcNext) \/ OfWs(WsNext /\ InTurn') \/ OfRate(RateNext)

\* The fairness of the part that moves: IpcSpec and WsSpec.
ServicesSpec ==
  /\ ServicesInit /\ [][ServicesNext]_servicesVars
  /\ WF_servicesVars(OfIpc(ClientData)) /\ WF_servicesVars(OfIpc(DaemonData))
  /\ \A s \in Slots :
       /\ WF_servicesVars(OfWs(Refuse(s) \/ Upgrade(s))) /\ WF_servicesVars(OfWs(HearClose(s)))
       /\ WF_servicesVars(OfWs(OnClose(s) \/ FeedConnects(s) \/ FeedSubscribes(s)))
  /\ \A b \in Browsers : WF_servicesVars(OfWs(Dial(b)))
=============================================================================
