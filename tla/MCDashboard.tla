----------------------------- MODULE MCDashboard -----------------------------
\* What the dashboard's pages show, each part on its own: the page's live
\* view, its slots, its recording views and the single-link monitor.  A
\* behaviour is of one of them.
EXTENDS LivePage, ReceiverSlots, PageViews, DeviceMonitor

\* Zones in a row, each beside the next.
Zones == {"left", "middle", "right"}
Neighbours == {<<"left", "middle">>, <<"middle", "left">>,
               <<"middle", "right">>, <<"right", "middle">>}
\* Slots in order of appearance, and the ids of two of three receivers.
IdLists == {<<>>, <<1, 2>>}

VARIABLE part
dashboardVars == <<part, pageVars, slotVars, viewVars, monitorVars>>

DashboardInit ==
  /\ part \in {"page", "slots", "views", "monitor"}
  /\ PageInit /\ SlotsInit /\ ViewsInit /\ MonitorInit
  /\ part # "slots" => slotIds = <<>>

PageStep == part = "page" /\ PageNext
  /\ UNCHANGED <<part, slotVars, viewVars, monitorVars>>
SlotsStep == part = "slots" /\ SlotsNext
  /\ UNCHANGED <<part, pageVars, viewVars, monitorVars>>
ViewsStep == part = "views" /\ ViewsNext
  /\ UNCHANGED <<part, pageVars, slotVars, monitorVars>>
MonitorStep == part = "monitor" /\ MonitorNext
  /\ UNCHANGED <<part, pageVars, slotVars, viewVars>>

DashboardNext == PageStep \/ SlotsStep \/ ViewsStep \/ MonitorStep

\* As in LivePage, PageViews and DeviceMonitor.
DashboardFairness ==
  /\ WF_pageVars(part = "page" /\ Receive)
  /\ WF_pageVars(part = "page" /\ Connect)
  /\ WF_viewVars(part = "views" /\ PublishStatus)
  /\ WF_viewVars(part = "views" /\ FinishStop)
  /\ WF_viewVars(part = "views" /\ Reconnect)
  /\ WF_viewVars(part = "views" /\ Hear)
  /\ WF_viewVars(part = "views" /\ Serve("core"))
  /\ WF_viewVars(part = "views" /\ TakeReply("core"))
  /\ WF_monitorVars(part = "monitor" /\ PollDevice)
  /\ WF_monitorVars(part = "monitor" /\ PollLogs)
  /\ WF_monitorVars(part = "monitor" /\ PollFails)
  /\ WF_monitorVars(part = "monitor" /\ BootPage)
  /\ WF_monitorVars(part = "monitor" /\ Render)
  /\ WF_monitorVars(part = "monitor" /\ Resume)

DashboardSpec == DashboardInit /\ [][DashboardNext]_dashboardVars /\ DashboardFairness
=============================================================================
