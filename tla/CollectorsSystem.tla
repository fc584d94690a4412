-------------------------- MODULE CollectorsSystem --------------------------
(***************************************************************************)
(* The collectors of the operating system and its hardware: for each one   *)
(* the functions Build, Collect and Close, and those they call, as         *)
(* sequences of steps.  Names are those of the source, with the package in *)
(* front where several packages use the name.  A query and the metrics     *)
(* made from it have the name of the collector or of the sub-collector.    *)
(***************************************************************************)
EXTENDS CollectorSteps

cache_Build == Return(DescsThenOpen("cache"))
cache_Collect == Return(ReadCheckFirst("cache"))
cache == Sequential(cache_Build, cache_Collect, <<CloseQuery("cache")>>)

cpu_Build == Return(<<MakeAll({"cpu", "cores"}), Open("cpu")>>)
cpu_Collect == Return(ReadEach("cpu") \o <<Emit("cores")>>)
cpu == [Sequential(cpu_Build, cpu_Collect, <<CloseQuery("cpu")>>)
          EXCEPT !.lock = TRUE]

cpu_info_Build == Return(<<Make("cpu_info")>> \o Session \o <<Call>>)
cpu_info_Collect == Return(<<Query, Emit("cpu_info")>>)
cpu_info == Sequential(cpu_info_Build, cpu_info_Collect, <<>>)

cs_Build == Return(<<MakeAll({"memory", "hostname"})>>)
cs_Collect ==
  Return(<<Sys, Emit("memory"), Sys, Sys, Sys, Emit("hostname")>>)
cs == Sequential(cs_Build, cs_Collect, <<>>)

diskdrive_Build == Return(<<Make("diskdrive")>> \o Session \o <<Call>>)
diskdrive_Collect == Return(<<Query, Sys, Emit("diskdrive")>>)
diskdrive == Sequential(diskdrive_Build, diskdrive_Collect, <<>>)

\* The part "log" stands for a log that the configuration names.  A log that was
\* not opened is left out.  (EventLog models how a log is read.)
eventlog_Build ==
  Return(<<Sys, MakeAll({"event_total", "derived", "boot"})>>)
    \o ReturnIf("log", <<Call>>)
emitCounts == <<Emit("event_total")>>
emitDerivedCounters == <<Emit("derived")>>
collectBootPerformanceMetrics == <<Sys, Emit("boot")>>
eventlog_Collect ==
  <<Block("log", "log", <<Sys>>)>> \o ReturnIf("log", emitCounts)
    \o Return(emitDerivedCounters) \o Log(collectBootPerformanceMetrics)
eventlog == [Sequential(eventlog_Build, eventlog_Collect, <<>>)
               EXCEPT !.ifBuilt = TRUE]

filetime_Build == Return(<<Make("filetime"), Sys>>)
\* One pattern, one file.  That it cannot be matched or read is logged.
collectGlobFilePath == <<Sys, Sys, Emit("filetime")>>
filetime == Parallel(filetime_Build, <<Log(collectGlobFilePath)>>, <<>>)

license_Build == Return(<<Make("license")>>)
license_Collect == Return(<<Sys, Emit("license")>>)
license == Sequential(license_Build, license_Collect, <<>>)

logical_disk_Build == Return(DescsThenOpen("logical_disk"))
getAllMountedVolumes == <<Sys>>
logical_disk_Collect ==
  Return(<<Read("logical_disk")>> \o getAllMountedVolumes
           \o <<Each("logical_disk", "logical_disk")>>)
logical_disk == Sequential(logical_disk_Build, logical_disk_Collect, <<>>)

logon_Build == Return(<<Make("logon")>>)
logon_Collect == Return(<<Sys, Emit("logon")>>)
logon == Sequential(logon_Build, logon_Collect, <<>>)

memory_Build == Return(<<MakeAll({"memory", "global"}), Open("memory")>>)
collectGlobalMemoryStatus == <<Sys, Emit("global")>>
memory_collectPDH == ReadCheckFirst("memory")
memory_Collect == Join(memory_collectPDH) \o Join(collectGlobalMemoryStatus)
memory == Sequential(memory_Build, memory_Collect, <<>>)

net_Build == Return(<<MakeAll({"metrics", "nic_addresses"}), Open("metrics")>>)
net_collect == ReadEach("metrics")
collectNICAddresses == <<Sys, Emit("nic_addresses")>>
net_Collect ==
  JoinIf("metrics", net_collect) \o JoinIf("nic_addresses", collectNICAddresses)
net == Sequential(net_Build, net_Collect, <<CloseQuery("metrics")>>)

OsGroups == {"info", "processes", "hostname", "users", "memory", "time"}
getWindowsVersion == <<Call>>
os_Build == Return(getWindowsVersion \o <<MakeAll(OsGroups)>>)
os_collect == <<Emit("info")>>
collectProcessCount == <<Sys, Emit("processes")>>
collectHostname == <<Sys, Sys, Sys, Emit("hostname")>>
collectLoggedInUserCount == <<Sys, Emit("users")>>
os_collectMemory == <<Sys, Emit("memory")>>
os_collectTime == <<Sys, Emit("time")>>
os_Collect ==
  Join(os_collect) \o Join(collectProcessCount) \o Join(collectHostname)
    \o Join(collectLoggedInUserCount) \o Join(os_collectMemory)
    \o Join(os_collectTime)
os == Sequential(os_Build, os_Collect, <<>>)

pagefile_Build == Return(DescsThenOpen("pagefile"))
pagefile_Collect ==
  Return(<<Read("pagefile"), Sys, Each("pagefile", "pagefile")>>)
pagefile == Sequential(pagefile_Build, pagefile_Collect, <<CloseQuery("pagefile")>>)

\* One object of the configuration; its descriptors are made at each scrape.
\* One object: it must have a name, its counters must have names of their own (for
\* one without, slices.Delete or the next index may panic), and it must say what it
\* observes.
performancecounter_Build ==
  Return(<<Sys>>) \o Join(<<Fail({"error", "panic"})>>)
    \o Join(<<Sys, Open("object")>>) \o Return(<<Make("scrape")>>)
collectObject == <<Read("object"), Make("object"), Each("object", "object")>>
performancecounter_Collect == Join(collectObject) \o Join(<<Emit("scrape")>>)
performancecounter ==
  Sequential(performancecounter_Build, performancecounter_Collect, <<>>)

physical_disk_Build == Return(DescsThenOpen("physical_disk"))
physical_disk_Collect == Return(ReadEach("physical_disk"))
physical_disk == Sequential(physical_disk_Build, physical_disk_Collect, <<>>)

printer_Build == Return(<<MakeAll({"status", "jobs"})>> \o Session)
collectPrinterStatus == <<Query, Emit("status")>>
collectPrinterJobStatus == <<Query, Emit("jobs")>>
printer_Collect == Join(collectPrinterStatus) \o Join(collectPrinterJobStatus)
printer == Sequential(printer_Build, printer_Collect, <<>>)

\* The counters are in "Process V2" or, where that object does not exist, in the
\* registry (process_v1).  The workers start and the descriptors are made last.
ProcessWorkers == <<Make("workerCh"), Make("process")>>
process_Build == Return(Session \o <<Open("process")>> \o ProcessWorkers)
collectWorkerV2 == <<Each("process", "process")>>
collectV2 == <<Read("process"), Send("workerCh")>> \o collectWorkerV2
process_Collect == ReturnIf("iis", <<Query>>) \o Return(collectV2)
process == Sequential(process_Build, process_Collect, <<CloseQuery("process")>>)

\* Of internal/pdh/registry: the collector exists once a first Collect worked.
registry_NewCollector == <<Call, Make("v1")>>
registry_Collect == <<Use("v1"), Sys>>
process_v1_Build == Return(Session \o registry_NewCollector \o ProcessWorkers)
collectWorkerV1 == <<Emit("process")>>
collectV1 == registry_Collect \o <<Send("workerCh")>> \o collectWorkerV1
process_v1_Collect == ReturnIf("iis", <<Query>>) \o Return(collectV1)
process_v1 == Sequential(process_v1_Build, process_v1_Collect, <<>>)

scheduled_task_Build == Return(<<Make("scheduled_task")>>)
getScheduledTasks == <<Sys, Sys, Sys, Sys, Sys>>
scheduled_task_collect == getScheduledTasks \o <<Emit("scheduled_task")>>
scheduled_task ==
  Sequential(scheduled_task_Build, Return(scheduled_task_collect), <<>>)

service_Build == Return(<<MakeAll({"service", "process_id"}), Call, Make("scm")>>)
queryAllServices == <<Use("scm"), Sys>>
collectService == <<Sys, Sys, Emit("service"), Sys, Emit("process_id")>>
service_Collect == Return(queryAllServices) \o Worker(collectService)
service == Sequential(service_Build, service_Collect, <<Use("scm")>>)

system_Build == Return(DescsThenOpen("system"))
system_Collect == Return(ReadCheckFirst("system"))
system == Sequential(system_Build, system_Collect, <<CloseQuery("system")>>)

tcp_Build == Return(<<MakeAll({"tcp4", "tcp6", "states4", "states6"}),
                      Open("tcp4"), Open("tcp6")>>)
tcp_collect == ReadFirst("tcp4") \o ReadFirst("tcp6")
collectConnectionsState == <<Sys, Emit("states4"), Sys, Emit("states6")>>
tcp_Collect == JoinIf("metrics", tcp_collect)
                 \o JoinIf("connections_state", collectConnectionsState)
tcp_Close == <<CloseIf("metrics", "tcp4"), CloseIf("metrics", "tcp6")>>
tcp == Sequential(tcp_Build, tcp_Collect, tcp_Close)

\* One file.  It is refused if it cannot be opened, parsed or has a byte order
\* mark, a timestamp or a duplicate; a duplicate among several files is logged.
textfile_Build == Return(<<Make("mtimes")>>)
scrapeFile == <<Sys, Sys, Sys>>
exportMTimes == <<Emit("mtimes")>>
convertMetricFamily == <<Make("family"), Emit("family")>>
textfile_Collect ==
  Join(<<Sys>> \o scrapeFile \o <<Sys>> \o exportMTimes
         \o <<Fail({"logged"})>> \o convertMetricFamily)
textfile == Sequential(textfile_Build, textfile_Collect, <<>>)

thermalzone_Build == Return(DescsThenOpen("thermalzone"))
thermalzone_Collect == Return(ReadEach("thermalzone"))
thermalzone == Sequential(thermalzone_Build, thermalzone_Collect, <<>>)

time_Build == Return(<<MakeAll({"time", "timezone", "ntp"}), Open("ntp")>>)
time_collectTime == <<Emit("time"), Sys, Emit("timezone")>>
collectNTP == ReadCheckFirst("ntp")
time_Collect == JoinIf("system_time", time_collectTime) \o JoinIf("ntp", collectNTP)
time_Close == <<CloseIf("ntp", "ntp")>>
time == Sequential(time_Build, time_Collect, time_Close)

udp_Build == Return(<<MakeAll({"udp4", "udp6"}), Open("udp4"), Open("udp6")>>)
udp_collect == ReadFirst("udp4") \o ReadFirst("udp6")
udp_Close == <<CloseQuery("udp4"), CloseQuery("udp6")>>
udp == Sequential(udp_Build, Return(udp_collect), udp_Close)

SystemCollectors ==
  [cache |-> cache, cpu |-> cpu, cpu_info |-> cpu_info, cs |-> cs,
   diskdrive |-> diskdrive, eventlog |-> eventlog, filetime |-> filetime,
   license |-> license,
   logical_disk |-> logical_disk, logon |-> logon, memory |-> memory,
   net |-> net, os |-> os, pagefile |-> pagefile,
   performancecounter |-> performancecounter, physical_disk |-> physical_disk,
   printer |-> printer, process |-> process, process_v1 |-> process_v1,
   scheduled_task |-> scheduled_task, service |-> service, system |-> system,
   tcp |-> tcp, textfile |-> textfile, thermalzone |-> thermalzone, time |-> time, udp |-> udp]
=============================================================================
