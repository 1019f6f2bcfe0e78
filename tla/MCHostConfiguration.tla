------------------------ MODULE MCHostConfiguration ------------------------
(* Hosts that differ in the plugins that run, in Windows version and metadata. *)
EXTENDS HostConfiguration

CONSTANTS given, client, bare

Stage(plugins, settings) == [plugins |-> plugins, given |-> settings]

First ==
  Stage(<<"NTPClient", "MTU", "SetHostName", "PageFiles">>,
        {"mtu", "rtc", "w32time", "ntp", "hostname", "pagefiles"})
Second ==
  Stage(<<"NTPClient", "SetHostName", "WindowsLicensing", "SSHPublicKeys", "ExtendVolumes">>,
        {"rtc", "licensing", "product key", "kms host", "activation", "ssh keys"})
Third ==
  Stage(<<"SanPolicy", "RDPSettings", "RDPPostCertificateThumbprint", "DisplayIdleTimeout",
          "BootStatusPolicy", "BCDConfig">>,
        {"san", "keepalive", "keepalive interval", "thumbprint", "video idle", "boot status",
         "disk id", "os device", "application device", "auto recovery"})
Fourth ==
  Stage(<<"WindowsAutoUpdates", "Trim", "EphemeralDisk", "BCDConfig", "SanPolicy", "AzureGuestAgent">>,
        {"updates", "trim", "warning", "warning path", "auto recovery", "provision", "desktop",
         "dotnet", "RdAgent", "agent package", "VM type", "agent version", "agent start mode",
         "agent status"})
Fifth ==
  Stage(<<"PageFiles", "AzureGuestAgent", "SetHostName">>,
        {"provision", "nano", "WindowsAzureGuestAgent", "agent package", "agent start mode",
         "agent status", "hostname", "pagefiles"})

Listen(protocol, cert) == [protocol |-> protocol, cert |-> cert]

Remotely(legacy, restricted, start, existing, server, listeners, clients) ==
  [legacy |-> legacy, restricted |-> restricted, service |-> TRUE, mode |-> start,
   existing |-> existing, server |-> server, listeners |-> listeners, client |-> clients,
   bare |-> {bare}]

Old ==
  Remotely(TRUE, "on", "manual", {"HTTP"}, <<>>,
           <<Listen("HTTP", NoCert), Listen("HTTPS", NoCert)>>, <<client>>)
New ==
  Remotely(FALSE, "on", "auto", {}, <<given>>,
           <<Listen("HTTPS", NoCert), Listen("HTTPS", given)>>, <<bare, client>>)
Unknown == Remotely(TRUE, "off", "disabled", {}, <<>>, <<Listen("HTTPS", given)>>, <<>>)
Missing == [Remotely(FALSE, "on", "manual", {}, <<>>, <<>>, <<client>>) EXCEPT !.service = FALSE]

Machine(user, self, settings, remote) ==
  [account |-> user, own |-> self, settings |-> settings, remote |-> remote]

MCMachines ==
  {Machine("local", TRUE, First, Old), Machine("local", FALSE, Second, New),
   Machine("builtin", FALSE, Third, Unknown), Machine("domain", TRUE, Fourth, Missing),
   Machine("missing", FALSE, Fifth, New)}

=============================================================================
