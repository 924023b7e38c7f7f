---------------------------- MODULE MCNativeRuntime ---------------------------
(* Two shells on one checkout: one installs and runs a model in its place,   *)
(* the other builds and opens the app, starts servers and generates.  The    *)
(* products stand for the tools, which only the script builds, and the       *)
(* server, which the packager builds as well.                                *)
EXTENDS NativeRuntime

CONSTANTS Installer, User, Tools

MCProducts == {Tools, Server}
MCInstallOrder == <<Tools, Server>>
MCPackageOrder == <<Server>>
MCCommandsOf == [s \in {Installer, User} |->
                   IF s = Installer THEN {"install", "run"}
                                    ELSE {"app", "open", "start_server", "generate"}]
===============================================================================
