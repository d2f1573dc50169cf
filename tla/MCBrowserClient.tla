---- MODULE MCBrowserClient ----
EXTENDS BrowserClient, TLC

CONSTANTS u1, d1

\* The first user has paired this computer.
OneComputer == d1 :> u1
====
