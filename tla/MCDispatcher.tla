---------------------------- MODULE MCDispatcher ----------------------------
\* Small instances of Dispatcher for TLC.
EXTENDS Dispatcher, TLC

CONSTANTS lamp, lock, availability, firmware

Ev(d, p, k, dd) == [device |-> d, priority |-> p, key |-> k, dedupe |-> dd]

\* The events the device service publishes (device_service.go lines 439 and 2000),
\* snapshots with no priority and no key and availability updates with a key, and
\* events that use the other features of the bus on the same device.
BusOffer == {Ev(lamp, "", None, None), Ev(lock, "critical", None, None),
             Ev(lamp, "high", availability, None), Ev(lamp, "low", availability, firmware),
             Ev(lamp, "low", None, firmware), Ev(lamp, "low", availability, None)}
=============================================================================
