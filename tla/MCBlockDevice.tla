--------------------------- MODULE MCBlockDevice ---------------------------
EXTENDS BlockDevice

Config(value, rest) == <<ConfigurationDescriptor(value)>> \o rest
Storage(in, out) ==
    <<InterfaceDescriptor(8, 80), EndpointDescriptor("in", in, "bulk"),
      EndpointDescriptor("out", out, "bulk")>>
Keyboard(in) ==
    <<InterfaceDescriptor(3, 1), EndpointDescriptor("in", in, "interrupt")>>

PlainSuite == Config(1, Storage(1, 2))
\* Another configuration comes first, with lower endpoint numbers.
TwoConfigSuite == Config(1, Keyboard(1)) \o Config(2, Storage(3, 2))
\* Vendor descriptors push the second endpoint past the 64 bytes fetched.
LongSuite ==
    Config(1, <<OtherDescriptor(33)>> \o Storage(1, 2))
KeyboardSuite == Config(1, Keyboard(1))
CompositeSuite == Config(1, Keyboard(1) \o Storage(2, 2))

Unit(last, long, type, suite) ==
    [last |-> last, long |-> long, type |-> type, suite |-> suite]
MCUnits ==
    {Unit(2, FALSE, 0, PlainSuite), Unit(8, TRUE, 0, TwoConfigSuite),
     Unit(2, TRUE, 0, LongSuite), Unit(2, FALSE, 5, PlainSuite),
     Unit(2, FALSE, 0, KeyboardSuite)}
CompositeUnits == {Unit(2, FALSE, 0, CompositeSuite)}

\* Becoming ready, and a recovered error that is in none of the tables.
MCTroubles == {<<2, 4, 1>>, <<1, 23, 1>>}

Ask(kind, offset, count, buf) ==
    [kind |-> kind, offset |-> offset, count |-> count, buf |-> buf]
MCRequests ==
    {Ask("read", 0, 2, 2), Ask("read", 5, 1, 1), Ask("read", 7, 1, 1),
     Ask("read", 0, 4, 4), Ask("read", 0, 1, 2), Ask("read", 12, 1, 1),
     Ask("write", 1, 2, 2), Ask("write", 7, 2, 2), Ask("write", 0, 2, 1)}
=============================================================================
