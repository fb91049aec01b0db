------------------------------ MODULE MCUsbBus ------------------------------
EXTENDS UsbBus

CONSTANTS h1, h2, d1, d2
=============================================================================
