SPECIFICATION Spec
CONSTANTS
    Len16 = 2
    Len64 = 3
    Bits = 2
    Requests = {"get", "upgrade"}
    Forms <- FormsValue
    Payloads <- PayloadsValue
    Key <- KeyValue
    Opcodes <- OpcodesValue
    Pipelined = {"get"}
    Strays = {"crlf"}
    WholeHeads = TRUE
    MaxMsgs = 3
INVARIANTS Delivered
PROPERTIES AllHandled
CHECK_DEADLOCK FALSE
