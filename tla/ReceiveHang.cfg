SPECIFICATION Spec
CONSTANTS
    Len16 = 2
    Len64 = 3
    Bits = 2
    Requests = {"get", "upgrade"}
    Forms <- FormsValue
    Payloads <- PayloadsValue
    Key <- KeyValue
    Opcodes = {}
    Pipelined = {"get"}
    Strays = {}
    WholeHeads = FALSE
    MaxMsgs = 2

PROPERTIES AllHandled
CHECK_DEADLOCK FALSE
