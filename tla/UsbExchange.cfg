SPECIFICATION SpecOfTwo
CONSTANTS
  Threads = {"engine", "task", "usb"}
  Capacity = 1
PROPERTIES InStep OkWasDone LagStays CallsReturn
